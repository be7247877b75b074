---------------------------- MODULE SourcesProofs ----------------------------
(***************************************************************************)
(* Proofs about Sources, for any set of concurrent requests and any        *)
(* number of requests and faults.                                          *)
(*                                                                         *)
(* That a bound source can be used rests on the identity of snapshots      *)
(* (IdsDistinct, UnbornClean: nobody else can have touched what a request  *)
(* is building), on what each stage of an import or bind has already       *)
(* written (StageInv), and on what a removal that overlaps it may still    *)
(* take apart (RemovalInv): a removal takes the upload lock for each table *)
(* it drops and so cannot pass an import that is under way, but a removal  *)
(* and a deletion of a live source pass a bind freely.                     *)
(***************************************************************************)
EXTENDS Sources, TLAPS

\* The stages of an import or bind: before its snapshot row, with the row and
\* not yet bound, and bound.
Early == {"u_put", "u_row", "u_attach", "u_source", "i_lock", "i_open", "i_begin"}
Building == {"i_table", "i_rows", "i_schema", "i_check", "b_fetch", "i_profile",
             "b_ready", "i_bind"}
Binding == {"i_list", "i_clean"}
Importing == Early \cup Building \cup Binding

Issued == MaxOps - left.ops

\* A snapshot identity that no row has been written for.
Unborn(i) == i > Issued \/ \E p \in Procs : proc[p].pc \in Early /\ proc[p].id = i

\* Requests that make snapshots have identities of their own.
IdsDistinct ==
  /\ \A p \in Procs : proc[p].pc \in Importing => proc[p].id \in 1 .. Issued
  /\ \A p, q \in Procs :
       proc[p].pc \in Importing /\ proc[q].pc \in Importing /\ proc[p].id = proc[q].id
         => p = q

UnbornClean ==
  \A i \in Ids : Unborn(i) =>
    /\ db.snap[i].status = "none" /\ i \notin table
    /\ \A o \in Objs : db.bind[o] # i
    /\ \A p \in Procs : i \notin proc[p].sel

\* What a request has written by the stage it is in.  The row of a file's
\* snapshot is safe; that of a live one may be gone, but not while the source
\* is there and no removal has begun.
FileStage(r) ==
  /\ r.pc \in {"i_table", "i_rows", "i_schema", "i_check"} =>
       db.snap[r.id] = [obj |-> "file", status |-> "creating"]
  /\ r.pc \in {"i_profile", "i_bind"} =>
       db.snap[r.id] = [obj |-> "file", status |-> "ready"]
  /\ r.pc \in {"i_rows", "i_schema", "i_check", "i_profile", "i_bind"} => r.id \in table
  /\ r.pc = "i_bind" => db.prof[r.id] # "none"

LiveStage(r) ==
  /\ r.pc \in {"b_fetch", "i_profile", "b_ready"} /\ db.snap[r.id].status # "none" =>
       db.snap[r.id] = [obj |-> "live", status |-> "creating"]
  /\ r.pc \in {"i_profile", "b_ready", "i_bind"} => cfg.version > 0
  /\ r.pc \in {"b_ready", "i_bind"} /\ db.src["live"] /\ "live" \notin torn =>
       /\ db.prof[r.id] # "none"
       /\ db.snap[r.id] = [obj |-> "live",
                           status |-> IF r.pc = "i_bind" THEN "ready" ELSE "creating"]

StageAt(p) ==
  /\ proc[p].pc \in {"i_open", "i_table", "i_rows", "i_schema", "i_check"} => proc[p].obj = "file"
  /\ proc[p].pc \in {"b_fetch", "b_ready"} => proc[p].obj = "live"
  /\ proc[p].pc \in Building =>
       /\ \A o \in Objs : db.bind[o] # proc[p].id
       /\ proc[p].obj = "file" => FileStage(proc[p])
       /\ proc[p].obj = "live" => LiveStage(proc[p])
  /\ proc[p].pc \in Binding => db.bind[proc[p].obj] \in {0, proc[p].id}

StageInv == \A p \in Procs : StageAt(p)

\* A source row that is being created has no configuration yet.
CreationInv ==
  /\ cfg.on => cfg.version > 0
  /\ \A p \in Procs : proc[p].pc = "n_row" => ~db.src["live"] /\ cfg.version = 0
  /\ \A p, q \in Procs : proc[p].pc = "n_row" /\ proc[q].pc = "n_row" => p = q

\* What a removal, or the clean-up behind a binding, has selected: rows of its
\* own object; past r_drop a removal's rows have no table and no request that
\* could still give them one.
RemovalAt(p) ==
  /\ proc[p].pc \in {"r_drop", "r_prof", "r_rows", "r_bind"} => proc[p].obj \in torn
  /\ proc[p].pc = "r_drop" => proc[p].obj = "file"
  /\ proc[p].pc \in {"r_drop", "r_prof", "r_rows", "i_clean"} =>
       \A i \in proc[p].sel :
         db.snap[i].status = "none" \/ db.snap[i].obj = proc[p].obj
  /\ proc[p].pc = "i_clean" => proc[p].id \notin proc[p].sel
  /\ proc[p].pc \in {"r_prof", "r_rows"} /\ proc[p].obj = "file" =>
       \A i \in proc[p].sel :
         /\ i \notin table
         /\ \A q \in Procs : proc[q].pc \in Importing => proc[q].id # i

RemovalInv == \A p \in Procs : RemovalAt(p)

\* One receipt and one report are under way at a time.
ReceiptInv ==
  /\ ReceiptOnce
  /\ \A p, q \in Procs : proc[p].tag = "receipt" /\ proc[q].tag = "receipt" => p = q
  /\ \A p \in Procs :
       /\ proc[p].pc \in {"c_look", "c_row"} => proc[p].id \in Ids
       /\ proc[p].pc = "c_row" /\ proc[p].tag = "receipt" => db.conf[proc[p].id].receipt = 0

Saving == {"s_row", "s_file", "s_put", "s_meta", "s_report", "s_bind"}

ReportInv ==
  /\ BoundReportDownloadable
  /\ \A p, q \in Procs : proc[p].tag = "report" /\ proc[q].tag = "report" => p = q
  /\ \A p \in Procs :
       /\ proc[p].pc \in Saving => proc[p].tag = "report"
       /\ proc[p].pc \in {"s_put", "s_meta", "s_report", "s_bind"} => ~report.ref
       /\ proc[p].pc \in {"s_meta", "s_report", "s_bind"} => report.object
       /\ proc[p].pc \in {"s_report", "s_bind"} => report.file

SnapshotInv ==
  /\ IdsDistinct /\ UnbornClean /\ StageInv /\ CreationInv /\ RemovalInv
  /\ BoundIsUsable /\ TableHasRow

SourcesInv == TypeOK /\ SnapshotInv /\ ReceiptInv /\ ReportInv

-----------------------------------------------------------------------------
(* The steps of a request by what they change of the snapshots.            *)

Freed(p) == IF lock = p THEN NoProc ELSE lock

\* Every step of request p: the others stay, the lock is kept, taken or freed.
Moves(p) ==
  /\ \A q \in Procs \ {p} : proc'[q] = proc[q]
  /\ \/ lock' = lock /\ (proc[p].pc \in Critical <=> proc'[p].pc \in Critical)
     \/ lock' = Freed(p) /\ proc'[p].pc = "idle"
     \/ lock = NoProc /\ lock' = p /\ proc[p].pc = "i_lock" /\ proc'[p].pc \in Critical
  /\ left'.ops = left.ops
  /\ proc'[p].tag \in {proc[p].tag, "none"}

\* The steps that concern neither a receipt nor the report.
ConfKept == \A i \in Ids : db'.conf[i] \in {db.conf[i], NoConf}
NoReceipt(p) == ConfKept /\ proc'[p].pc \notin {"c_look", "c_row"}
NoReport(p) == report' = report /\ proc'[p].pc \notin Saving

SourceKept == db'.src["live"] = db.src["live"] /\ cfg' = cfg
Frame ==
  /\ SourceKept /\ db'.snap = db.snap /\ db'.prof = db.prof /\ db'.bind = db.bind
  /\ table' = table /\ torn' = torn

Stopped(p) == proc'[p].pc = "idle" /\ proc'[p].sel = {}
Keeps(p) == proc'[p].obj = proc[p].obj /\ proc'[p].id = proc[p].id
Passes(p, from, to) ==
  /\ proc[p].pc = from /\ proc'[p].pc = to /\ Keeps(p) /\ proc'[p].sel = proc[p].sel

\* Requests that have nothing to do with snapshots, and those that are over.
Outside == Pcs \ (Importing \cup {"r_drop", "r_prof", "r_rows", "r_bind", "n_row"})

Ends(p) == Frame /\ Stopped(p)

Aside(p) ==
  /\ proc[p].pc \in Outside /\ proc'[p].pc \in Outside
  /\ proc'[p].sel \in {proc[p].sel, {}}
  /\ db'.src["live"] = db.src["live"] /\ db'.snap = db.snap /\ db'.bind = db.bind
  /\ \A i \in Ids : db.prof[i] # "none" => db'.prof[i] # "none"
  /\ table' = table /\ torn' = torn
  /\ cfg' = cfg \/ ((db.src["live"] \/ cfg.on) /\ cfg'.version > 0)

\* failSnapshotIfPresent.
Fails(p) ==
  /\ proc[p].pc \in Building /\ Stopped(p)
  /\ SourceKept /\ db'.prof = db.prof /\ db'.bind = db.bind /\ torn' = torn
  /\ \/ db'.snap = db.snap
     \/ /\ db.snap[proc[p].id].status # "none"
        /\ db'.snap = [db.snap EXCEPT ![proc[p].id].status = "failed"]
  /\ table' \in {table, table \ {proc[p].id}}

\* An import or bind gets further without writing a row.
Proceeds(p) ==
  /\ Frame
  /\ \/ /\ proc[p].pc \in Early /\ proc'[p].pc \in Early
        /\ Keeps(p) /\ proc'[p].sel = proc[p].sel
        /\ proc'[p].pc = "i_open" => proc[p].obj = "file"
     \/ Passes(p, "i_rows", "i_schema")
     \/ Passes(p, "i_schema", "i_check")
     \/ Passes(p, "b_fetch", "i_profile") /\ cfg.on

Begins(p) ==
  /\ proc[p].pc = "i_begin" /\ Keeps(p) /\ proc'[p].sel = proc[p].sel
  /\ proc'[p].pc = IF proc[p].obj = "file" THEN "i_table" ELSE "b_fetch"
  /\ SourceKept /\ db'.prof = db.prof /\ db'.bind = db.bind /\ torn' = torn
  /\ db'.snap = [db.snap EXCEPT ![proc[p].id] = [obj |-> proc[p].obj, status |-> "creating"]]
  /\ table' = table

Tables(p) ==
  /\ Passes(p, "i_table", "i_rows")
  /\ SourceKept /\ db' = db /\ torn' = torn
  /\ table' = table \cup {proc[p].id}

Readies(p) ==
  /\ Passes(p, "i_check", "i_profile") \/ Passes(p, "b_ready", "i_bind")
  /\ SourceKept /\ db'.prof = db.prof /\ db'.bind = db.bind /\ torn' = torn /\ table' = table
  /\ IF db.snap[proc[p].id].status = "none" THEN db'.snap = db.snap
     ELSE db'.snap = [db.snap EXCEPT ![proc[p].id].status = "ready"]

Profiles(p) ==
  /\ Passes(p, "i_profile", IF proc[p].obj = "file" THEN "i_bind" ELSE "b_ready")
  /\ db.snap[proc[p].id].status # "none" /\ db.src[proc[p].obj]
  /\ SourceKept /\ db'.snap = db.snap /\ db'.bind = db.bind /\ torn' = torn /\ table' = table
  /\ db'.prof = [db.prof EXCEPT ![proc[p].id] = "profiled"]

Binds(p) ==
  /\ Passes(p, "i_bind", "i_list")
  /\ db.src[proc[p].obj]
  /\ SourceKept /\ db'.snap = db.snap /\ db'.prof = db.prof /\ torn' = torn /\ table' = table
  /\ db'.bind = [db.bind EXCEPT ![proc[p].obj] = proc[p].id]

Lists(p) ==
  /\ proc[p].pc = "i_list" /\ proc'[p].pc = "i_clean" /\ Keeps(p)
  /\ proc'[p].sel \in {{}, Rows(proc[p].obj) \ {proc[p].id}}
  /\ Frame

Cleans(p, i) ==
  /\ proc[p].pc = "i_clean" /\ proc'[p].pc = "i_clean" /\ Keeps(p)
  /\ i \in proc[p].sel /\ proc'[p].sel = proc[p].sel \ {i}
  /\ SourceKept /\ db'.bind = db.bind /\ torn' = torn
  /\ \/ db'.snap = db.snap /\ table' \in {table, table \ {i}}
     \/ db'.snap = [db.snap EXCEPT ![i] = NoSnap] /\ table' = table \ {i}
  /\ db'.prof \in {db.prof, [db.prof EXCEPT ![i] = "none"]}

RemoveLists(p) ==
  /\ proc[p].pc = "r_list" /\ Keeps(p) /\ proc'[p].sel = Rows(proc[p].obj)
  /\ proc'[p].pc = IF proc[p].obj = "file" THEN "r_drop" ELSE "r_prof"
  /\ SourceKept /\ db' = db /\ table' = table
  /\ torn' = torn \cup {proc[p].obj}

RemoveTable(p, i) ==
  /\ Passes(p, "r_drop", "r_drop") /\ lock = NoProc /\ i \in proc[p].sel
  /\ SourceKept /\ db' = db /\ torn' = torn
  /\ table' = table \ {i}

RemovePasses(p) ==
  /\ \/ /\ Passes(p, "r_drop", "r_prof") /\ proc[p].sel \cap table = {}
        /\ proc[p].sel = {} \/ lock = NoProc
     \/ Passes(p, "r_rows", "r_bind")
  /\ Frame

RemoveProfs(p) ==
  /\ proc[p].pc = "r_prof" /\ (Passes(p, "r_prof", "r_rows") \/ Stopped(p))
  /\ SourceKept /\ db'.snap = db.snap /\ db'.bind = db.bind /\ torn' = torn /\ table' = table
  /\ \A i \in Ids \ proc[p].sel : db'.prof[i] = db.prof[i]

RemoveSnapshot(p, i) ==
  /\ proc[p].pc = "r_rows" /\ proc'[p].pc = "r_rows" /\ Keeps(p)
  /\ i \in proc[p].sel /\ proc'[p].sel = proc[p].sel \ {i}
  /\ SourceKept /\ db'.bind = db.bind /\ torn' = torn /\ table' = table
  /\ db'.snap = [db.snap EXCEPT ![i] = NoSnap]
  /\ db'.prof = [db.prof EXCEPT ![i] = "none"]

Unbinds(p) ==
  /\ proc[p].pc = "r_bind" /\ Stopped(p)
  /\ SourceKept /\ db'.snap = db.snap /\ db'.prof = db.prof /\ table' = table
  /\ \/ torn' = torn
     \/ /\ torn' = torn \ {proc[p].obj}
        /\ \A q \in Procs \ {p} : proc[q].pc # "idle" => proc[q].obj # proc[p].obj
  /\ db'.bind = [db.bind EXCEPT ![proc[p].obj] = 0]

Deletes(p) ==
  /\ proc[p].pc = "d_row" /\ Stopped(p)
  /\ ~db'.src["live"] /\ cfg'.version = cfg.version /\ ~cfg'.on
  /\ table' = table /\ torn' = torn
  /\ db'.bind = [db.bind EXCEPT !["live"] = 0]
  /\ db'.snap = [i \in Ids |-> IF i \in Rows("live") THEN NoSnap ELSE db.snap[i]]
  /\ db'.prof = [i \in Ids |-> IF i \in Rows("live") THEN "none" ELSE db.prof[i]]

CreatesSource(p) ==
  /\ Passes(p, "n_row", "n_cfg")
  /\ cfg' = cfg /\ db'.snap = db.snap /\ db'.prof = db.prof /\ db'.bind = db.bind
  /\ table' = table /\ torn' = torn

\* A request arrives.
Enters(p) ==
  /\ proc[p].pc = "idle" /\ left.ops > 0 /\ left'.ops = left.ops - 1
  /\ \A q \in Procs \ {p} : proc'[q] = proc[q]
  /\ db' = db /\ table' = table /\ cfg' = cfg /\ torn' = torn /\ lock' = lock /\ report' = report
  /\ proc'[p].pc \in {"u_put", "i_lock", "r_check", "d_list", "n_row", "e_read", "t_run",
                      "c_look", "l_read", "q_read", "s_row"}
  /\ proc'[p].sel = {}
  /\ proc'[p].pc \in {"u_put", "i_lock"} => proc'[p].id = NextId
  /\ proc'[p].pc = "n_row" => /\ ~db.src["live"] /\ cfg.version = 0
                              /\ \A q \in Procs : proc[q].pc # "n_row"
  /\ proc'[p].pc = "c_look" => proc'[p].id \in Ids
  /\ proc'[p].pc = "s_row" <=> proc'[p].tag = "report"
  /\ proc'[p].tag \in {"receipt", "report"} => \A q \in Procs : proc[q].tag # proc'[p].tag

-----------------------------------------------------------------------------
(* What the operators of the model do to the state.                        *)

LEMMA ProcFields ==
    ASSUME StateType, NEW p \in Procs
    PROVE  /\ proc[p] \in Requests /\ proc[p].pc \in Pcs /\ proc[p].obj \in Objs
           /\ proc[p].id \in Nat /\ proc[p].sel \in SUBSET Ids
  <1>1. proc[p] \in Requests
      BY DEF StateType
  <1> QED  BY <1>1 DEF Requests

LEMMA DbFields ==
    ASSUME db \in SourceRows
    PROVE  /\ db.src \in [Objs -> BOOLEAN]
           /\ db.snap \in [Ids -> [obj : Objs, status : {"none", "creating", "ready", "failed"}]]
           /\ db.prof \in [Ids -> {"none", "profiled", "confirmed"}]
           /\ db.conf \in [Ids -> [receipt : Nat, plain : Nat]]
           /\ db.asset \in SUBSET Nat
           /\ db.bind \in [Objs -> Ids \cup {0}]
  BY DEF SourceRows

\* Go: a request gets further.
Stays(p, pc) ==
  /\ proc' \in [Procs -> Requests] /\ proc'[p].pc = pc /\ Keeps(p)
  /\ proc'[p].sel = proc[p].sel /\ proc'[p].tag = proc[p].tag
  /\ \A q \in Procs \ {p} : proc'[q] = proc[q]

LEMMA GoEffect ==
    ASSUME StateType, NEW p \in Procs, NEW pc \in Pcs, Go(p, pc)
    PROVE  Stays(p, pc)
  <1>1. proc \in [Procs -> Requests] /\ proc[p] \in Requests
      BY DEF StateType
  <1>2. proc' = [proc EXCEPT ![p] = [proc[p] EXCEPT !.pc = pc]]
      BY <1>1 DEF Go
  <1> DEFINE r == [proc[p] EXCEPT !.pc = pc]
  <1>3. /\ r \in Requests /\ r.pc = pc /\ r.obj = proc[p].obj /\ r.id = proc[p].id
        /\ r.sel = proc[p].sel /\ r.tag = proc[p].tag
      BY <1>1 DEF Requests
  <1> HIDE DEF r
  <1> QED  BY <1>1, <1>2, <1>3 DEF Stays, Keeps, r

\* End: a request is answered.
Quits(p) ==
  /\ proc' \in [Procs -> Requests] /\ Stopped(p) /\ proc'[p].tag = "none"
  /\ \A q \in Procs \ {p} : proc'[q] = proc[q]
  /\ lock' = Freed(p)

Answers == {"none", "ok", "failed", "needs_choice", "partial", "refused"}

LEMMA EndEffect ==
    ASSUME StateType, NEW p \in Procs, NEW res \in Answers, End(p, res)
    PROVE  Quits(p)
  <1> DEFINE r == [Idle EXCEPT !.res = res]
  <1>1. r \in Requests /\ r.pc = "idle" /\ r.sel = {} /\ r.tag = "none"
      BY DEF Idle, Requests, Pcs, Objs, Answers
  <1>2. proc' = [proc EXCEPT ![p] = r] /\ lock' = Freed(p) /\ proc \in [Procs -> Requests]
      BY DEF End, Freed, StateType
  <1> HIDE DEF r
  <1> QED  BY <1>1, <1>2 DEF Quits, Stopped

LEMMA SpendEffect ==
    ASSUME StateType, NEW k \in Nat, Spend(k)
    PROVE  left' \in [faults : Nat, ops : 0..MaxOps] /\ left'.ops = left.ops
  BY DEF StateType, Spend

\* The steps of one request that concern neither a receipt nor the report.
Quiet(p) == Moves(p) /\ StateType' /\ NoReceipt(p) /\ NoReport(p)

LeftType == left' \in [faults : Nat, ops : 0..MaxOps] /\ left'.ops = left.ops
FileType == file' \in [object : BOOLEAN, row : BOOLEAN, attached : BOOLEAN]
CfgType == cfg' \in [on : BOOLEAN, allow : BOOLEAN, version : Nat, tested : Nat]

\* A request that is answered and changes no row.
LEMMA EndStep ==
    ASSUME StateType, NEW p \in Procs, Quits(p), LeftType, FileType,
           UNCHANGED <<db, table, cfg, report, torn>>
    PROVE  Quiet(p) /\ Ends(p)
  <1>1. Moves(p)
      BY DEF Quits, Stopped, Moves, LeftType
  <1>2. lock' \in Procs \cup {NoProc}
      BY DEF Quits, Freed, StateType
  <1>3. StateType'
      BY <1>2 DEF StateType, Quits, LeftType, FileType
  <1>4. NoReceipt(p) /\ NoReport(p) /\ Ends(p)
      BY DEF NoReceipt, ConfKept, NoReport, Ends, Frame, SourceKept, Quits, Stopped, Saving
  <1> QED  BY <1>1, <1>3, <1>4 DEF Quiet

\* A request that is answered and changes rows of its own.
LEMMA EndRowsStep ==
    ASSUME StateType, NEW p \in Procs, Quits(p), LeftType, FileType, CfgType,
           db' \in SourceRows, ConfKept, table' \subseteq Ids, torn' \subseteq Objs, report' = report
    PROVE  Quiet(p)
  <1>1. Moves(p)
      BY DEF Quits, Stopped, Moves, LeftType
  <1>2. lock' \in Procs \cup {NoProc}
      BY DEF Quits, Freed, StateType
  <1>3. StateType'
      BY <1>2 DEF StateType, Quits, LeftType, FileType, CfgType
  <1>4. NoReceipt(p) /\ NoReport(p)
      BY DEF NoReceipt, NoReport, Quits, Stopped, Saving
  <1> QED  BY <1>1, <1>3, <1>4 DEF Quiet

\* A request that gets further.
LEMMA GoStep ==
    ASSUME StateType, NEW p \in Procs, NEW pc \in Pcs \ ({"c_look", "c_row"} \cup Saving),
           Stays(p, pc), lock' = lock, proc[p].pc \in Critical <=> pc \in Critical,
           LeftType, FileType, CfgType,
           db' \in SourceRows, ConfKept, table' \subseteq Ids, torn' \subseteq Objs, report' = report
    PROVE  Quiet(p)
  <1>1. Moves(p)
      BY DEF Stays, Moves, LeftType
  <1>2. StateType'
      BY DEF StateType, Stays, LeftType, FileType, CfgType
  <1>3. NoReceipt(p) /\ NoReport(p)
      BY DEF NoReceipt, NoReport, Stays
  <1> QED  BY <1>1, <1>2, <1>3 DEF Quiet

LEMMA Unchanged ==
    ASSUME StateType
    PROVE  /\ left' = left => LeftType
           /\ file' = file => FileType
           /\ cfg' = cfg => CfgType
           /\ db' = db => db' \in SourceRows /\ ConfKept
           /\ table' = table => table' \subseteq Ids
           /\ torn' = torn => torn' \subseteq Objs
  BY DEF StateType, LeftType, FileType, CfgType, ConfKept

LEMMA Spent ==
    ASSUME StateType, NEW k \in Nat, Spend(k)
    PROVE  LeftType
  BY SpendEffect DEF LeftType

\* The rows after the updates the actions make.
LEMMA StatusEffect ==
    ASSUME db \in SourceRows, NEW i \in Ids, NEW s \in {"creating", "ready", "failed"}, NEW d,
           d = [db EXCEPT !.snap[i].status = s]
    PROVE  /\ d \in SourceRows /\ d.src = db.src /\ d.prof = db.prof /\ d.conf = db.conf
           /\ d.bind = db.bind /\ d.snap = [db.snap EXCEPT ![i].status = s]
  <1>1. db.snap \in [Ids -> [obj : Objs, status : {"none", "creating", "ready", "failed"}]]
      BY DbFields
  <1>2. [db.snap EXCEPT ![i].status = s]
            \in [Ids -> [obj : Objs, status : {"none", "creating", "ready", "failed"}]]
      BY <1>1
  <1>3. d.src = db.src /\ d.prof = db.prof /\ d.conf = db.conf
           /\ d.bind = db.bind /\ d.snap = [db.snap EXCEPT ![i].status = s]
      BY DEF SourceRows
  <1>4. d \in SourceRows
      BY <1>2, <1>3 DEF SourceRows
  <1> QED  BY <1>3, <1>4

LEMMA DroppedEffect ==
    ASSUME db \in SourceRows, NEW i \in Ids
    PROVE  /\ Dropped(i) \in SourceRows /\ Dropped(i).src = db.src
           /\ Dropped(i).snap = [db.snap EXCEPT ![i] = NoSnap]
           /\ Dropped(i).prof = [db.prof EXCEPT ![i] = "none"]
           /\ Dropped(i).conf = [db.conf EXCEPT ![i] = NoConf]
           /\ Dropped(i).bind = db.bind
  <1>1. /\ Dropped(i).src = db.src
        /\ Dropped(i).snap = [db.snap EXCEPT ![i] = NoSnap]
        /\ Dropped(i).prof = [db.prof EXCEPT ![i] = "none"]
        /\ Dropped(i).conf = [db.conf EXCEPT ![i] = NoConf]
        /\ Dropped(i).bind = db.bind
      BY DEF SourceRows, Dropped
  <1>2. NoSnap \in [obj : Objs, status : {"none", "creating", "ready", "failed"}]
      BY DEF NoSnap, Objs
  <1>3. NoConf \in [receipt : Nat, plain : Nat]
      BY DEF NoConf
  <1>4. /\ [db.snap EXCEPT ![i] = NoSnap]
             \in [Ids -> [obj : Objs, status : {"none", "creating", "ready", "failed"}]]
        /\ [db.prof EXCEPT ![i] = "none"] \in [Ids -> {"none", "profiled", "confirmed"}]
        /\ [db.conf EXCEPT ![i] = NoConf] \in [Ids -> [receipt : Nat, plain : Nat]]
      BY <1>2, <1>3, DbFields
  <1>5. Dropped(i) \in SourceRows
      BY <1>1, <1>4 DEF SourceRows, Dropped
  <1> QED  BY <1>1, <1>5

LEMMA IdInRange ==
    ASSUME StateType, IdsDistinct, NEW p \in Procs, proc[p].pc \in Importing
    PROVE  proc[p].id \in Ids /\ proc[p].id \in Nat
  <1>1. Issued \in 0 .. MaxOps
      BY ConstantsAssumption DEF Issued, StateType
  <1> QED  BY <1>1, ConstantsAssumption DEF IdsDistinct, Ids

\* failSnapshotIfPresent.
LEMMA FailEffect ==
    ASSUME StateType, IdsDistinct, NEW p \in Procs, proc[p].pc \in Building, NEW k \in Nat,
           FailSnapshot(p, k), table' \in {table, table \ {proc[p].id}},
           UNCHANGED <<cfg, file, report, torn>>
    PROVE  Quiet(p) /\ Fails(p)
  <1>0. proc[p].id \in Ids /\ db \in SourceRows
      BY IdInRange DEF Importing, StateType
  <1>1. Quits(p)
      BY EndEffect DEF FailSnapshot, Answers
  <1>2. LeftType
      BY Spent DEF FailSnapshot
  <1>3. \/ db' = db
        \/ /\ db.snap[proc[p].id].status # "none"
           /\ db' = [db EXCEPT !.snap[proc[p].id].status = "failed"]
      BY DEF FailSnapshot
  <1>4. /\ db' \in SourceRows /\ ConfKept
        /\ db'.src = db.src /\ db'.prof = db.prof /\ db'.bind = db.bind
        /\ \/ db'.snap = db.snap
           \/ /\ db.snap[proc[p].id].status # "none"
              /\ db'.snap = [db.snap EXCEPT ![proc[p].id].status = "failed"]
    <2>1. CASE db' = db
        BY <1>0, <2>1 DEF ConfKept
    <2>2. CASE db.snap[proc[p].id].status # "none" /\ db' = [db EXCEPT !.snap[proc[p].id].status = "failed"]
      <3>1. /\ db' \in SourceRows /\ db'.src = db.src /\ db'.prof = db.prof /\ db'.conf = db.conf
            /\ db'.bind = db.bind /\ db'.snap = [db.snap EXCEPT ![proc[p].id].status = "failed"]
          BY <1>0, <2>2, StatusEffect
      <3> QED  BY <2>2, <3>1 DEF ConfKept
    <2> QED  BY <1>3, <2>1, <2>2
  <1>5. Quiet(p)
    <2>1. FileType /\ CfgType /\ torn' \subseteq Objs /\ table' \subseteq Ids
        BY Unchanged DEF StateType
    <2> QED  BY <1>1, <1>2, <1>4, <2>1, EndRowsStep
  <1>6. Fails(p)
      BY <1>1, <1>4 DEF Fails, SourceKept, Quits
  <1> QED  BY <1>5, <1>6

-----------------------------------------------------------------------------
(* Every action is one of these steps.                                     *)

LEMMA UploadPutStep ==
    ASSUME StateType, NEW p \in Procs, UploadPut(p)
    PROVE  Quiet(p) /\ (Proceeds(p) \/ Ends(p))
  <1>0. proc[p].pc = "u_put" /\ UNCHANGED <<db, table, cfg, report, torn>>
      BY DEF UploadPut, At
  <1>1. CASE file' = [file EXCEPT !.object = TRUE] /\ Go(p, "u_row") /\ UNCHANGED <<left, lock>>
    <2>1. Stays(p, "u_row")
        BY <1>1, GoEffect DEF Pcs
    <2>2. LeftType /\ CfgType /\ table' \subseteq Ids /\ torn' \subseteq Objs
        BY <1>0, <1>1, Unchanged
    <2>3. FileType
        BY <1>1 DEF FileType, StateType
    <2>4. db' \in SourceRows /\ ConfKept
        BY <1>0, <1>1, Unchanged
    <2>5. Quiet(p)
        BY <1>0, <1>1, <2>1, <2>2, <2>3, <2>4, GoStep DEF Pcs, Saving, Critical
    <2>6. Proceeds(p)
        BY <1>0, <1>1, <2>1 DEF Proceeds, Frame, SourceKept, Stays, Early, Keeps, Passes
    <2> QED  BY <2>5, <2>6
  <1>2. CASE Spend(1) /\ End(p, "failed") /\ UNCHANGED file
    <2>1. Quits(p)
        BY <1>2, EndEffect DEF Answers
    <2>2. LeftType
        BY <1>2, Spent
    <2>3. FileType
        BY <1>0, <1>2, Unchanged
    <2> QED  BY <1>0, <1>2, <2>1, <2>2, <2>3, EndStep
  <1> QED  BY <1>1, <1>2 DEF UploadPut

LEMMA UploadRowStep ==
    ASSUME StateType, NEW p \in Procs, UploadRow(p)
    PROVE  Quiet(p) /\ (Proceeds(p) \/ Ends(p))
  <1>0. proc[p].pc = "u_row" /\ UNCHANGED <<db, table, cfg, report, torn>>
      BY DEF UploadRow, At
  <1>1. CASE file' = [file EXCEPT !.row = TRUE] /\ Go(p, "u_attach") /\ UNCHANGED <<left, lock>>
    <2>1. Stays(p, "u_attach")
        BY <1>1, GoEffect DEF Pcs
    <2>2. LeftType /\ CfgType /\ table' \subseteq Ids /\ torn' \subseteq Objs
        BY <1>0, <1>1, Unchanged
    <2>3. FileType
        BY <1>1 DEF FileType, StateType
    <2>4. db' \in SourceRows /\ ConfKept
        BY <1>0, <1>1, Unchanged
    <2>5. Quiet(p)
        BY <1>0, <1>1, <2>1, <2>2, <2>3, <2>4, GoStep DEF Pcs, Saving, Critical
    <2>6. Proceeds(p)
        BY <1>0, <1>1, <2>1 DEF Proceeds, Frame, SourceKept, Stays, Early, Keeps, Passes
    <2> QED  BY <2>5, <2>6
  <1>2. CASE Spend(1) /\ file' = [file EXCEPT !.object = FALSE] /\ End(p, "failed")
    <2>1. Quits(p)
        BY <1>2, EndEffect DEF Answers
    <2>2. LeftType
        BY <1>2, Spent
    <2>3. FileType
        BY <1>2 DEF FileType, StateType
    <2> QED  BY <1>0, <1>2, <2>1, <2>2, <2>3, EndStep
  <1>3. CASE Spend(2) /\ UNCHANGED file /\ End(p, "failed")
    <2>1. Quits(p)
        BY <1>3, EndEffect DEF Answers
    <2>2. LeftType
        BY <1>3, Spent
    <2>3. FileType
        BY <1>3 DEF FileType, StateType
    <2> QED  BY <1>0, <1>3, <2>1, <2>2, <2>3, EndStep
  <1> QED  BY <1>1, <1>2, <1>3 DEF UploadRow

LEMMA UploadAttachStep ==
    ASSUME StateType, NEW p \in Procs, UploadAttach(p)
    PROVE  Quiet(p) /\ (Proceeds(p) \/ Ends(p))
  <1>0. proc[p].pc = "u_attach" /\ UNCHANGED <<db, table, cfg, report, torn>>
      BY DEF UploadAttach, At
  <1>1. CASE file' = [file EXCEPT !.attached = TRUE] /\ Go(p, "u_source") /\ UNCHANGED <<left, lock>>
    <2>1. Stays(p, "u_source")
        BY <1>1, GoEffect DEF Pcs
    <2>2. LeftType /\ CfgType /\ table' \subseteq Ids /\ torn' \subseteq Objs
        BY <1>0, <1>1, Unchanged
    <2>3. FileType
        BY <1>1 DEF FileType, StateType
    <2>4. db' \in SourceRows /\ ConfKept
        BY <1>0, <1>1, Unchanged
    <2>5. Quiet(p)
        BY <1>0, <1>1, <2>1, <2>2, <2>3, <2>4, GoStep DEF Pcs, Saving, Critical
    <2>6. Proceeds(p)
        BY <1>0, <1>1, <2>1 DEF Proceeds, Frame, SourceKept, Stays, Early, Keeps, Passes
    <2> QED  BY <2>5, <2>6
  <1>2. CASE /\ \E keepObject, keepRow \in BOOLEAN :
                 /\ Spend(1 + (IF keepObject THEN 1 ELSE 0) + (IF keepRow THEN 1 ELSE 0))
                 /\ file' = [file EXCEPT !.object = keepObject, !.row = keepRow]
            /\ End(p, "failed")
    <2>1. Quits(p)
        BY <1>2, EndEffect DEF Answers
    <2>2. LeftType
        <3>1. PICK k \in 1 .. 3 : Spend(k)
            BY <1>2
        <3> QED  BY <3>1, Spent
    <2>3. FileType
        BY <1>2 DEF FileType, StateType
    <2> QED  BY <1>0, <1>2, <2>1, <2>2, <2>3, EndStep
  <1> QED  BY <1>1, <1>2 DEF UploadAttach

LEMMA EnsureFileSourceStep ==
    ASSUME StateType, NEW p \in Procs, EnsureFileSource(p)
    PROVE  Quiet(p) /\ (Proceeds(p) \/ Ends(p))
  <1>0. proc[p].pc = "u_source" /\ UNCHANGED <<table, cfg, file, report, torn>>
      BY DEF EnsureFileSource, At
  <1>1. CASE /\ db' = [db EXCEPT !.src["file"] = TRUE]
             /\ Go(p, "i_lock") /\ UNCHANGED <<left, lock>>
    <2>1. Stays(p, "i_lock")
        BY <1>1, GoEffect DEF Pcs
    <2>2. LeftType /\ CfgType /\ FileType /\ table' \subseteq Ids /\ torn' \subseteq Objs
        BY <1>0, <1>1, Unchanged
    <2>3. /\ db' \in SourceRows /\ db'.conf = db.conf /\ db'.src["live"] = db.src["live"]
          /\ db'.snap = db.snap /\ db'.prof = db.prof /\ db'.bind = db.bind
        BY <1>1 DEF StateType, SourceRows, Objs
    <2>4. Quiet(p)
        BY <1>0, <1>1, <2>1, <2>2, <2>3, GoStep DEF Pcs, Saving, Critical, ConfKept
    <2>5. Proceeds(p)
        BY <1>0, <2>1, <2>3 DEF Proceeds, Frame, SourceKept, Stays, Early
    <2> QED  BY <2>4, <2>5
  <1>2. CASE Spend(1) /\ End(p, "failed") /\ UNCHANGED db
    <2>1. Quits(p)
        BY <1>2, EndEffect DEF Answers
    <2>2. LeftType
        BY <1>2, Spent
    <2>3. FileType
        BY <1>0, <1>2, Unchanged
    <2> QED  BY <1>0, <1>2, <2>1, <2>2, <2>3, EndStep
  <1> QED  BY <1>1, <1>2 DEF EnsureFileSource

LEMMA LockUploadStep ==
    ASSUME StateType, NEW p \in Procs, LockUpload(p)
    PROVE  Quiet(p) /\ Proceeds(p)
  <1> DEFINE to == IF proc[p].obj = "file" THEN "i_open" ELSE "i_begin"
  <1>1. /\ proc[p].pc = "i_lock" /\ UNCHANGED <<db, table, cfg, file, report, torn, left>>
        /\ Go(p, to) /\ lock = NoProc /\ lock' = p
      BY DEF LockUpload, At
  <1>2. to \in {"i_open", "i_begin"} /\ (to = "i_open" => proc[p].obj = "file")
      OBVIOUS
  <1> HIDE DEF to
  <1>3. Stays(p, to)
      BY <1>1, <1>2, GoEffect DEF Pcs
  <1>4. Moves(p)
      BY <1>1, <1>2, <1>3 DEF Moves, Stays, Critical
  <1>5. StateType'
      BY <1>1, <1>3 DEF StateType, Stays
  <1>6. NoReceipt(p) /\ NoReport(p)
      BY <1>1, <1>2, <1>3 DEF NoReceipt, ConfKept, NoReport, Stays, Saving
  <1>7. Proceeds(p)
      BY <1>1, <1>2, <1>3 DEF Proceeds, Frame, SourceKept, Stays, Early
  <1> QED  BY <1>4, <1>5, <1>6, <1>7 DEF Quiet

LEMMA OpenFileStep ==
    ASSUME StateType, NEW p \in Procs, OpenFile(p)
    PROVE  Quiet(p) /\ (Proceeds(p) \/ Ends(p))
  <1>0. proc[p].pc = "i_open" /\ UNCHANGED <<db, table, cfg, file, report, torn>>
      BY DEF OpenFile, At
  <1>1. CASE Go(p, "i_begin") /\ UNCHANGED <<left, lock>>
    <2>1. Stays(p, "i_begin")
        BY <1>1, GoEffect DEF Pcs
    <2>2. LeftType /\ CfgType /\ table' \subseteq Ids /\ torn' \subseteq Objs
        BY <1>0, <1>1, Unchanged
    <2>3. FileType
        BY <1>0, <1>1, Unchanged
    <2>4. db' \in SourceRows /\ ConfKept
        BY <1>0, <1>1, Unchanged
    <2>5. Quiet(p)
        BY <1>0, <1>1, <2>1, <2>2, <2>3, <2>4, GoStep DEF Pcs, Saving, Critical
    <2>6. Proceeds(p)
        BY <1>0, <1>1, <2>1 DEF Proceeds, Frame, SourceKept, Stays, Early, Keeps, Passes
    <2> QED  BY <2>5, <2>6
  <1>2. CASE End(p, "needs_choice") /\ UNCHANGED left
    <2>1. Quits(p)
        BY <1>2, EndEffect DEF Answers
    <2>2. LeftType
        BY <1>2, Unchanged
    <2>3. FileType
        BY <1>0, <1>2, Unchanged
    <2> QED  BY <1>0, <1>2, <2>1, <2>2, <2>3, EndStep
  <1>3. CASE Spend(1) /\ End(p, "failed")
    <2>1. Quits(p)
        BY <1>3, EndEffect DEF Answers
    <2>2. LeftType
        BY <1>3, Spent
    <2>3. FileType
        BY <1>0, <1>3, Unchanged
    <2> QED  BY <1>0, <1>3, <2>1, <2>2, <2>3, EndStep
  <1> QED  BY <1>1, <1>2, <1>3 DEF OpenFile

Begun(p) == [db EXCEPT !.snap[proc[p].id] = [obj |-> proc[p].obj, status |-> "creating"]]

LEMMA BegunRow ==
    ASSUME db \in SourceRows, NEW p \in Procs, proc[p].id \in Ids, proc[p].obj \in Objs
    PROVE  /\ Begun(p) \in SourceRows /\ Begun(p).src = db.src /\ Begun(p).prof = db.prof
           /\ Begun(p).conf = db.conf /\ Begun(p).bind = db.bind
           /\ Begun(p).snap = [db.snap EXCEPT ![proc[p].id] =
                                 [obj |-> proc[p].obj, status |-> "creating"]]
  <1> DEFINE r == [obj |-> proc[p].obj, status |-> "creating"]
  <1>1. r \in [obj : Objs, status : {"none", "creating", "ready", "failed"}]
      OBVIOUS
  <1>2. Begun(p) = [db EXCEPT !.snap[proc[p].id] = r]
      BY DEF Begun
  <1> HIDE DEF r
  <1>3. /\ Begun(p).src = db.src /\ Begun(p).prof = db.prof
        /\ Begun(p).conf = db.conf /\ Begun(p).bind = db.bind
        /\ Begun(p).snap = [db.snap EXCEPT ![proc[p].id] = r]
      BY <1>2 DEF SourceRows
  <1>4. [db.snap EXCEPT ![proc[p].id] = r]
          \in [Ids -> [obj : Objs, status : {"none", "creating", "ready", "failed"}]]
      BY <1>1, DbFields
  <1>5. Begun(p) \in SourceRows
      BY <1>2, <1>3, <1>4 DEF SourceRows
  <1> QED  BY <1>3, <1>5 DEF r

LEMMA BeginSnapshotImportStep ==
    ASSUME StateType, IdsDistinct, NEW p \in Procs, BeginSnapshotImport(p)
    PROVE  Quiet(p) /\ (Begins(p) \/ Ends(p))
  <1>0. proc[p].pc = "i_begin" /\ UNCHANGED <<table, cfg, file, report, torn>>
      BY DEF BeginSnapshotImport, At
  <1>id. proc[p].id \in Ids /\ proc[p].obj \in Objs /\ db \in SourceRows
      BY <1>0, IdInRange, ProcFields DEF Importing, Early, Building, Binding, StateType
  <1> DEFINE to == IF proc[p].obj = "file" THEN "i_table" ELSE "b_fetch"
  <1>to. to \in {"i_table", "b_fetch"}
      OBVIOUS
  <1> HIDE DEF to
  <1>1. CASE /\ db' = [db EXCEPT !.snap[proc[p].id] = [obj |-> proc[p].obj, status |-> "creating"]]
             /\ Go(p, to) /\ UNCHANGED <<left, lock>>
    <2>1. Stays(p, to)
        BY <1>0, <1>to, <1>1, GoEffect DEF Pcs
    <2>2. LeftType /\ CfgType /\ FileType /\ torn' \subseteq Objs
        BY <1>0, <1>to, <1>1, Unchanged
    <2>3. /\ db' \in SourceRows /\ db'.conf = db.conf /\ db'.src = db.src
          /\ db'.prof = db.prof /\ db'.bind = db.bind
          /\ db'.snap = [db.snap EXCEPT ![proc[p].id] = [obj |-> proc[p].obj, status |-> "creating"]]
        BY <1>1, <1>id, BegunRow DEF Begun
    <2>4. table' \subseteq Ids
        BY <1>0, <1>to, <1>1, Unchanged
    <2>5. Quiet(p)
        BY <1>0, <1>to, <1>1, <2>1, <2>2, <2>3, <2>4, GoStep DEF Pcs, Saving, Critical, ConfKept
    <2>6. Begins(p)
        BY <1>0, <1>to, <1>1, <2>1, <2>3 DEF Begins, SourceKept, Stays, Keeps, Objs, to
    <2> QED  BY <2>5, <2>6
  <1>2. CASE /\ (IF db.src[proc[p].obj] THEN Spend(1) ELSE UNCHANGED left)
             /\ End(p, "failed") /\ UNCHANGED db
    <2>1. Quits(p)
        BY <1>2, EndEffect DEF Answers
    <2>2. LeftType
        BY <1>2, Spent, Unchanged
    <2>3. FileType
        BY <1>0, <1>2, Unchanged
    <2> QED  BY <1>0, <1>2, <2>1, <2>2, <2>3, EndStep
  <1> QED  BY <1>1, <1>2 DEF BeginSnapshotImport, to

LEMMA CreateTableStep ==
    ASSUME StateType, IdsDistinct, NEW p \in Procs, CreateTable(p)
    PROVE  Quiet(p) /\ (Tables(p) \/ Fails(p))
  <1>0. proc[p].pc = "i_table" /\ UNCHANGED <<cfg, file, report, torn>>
      BY DEF CreateTable, At
  <1>id. proc[p].id \in Ids /\ proc[p].obj \in Objs /\ db \in SourceRows
      BY <1>0, IdInRange, ProcFields DEF Importing, Early, Building, Binding, StateType
  <1>1. CASE /\ table' = table \cup {proc[p].id}
             /\ Go(p, "i_rows") /\ UNCHANGED <<db, left, lock>>
    <2>1. Stays(p, "i_rows")
        BY <1>0, <1>1, GoEffect DEF Pcs
    <2>2. LeftType /\ CfgType /\ FileType /\ torn' \subseteq Objs
        BY <1>0, <1>1, Unchanged
    <2>3. /\ db' \in SourceRows /\ db'.conf = db.conf /\ db'.src = db.src
          /\ db' = db
        BY <1>1, <1>id
    <2>4. table' \subseteq Ids
        BY <1>1, <1>id DEF StateType
    <2>5. Quiet(p)
        BY <1>0, <1>1, <2>1, <2>2, <2>3, <2>4, GoStep DEF Pcs, Saving, Critical, ConfKept
    <2>6. Tables(p)
        BY <1>0, <1>1, <2>1, <2>3 DEF Tables, SourceKept, Stays, Passes
    <2> QED  BY <2>5, <2>6
  <1>2. CASE FailSnapshot(p, 0) /\ UNCHANGED table
      BY <1>0, <1>2, FailEffect DEF Building
  <1> QED  BY <1>1, <1>2 DEF CreateTable

LEMMA ImportFileRawAsStep ==
    ASSUME StateType, IdsDistinct, NEW p \in Procs, ImportFileRawAs(p)
    PROVE  Quiet(p) /\ (Proceeds(p) \/ Fails(p))
  <1>0. proc[p].pc = "i_rows" /\ UNCHANGED <<cfg, file, report, torn>>
      BY DEF ImportFileRawAs, At
  <1>id. proc[p].id \in Ids /\ proc[p].obj \in Objs /\ db \in SourceRows
      BY <1>0, IdInRange, ProcFields DEF Importing, Early, Building, Binding, StateType
  <1>1. CASE Go(p, "i_schema") /\ UNCHANGED <<db, table, left, lock>>
    <2>1. Stays(p, "i_schema")
        BY <1>0, <1>1, GoEffect DEF Pcs
    <2>2. LeftType /\ CfgType /\ FileType /\ torn' \subseteq Objs
        BY <1>0, <1>1, Unchanged
    <2>3. /\ db' \in SourceRows /\ db'.conf = db.conf /\ db'.src = db.src
          /\ db' = db
        BY <1>1, <1>id
    <2>4. table' \subseteq Ids
        BY <1>0, <1>1, Unchanged
    <2>5. Quiet(p)
        BY <1>0, <1>1, <2>1, <2>2, <2>3, <2>4, GoStep DEF Pcs, Saving, Critical, ConfKept
    <2>6. Proceeds(p)
        BY <1>0, <1>1, <2>1, <2>3 DEF Proceeds, Frame, SourceKept, Stays, Passes
    <2> QED  BY <2>5, <2>6
  <1>2. CASE FailSnapshot(p, 0) /\ table' = table \ {proc[p].id}
      BY <1>0, <1>2, FailEffect DEF Building
  <1>3. CASE FailSnapshot(p, 1) /\ UNCHANGED table
      BY <1>0, <1>3, FailEffect DEF Building
  <1> QED  BY <1>1, <1>2, <1>3 DEF ImportFileRawAs

LEMMA FetchLiveObjectMetadataStep ==
    ASSUME StateType, IdsDistinct, NEW p \in Procs, FetchLiveObjectMetadata(p)
    PROVE  Quiet(p) /\ (Proceeds(p) \/ Fails(p))
  <1>0. proc[p].pc = "b_fetch" /\ UNCHANGED <<table, cfg, file, report, torn>>
      BY DEF FetchLiveObjectMetadata, At
  <1>id. proc[p].id \in Ids /\ proc[p].obj \in Objs /\ db \in SourceRows
      BY <1>0, IdInRange, ProcFields DEF Importing, Early, Building, Binding, StateType
  <1>1. CASE Describable /\ Go(p, "i_profile") /\ UNCHANGED <<db, left, lock>>
    <2>1. Stays(p, "i_profile")
        BY <1>0, <1>1, GoEffect DEF Pcs
    <2>2. LeftType /\ CfgType /\ FileType /\ torn' \subseteq Objs
        BY <1>0, <1>1, Unchanged
    <2>3. /\ db' \in SourceRows /\ db'.conf = db.conf /\ db'.src = db.src
          /\ db' = db
        BY <1>1, <1>id
    <2>4. table' \subseteq Ids
        BY <1>0, <1>1, Unchanged
    <2>5. Quiet(p)
        BY <1>0, <1>1, <2>1, <2>2, <2>3, <2>4, GoStep DEF Pcs, Saving, Critical, ConfKept
    <2>6. Proceeds(p)
        BY <1>0, <1>1, <2>1, <2>3 DEF Proceeds, Frame, SourceKept, Stays, Passes, Describable
    <2> QED  BY <2>5, <2>6
  <1>2. CASE FailSnapshot(p, 0)
      BY <1>0, <1>2, FailEffect DEF Building
  <1> QED  BY <1>1, <1>2 DEF FetchLiveObjectMetadata

LEMMA ExtractSchemaStep ==
    ASSUME StateType, IdsDistinct, NEW p \in Procs, ExtractSchema(p)
    PROVE  Quiet(p) /\ (Proceeds(p) \/ Fails(p) \/ Ends(p))
  <1>0. proc[p].pc = "i_schema" /\ UNCHANGED <<table, cfg, file, report, torn>>
      BY DEF ExtractSchema, At
  <1>id. proc[p].id \in Ids /\ proc[p].obj \in Objs /\ db \in SourceRows
      BY <1>0, IdInRange, ProcFields DEF Importing, Early, Building, Binding, StateType
  <1>1. CASE Go(p, "i_check") /\ UNCHANGED <<db, left, lock>>
    <2>1. Stays(p, "i_check")
        BY <1>0, <1>1, GoEffect DEF Pcs
    <2>2. LeftType /\ CfgType /\ FileType /\ torn' \subseteq Objs
        BY <1>0, <1>1, Unchanged
    <2>3. /\ db' \in SourceRows /\ db'.conf = db.conf /\ db'.src = db.src
          /\ db' = db
        BY <1>1, <1>id
    <2>4. table' \subseteq Ids
        BY <1>0, <1>1, Unchanged
    <2>5. Quiet(p)
        BY <1>0, <1>1, <2>1, <2>2, <2>3, <2>4, GoStep DEF Pcs, Saving, Critical, ConfKept
    <2>6. Proceeds(p)
        BY <1>0, <1>1, <2>1, <2>3 DEF Proceeds, Frame, SourceKept, Stays, Passes
    <2> QED  BY <2>5, <2>6
  <1>2. CASE FailSnapshot(p, IF proc[p].id \in table THEN 1 ELSE 0)
      BY <1>0, <1>2, FailEffect DEF Building
  <1>3. CASE End(p, "failed") /\ UNCHANGED <<db, left>>
    <2>1. Quits(p)
        BY <1>3, EndEffect DEF Answers
    <2>2. LeftType
        BY <1>3, Unchanged
    <2>3. FileType
        BY <1>0, <1>3, Unchanged
    <2> QED  BY <1>0, <1>3, <2>1, <2>2, <2>3, EndStep
  <1>4. CASE Spend(1) /\ End(p, "failed") /\ UNCHANGED db
    <2>1. Quits(p)
        BY <1>4, EndEffect DEF Answers
    <2>2. LeftType
        BY <1>4, Spent
    <2>3. FileType
        BY <1>0, <1>4, Unchanged
    <2> QED  BY <1>0, <1>4, <2>1, <2>2, <2>3, EndStep
  <1> QED  BY <1>1, <1>2, <1>3, <1>4 DEF ExtractSchema

LEMMA CompleteImportStep ==
    ASSUME StateType, IdsDistinct, NEW p \in Procs, CompleteImport(p)
    PROVE  Quiet(p) /\ (Readies(p) \/ Fails(p))
  <1>0. proc[p].pc = "i_check" /\ UNCHANGED <<table, cfg, file, report, torn>>
      BY DEF CompleteImport, At
  <1>id. proc[p].id \in Ids /\ proc[p].obj \in Objs /\ db \in SourceRows
      BY <1>0, IdInRange, ProcFields DEF Importing, Early, Building, Binding, StateType
  <1>1. CASE /\ db' = IF db.snap[proc[p].id].status = "none" THEN db
                   ELSE [db EXCEPT !.snap[proc[p].id].status = "ready"]
             /\ Go(p, "i_profile") /\ UNCHANGED <<left, lock>>
    <2>1. Stays(p, "i_profile")
        BY <1>0, <1>1, GoEffect DEF Pcs
    <2>2. LeftType /\ CfgType /\ FileType /\ torn' \subseteq Objs
        BY <1>0, <1>1, Unchanged
    <2>3. /\ db' \in SourceRows /\ db'.conf = db.conf /\ db'.src = db.src
          /\ db'.prof = db.prof /\ db'.bind = db.bind
          /\ IF db.snap[proc[p].id].status = "none" THEN db'.snap = db.snap
             ELSE db'.snap = [db.snap EXCEPT ![proc[p].id].status = "ready"]
        BY <1>1, <1>id, StatusEffect
    <2>4. table' \subseteq Ids
        BY <1>0, <1>1, Unchanged
    <2>5. Quiet(p)
        BY <1>0, <1>1, <2>1, <2>2, <2>3, <2>4, GoStep DEF Pcs, Saving, Critical, ConfKept
    <2>6. Readies(p)
        BY <1>0, <1>1, <2>1, <2>3 DEF Readies, SourceKept, Stays, Passes, Keeps
    <2> QED  BY <2>5, <2>6
  <1>2. CASE FailSnapshot(p, 1)
      BY <1>0, <1>2, FailEffect DEF Building
  <1> QED  BY <1>1, <1>2 DEF CompleteImport

LEMMA ActivateLiveStep ==
    ASSUME StateType, IdsDistinct, NEW p \in Procs, ActivateLive(p)
    PROVE  Quiet(p) /\ (Readies(p) \/ Ends(p))
  <1>0. proc[p].pc = "b_ready" /\ UNCHANGED <<table, cfg, file, report, torn>>
      BY DEF ActivateLive, At
  <1>id. proc[p].id \in Ids /\ proc[p].obj \in Objs /\ db \in SourceRows
      BY <1>0, IdInRange, ProcFields DEF Importing, Early, Building, Binding, StateType
  <1>1. CASE /\ db' = IF db.snap[proc[p].id].status = "none" THEN db
                   ELSE [db EXCEPT !.snap[proc[p].id].status = "ready"]
             /\ Go(p, "i_bind") /\ UNCHANGED <<left, lock>>
    <2>1. Stays(p, "i_bind")
        BY <1>0, <1>1, GoEffect DEF Pcs
    <2>2. LeftType /\ CfgType /\ FileType /\ torn' \subseteq Objs
        BY <1>0, <1>1, Unchanged
    <2>3. /\ db' \in SourceRows /\ db'.conf = db.conf /\ db'.src = db.src
          /\ db'.prof = db.prof /\ db'.bind = db.bind
          /\ IF db.snap[proc[p].id].status = "none" THEN db'.snap = db.snap
             ELSE db'.snap = [db.snap EXCEPT ![proc[p].id].status = "ready"]
        BY <1>1, <1>id, StatusEffect
    <2>4. table' \subseteq Ids
        BY <1>0, <1>1, Unchanged
    <2>5. Quiet(p)
        BY <1>0, <1>1, <2>1, <2>2, <2>3, <2>4, GoStep DEF Pcs, Saving, Critical, ConfKept
    <2>6. Readies(p)
        BY <1>0, <1>1, <2>1, <2>3 DEF Readies, SourceKept, Stays, Passes, Keeps
    <2> QED  BY <2>5, <2>6
  <1>2. CASE Spend(1) /\ End(p, "failed") /\ UNCHANGED db
    <2>1. Quits(p)
        BY <1>2, EndEffect DEF Answers
    <2>2. LeftType
        BY <1>2, Spent
    <2>3. FileType
        BY <1>0, <1>2, Unchanged
    <2> QED  BY <1>0, <1>2, <2>1, <2>2, <2>3, EndStep
  <1> QED  BY <1>1, <1>2 DEF ActivateLive

LEMMA CreateSemanticProfileStep ==
    ASSUME StateType, IdsDistinct, NEW p \in Procs, CreateSemanticProfile(p)
    PROVE  Quiet(p) /\ (Profiles(p) \/ Fails(p))
  <1>0. proc[p].pc = "i_profile" /\ UNCHANGED <<table, cfg, file, report, torn>>
      BY DEF CreateSemanticProfile, At
  <1>id. proc[p].id \in Ids /\ proc[p].obj \in Objs /\ db \in SourceRows
      BY <1>0, IdInRange, ProcFields DEF Importing, Early, Building, Binding, StateType
  <1> DEFINE to == IF proc[p].obj = "file" THEN "i_bind" ELSE "b_ready"
  <1>to. to \in {"i_bind", "b_ready"}
      OBVIOUS
  <1> HIDE DEF to
  <1>1. CASE /\ db.snap[proc[p].id].status # "none" /\ db.src[proc[p].obj]
             /\ db' = [db EXCEPT !.prof[proc[p].id] = "profiled"]
             /\ Go(p, to) /\ UNCHANGED <<left, lock>>
    <2>1. Stays(p, to)
        BY <1>0, <1>to, <1>1, GoEffect DEF Pcs
    <2>2. LeftType /\ CfgType /\ FileType /\ torn' \subseteq Objs
        BY <1>0, <1>to, <1>1, Unchanged
    <2>3. /\ db' \in SourceRows /\ db'.conf = db.conf /\ db'.src = db.src
          /\ db'.snap = db.snap /\ db'.bind = db.bind
          /\ db'.prof = [db.prof EXCEPT ![proc[p].id] = "profiled"]
        BY <1>1, <1>id DEF SourceRows
    <2>4. table' \subseteq Ids
        BY <1>0, <1>to, <1>1, Unchanged
    <2>5. Quiet(p)
        BY <1>0, <1>to, <1>1, <2>1, <2>2, <2>3, <2>4, GoStep DEF Pcs, Saving, Critical, ConfKept
    <2>6. Profiles(p)
        BY <1>0, <1>to, <1>1, <2>1, <2>3 DEF Profiles, SourceKept, Stays, Passes, to
    <2> QED  BY <2>5, <2>6
  <1>2. CASE \E k \in {0, 1} : FailSnapshot(p, k)
      BY <1>0, <1>2, FailEffect DEF Building
  <1> QED  BY <1>1, <1>2 DEF CreateSemanticProfile, to

LEMMA UpsertBindingStep ==
    ASSUME StateType, IdsDistinct, NEW p \in Procs, UpsertBinding(p)
    PROVE  Quiet(p) /\ (Binds(p) \/ Fails(p) \/ Ends(p))
  <1>0. proc[p].pc = "i_bind" /\ UNCHANGED <<table, cfg, file, report, torn>>
      BY DEF UpsertBinding, At
  <1>id. proc[p].id \in Ids /\ proc[p].obj \in Objs /\ db \in SourceRows
      BY <1>0, IdInRange, ProcFields DEF Importing, Early, Building, Binding, StateType
  <1>1. CASE /\ db.src[proc[p].obj]
             /\ db' = [db EXCEPT !.bind[proc[p].obj] = proc[p].id]
             /\ Go(p, "i_list") /\ UNCHANGED <<left, lock>>
    <2>1. Stays(p, "i_list")
        BY <1>0, <1>1, GoEffect DEF Pcs
    <2>2. LeftType /\ CfgType /\ FileType /\ torn' \subseteq Objs
        BY <1>0, <1>1, Unchanged
    <2>3. /\ db' \in SourceRows /\ db'.conf = db.conf /\ db'.src = db.src
          /\ db'.snap = db.snap /\ db'.prof = db.prof
          /\ db'.bind = [db.bind EXCEPT ![proc[p].obj] = proc[p].id]
        BY <1>1, <1>id DEF SourceRows
    <2>4. table' \subseteq Ids
        BY <1>0, <1>1, Unchanged
    <2>5. Quiet(p)
        BY <1>0, <1>1, <2>1, <2>2, <2>3, <2>4, GoStep DEF Pcs, Saving, Critical, ConfKept
    <2>6. Binds(p)
        BY <1>0, <1>1, <2>1, <2>3 DEF Binds, SourceKept, Stays, Passes
    <2> QED  BY <2>5, <2>6
  <1>2. CASE \E k \in {0, 1} : FailSnapshot(p, k)
      BY <1>0, <1>2, FailEffect DEF Building
  <1>3. CASE (\E k \in {0, 1} : Spend(k)) /\ End(p, "failed") /\ UNCHANGED db
    <2>1. Quits(p)
        BY <1>3, EndEffect DEF Answers
    <2>2. LeftType
        BY <1>3, Spent
    <2>3. FileType
        BY <1>0, <1>3, Unchanged
    <2> QED  BY <1>0, <1>3, <2>1, <2>2, <2>3, EndStep
  <1> QED  BY <1>1, <1>2, <1>3 DEF UpsertBinding

\* A request selects snapshots.
Selects(p, pc, S) ==
  /\ proc' \in [Procs -> Requests] /\ proc'[p].pc = pc /\ Keeps(p)
  /\ proc'[p].sel = S /\ proc'[p].tag = proc[p].tag
  /\ \A q \in Procs \ {p} : proc'[q] = proc[q]

LEMMA SelectEffect ==
    ASSUME StateType, NEW p \in Procs, NEW pc \in Pcs, NEW S \in SUBSET Ids, NEW w \in BOOLEAN,
           proc' = [proc EXCEPT ![p] = [proc[p] EXCEPT !.pc = pc, !.sel = S, !.warn = w]]
    PROVE  Selects(p, pc, S)
  <1>1. proc \in [Procs -> Requests] /\ proc[p] \in Requests
      BY DEF StateType
  <1> DEFINE r == [proc[p] EXCEPT !.pc = pc, !.sel = S, !.warn = w]
  <1>3. /\ r \in Requests /\ r.pc = pc /\ r.obj = proc[p].obj /\ r.id = proc[p].id
        /\ r.sel = S /\ r.tag = proc[p].tag
      BY <1>1 DEF Requests
  <1> HIDE DEF r
  <1> QED  BY <1>1, <1>3 DEF Selects, Keeps, r

LEMMA SelectStep ==
    ASSUME StateType, NEW p \in Procs, NEW pc \in Pcs \ ({"c_look", "c_row"} \cup Saving), NEW S,
           Selects(p, pc, S), lock' = lock, proc[p].pc \in Critical <=> pc \in Critical,
           LeftType, FileType, CfgType,
           db' \in SourceRows, ConfKept, table' \subseteq Ids, torn' \subseteq Objs, report' = report
    PROVE  Quiet(p)
  <1>1. Moves(p)
      BY DEF Selects, Moves, LeftType
  <1>2. StateType'
      BY DEF StateType, Selects, LeftType, FileType, CfgType
  <1>3. NoReceipt(p) /\ NoReport(p)
      BY DEF NoReceipt, NoReport, Selects
  <1> QED  BY <1>1, <1>2, <1>3 DEF Quiet

LEMMA SelectOnly ==
    ASSUME StateType, NEW p \in Procs, NEW S \in SUBSET Ids,
           proc' = [proc EXCEPT ![p].sel = S]
    PROVE  Selects(p, proc[p].pc, S)
  <1>1. proc \in [Procs -> Requests] /\ proc[p] \in Requests
      BY DEF StateType
  <1> DEFINE r == [proc[p] EXCEPT !.sel = S]
  <1>2. proc' = [proc EXCEPT ![p] = r]
      BY <1>1
  <1>3. /\ r \in Requests /\ r.pc = proc[p].pc /\ r.obj = proc[p].obj /\ r.id = proc[p].id
        /\ r.sel = S /\ r.tag = proc[p].tag
      BY <1>1 DEF Requests
  <1> HIDE DEF r
  <1> QED  BY <1>1, <1>2, <1>3 DEF Selects, Keeps, r

LEMMA SelectGo ==
    ASSUME StateType, NEW p \in Procs, NEW pc \in Pcs, NEW S \in SUBSET Ids,
           proc' = [proc EXCEPT ![p].sel = S, ![p].pc = pc]
    PROVE  Selects(p, pc, S)
  <1>1. proc \in [Procs -> Requests] /\ proc[p] \in Requests
      BY DEF StateType
  <1> DEFINE r == [proc[p] EXCEPT !.sel = S, !.pc = pc]
  <1>2. proc' = [proc EXCEPT ![p] = r]
      BY <1>1
  <1>3. /\ r \in Requests /\ r.pc = pc /\ r.obj = proc[p].obj /\ r.id = proc[p].id
        /\ r.sel = S /\ r.tag = proc[p].tag
      BY <1>1 DEF Requests
  <1> HIDE DEF r
  <1> QED  BY <1>1, <1>2, <1>3 DEF Selects, Keeps, r

LEMMA ListSupersededStep ==
    ASSUME StateType, NEW p \in Procs, ListSuperseded(p)
    PROVE  Quiet(p) /\ Lists(p)
  <1>0. proc[p].pc = "i_list" /\ UNCHANGED <<db, table, cfg, file, report, lock, torn>>
      BY DEF ListSuperseded, At
  <1>1. LeftType
      BY Spent, Unchanged DEF ListSuperseded
  <1>2. \E S \in {{}, Rows(proc[p].obj) \ {proc[p].id}} : Selects(p, "i_clean", S)
    <2>0. Rows(proc[p].obj) \ {proc[p].id} \in SUBSET Ids /\ {} \in SUBSET Ids
        BY DEF Rows
    <2> DEFINE R == Rows(proc[p].obj) \ {proc[p].id}
    <2>1. CASE proc' = [proc EXCEPT ![p].sel = R, ![p].pc = "i_clean"]
      <3>1. Selects(p, "i_clean", R)
          BY <2>0, <2>1, SelectGo DEF Pcs
      <3> QED  BY <3>1
    <2>2. CASE Warned(p)
      <3>1. proc' = [proc EXCEPT ![p] = [proc[p] EXCEPT !.pc = "i_clean", !.sel = {}, !.warn = TRUE]]
          BY <2>2 DEF StateType, Requests, Warned
      <3>2. Selects(p, "i_clean", {})
          BY <2>0, <3>1, SelectEffect DEF Pcs
      <3> QED  BY <3>2
    <2> QED  BY <2>1, <2>2 DEF ListSuperseded
  <1>3. PICK S \in {{}, Rows(proc[p].obj) \ {proc[p].id}} : Selects(p, "i_clean", S)
      BY <1>2
  <1>4. Quiet(p)
      BY <1>0, <1>1, <1>3, Unchanged, SelectStep DEF Pcs, Saving, Critical
  <1>5. Lists(p)
      BY <1>0, <1>3 DEF Lists, Frame, SourceKept, Selects
  <1> QED  BY <1>4, <1>5

LEMMA CleanupSupersededStep ==
    ASSUME StateType, NEW p \in Procs, CleanupSuperseded(p)
    PROVE  Quiet(p) /\ \E i \in Ids : Cleans(p, i)
  <1>0. /\ proc[p].pc = "i_clean" /\ UNCHANGED <<cfg, file, report, lock, torn>>
        /\ db \in SourceRows /\ table \subseteq Ids
      BY DEF CleanupSuperseded, At, StateType
  <1>1. PICK i \in proc[p].sel :
           /\ \/ /\ table' = table \ {i} /\ db' = Dropped(i)
                 /\ proc' = [proc EXCEPT ![p].sel = @ \ {i}]
                 /\ UNCHANGED left
              \/ /\ Spend(1)
                 /\ proc' = [proc EXCEPT ![p].sel = @ \ {i}, ![p].warn = TRUE]
                 /\ \/ UNCHANGED <<table, db>>
                    \/ table' = table \ {i} /\ UNCHANGED db
                    \/ /\ table' = table \ {i}
                       /\ db' = [db EXCEPT !.prof[i] = "none", !.conf[i] = NoConf]
      BY DEF CleanupSuperseded
  <1>2. i \in Ids /\ proc[p].sel \ {i} \in SUBSET Ids
      BY <1>1, ProcFields
  <1>3. LeftType
      BY <1>1, Spent, Unchanged
  <1>4. Selects(p, "i_clean", proc[p].sel \ {i})
    <2>1. CASE proc' = [proc EXCEPT ![p].sel = @ \ {i}]
      <3>1. proc' = [proc EXCEPT ![p].sel = proc[p].sel \ {i}]
          BY <2>1 DEF StateType
      <3> QED  BY <1>0, <1>2, <3>1, SelectOnly
    <2>2. CASE proc' = [proc EXCEPT ![p].sel = @ \ {i}, ![p].warn = TRUE]
      <3>1. proc' = [proc EXCEPT ![p] = [proc[p] EXCEPT !.pc = "i_clean", !.sel = proc[p].sel \ {i},
                                                        !.warn = TRUE]]
          BY <1>0, <2>2 DEF StateType, Requests
      <3> QED  BY <1>2, <3>1, SelectEffect DEF Pcs
    <2> QED  BY <1>1, <2>1, <2>2
  <1>5. /\ db' \in SourceRows /\ ConfKept /\ db'.src = db.src /\ db'.bind = db.bind
        /\ \/ db'.snap = db.snap /\ table' \in {table, table \ {i}}
           \/ db'.snap = [db.snap EXCEPT ![i] = NoSnap] /\ table' = table \ {i}
        /\ db'.prof \in {db.prof, [db.prof EXCEPT ![i] = "none"]}
    <2>1. CASE db' = Dropped(i) /\ table' = table \ {i}
        BY <1>0, <1>2, <2>1, DroppedEffect, DbFields DEF ConfKept
    <2>2. CASE db' = db /\ table' \in {table, table \ {i}}
        BY <1>0, <2>2 DEF ConfKept
    <2>3. CASE table' = table \ {i} /\ db' = [db EXCEPT !.prof[i] = "none", !.conf[i] = NoConf]
      <3>1. NoConf \in [receipt : Nat, plain : Nat]
          BY DEF NoConf
      <3>2. /\ [db.prof EXCEPT ![i] = "none"] \in [Ids -> {"none", "profiled", "confirmed"}]
            /\ [db.conf EXCEPT ![i] = NoConf] \in [Ids -> [receipt : Nat, plain : Nat]]
          BY <1>0, <1>2, <3>1, DbFields
      <3>3. /\ db'.src = db.src /\ db'.bind = db.bind /\ db'.snap = db.snap
            /\ db'.prof = [db.prof EXCEPT ![i] = "none"]
            /\ db'.conf = [db.conf EXCEPT ![i] = NoConf]
          BY <1>0, <2>3 DEF SourceRows
      <3>4. db' \in SourceRows
          BY <1>0, <2>3, <3>2, <3>3 DEF SourceRows
      <3> QED  BY <1>0, <1>2, <2>3, <3>3, <3>4, DbFields DEF ConfKept
    <2> QED  BY <1>1, <2>1, <2>2, <2>3
  <1>6. table' \subseteq Ids
      BY <1>0, <1>5
  <1>7. Quiet(p)
      BY <1>0, <1>3, <1>4, <1>5, <1>6, Unchanged, SelectStep DEF Pcs, Saving, Critical
  <1>8. Cleans(p, i)
      BY <1>0, <1>1, <1>4, <1>5 DEF Cleans, SourceKept, Selects
  <1> QED  BY <1>2, <1>7, <1>8

LEMMA ImportDoneStep ==
    ASSUME StateType, NEW p \in Procs, ImportDone(p)
    PROVE  Quiet(p) /\ (Ends(p))
  <1>0. proc[p].pc = "i_clean" /\ UNCHANGED <<db, table, cfg, file, report, torn>>
      BY DEF ImportDone, At
  <1>1. CASE End(p, "ok") /\ UNCHANGED left
    <2>1. Quits(p)
        BY <1>1, EndEffect DEF Answers
    <2>2. LeftType
        BY <1>1, Unchanged
    <2>3. FileType
        BY <1>0, <1>1, Unchanged
    <2> QED  BY <1>0, <1>1, <2>1, <2>2, <2>3, EndStep
  <1> QED  BY <1>1 DEF ImportDone

LEMMA RemoveCheckStep ==
    ASSUME StateType, NEW p \in Procs, RemoveCheck(p)
    PROVE  Quiet(p) /\ (Aside(p) \/ Ends(p))
  <1>0. proc[p].pc = "r_check" /\ UNCHANGED <<db, table, cfg, file, report, torn>>
      BY DEF RemoveCheck, At
  <1>1. CASE End(p, "ok") /\ UNCHANGED left
    <2>1. Quits(p)
        BY <1>1, EndEffect DEF Answers
    <2>2. LeftType
        BY <1>1, Unchanged
    <2>3. FileType
        BY <1>0, <1>1, Unchanged
    <2> QED  BY <1>0, <1>1, <2>1, <2>2, <2>3, EndStep
  <1>2. CASE Go(p, "r_list") /\ UNCHANGED <<lock, left>>
    <2>1. Stays(p, "r_list")
        BY <1>2, GoEffect DEF Pcs
    <2>2. LeftType /\ CfgType /\ table' \subseteq Ids /\ torn' \subseteq Objs
        BY <1>0, <1>2, Unchanged
    <2>3. FileType
        BY <1>0, <1>2, Unchanged
    <2>4. db' \in SourceRows /\ ConfKept
        BY <1>0, <1>2, Unchanged
    <2>5. Quiet(p)
        BY <1>0, <1>2, <2>1, <2>2, <2>3, <2>4, GoStep DEF Pcs, Saving, Critical
    <2>6. Aside(p)
        BY <1>0, <1>2, <2>1 DEF Aside, Outside, Importing, Early, Building, Binding, Pcs, Stays
    <2> QED  BY <2>5, <2>6
  <1>3. CASE Spend(1) /\ End(p, "failed")
    <2>1. Quits(p)
        BY <1>3, EndEffect DEF Answers
    <2>2. LeftType
        BY <1>3, Spent
    <2>3. FileType
        BY <1>0, <1>3, Unchanged
    <2> QED  BY <1>0, <1>3, <2>1, <2>2, <2>3, EndStep
  <1> QED  BY <1>1, <1>2, <1>3 DEF RemoveCheck

LEMMA RemoveListStep ==
    ASSUME StateType, NEW p \in Procs, RemoveList(p)
    PROVE  Quiet(p) /\ (RemoveLists(p) \/ Ends(p))
  <1>0. proc[p].pc = "r_list" /\ UNCHANGED <<db, table, cfg, file, report>>
      BY DEF RemoveList, At
  <1> DEFINE to == IF proc[p].obj = "file" THEN "r_drop" ELSE "r_prof"
  <1>to. to \in {"r_drop", "r_prof"}
      OBVIOUS
  <1>1. CASE /\ proc' = [proc EXCEPT ![p].sel = Rows(proc[p].obj), ![p].pc = to]
             /\ torn' = torn \cup {proc[p].obj}
             /\ UNCHANGED <<lock, left>>
    <2> HIDE DEF to
    <2>1. Rows(proc[p].obj) \in SUBSET Ids
        BY DEF Rows
    <2>3. Selects(p, to, Rows(proc[p].obj))
        BY <1>1, <1>to, <2>1, SelectGo DEF Pcs
    <2>4. torn' \subseteq Objs
        BY <1>1, ProcFields DEF StateType
    <2>5. LeftType /\ CfgType /\ FileType /\ table' \subseteq Ids /\ db' \in SourceRows /\ ConfKept
        BY <1>0, <1>1, Unchanged
    <2>6. Quiet(p)
        BY <1>0, <1>1, <1>to, <2>3, <2>4, <2>5, SelectStep DEF Pcs, Saving, Critical
    <2>7. RemoveLists(p)
        BY <1>0, <1>1, <2>3 DEF RemoveLists, SourceKept, Selects, to
    <2> QED  BY <2>6, <2>7
  <1>2. CASE Spend(1) /\ End(p, "failed") /\ UNCHANGED torn
    <2>1. Quits(p)
        BY <1>2, EndEffect DEF Answers
    <2>2. LeftType
        BY <1>2, Spent
    <2>3. FileType
        BY <1>0, <1>2, Unchanged
    <2> QED  BY <1>0, <1>2, <2>1, <2>2, <2>3, EndStep
  <1> QED  BY <1>1, <1>2 DEF RemoveList

LEMMA RemoveDropStep ==
    ASSUME StateType, NEW p \in Procs, RemoveDrop(p)
    PROVE  Quiet(p) /\ ((\E i \in Ids : RemoveTable(p, i)) \/ RemovePasses(p) \/ Ends(p))
  <1>0. proc[p].pc = "r_drop" /\ UNCHANGED <<db, cfg, file, report, torn>>
      BY DEF RemoveDrop, At
  <1>1. ASSUME NEW i \in proc[p].sel \cap table, lock = NoProc,
               table' = table \ {i} /\ UNCHANGED <<proc, lock, left>>
        PROVE  Quiet(p) /\ \E j \in Ids : RemoveTable(p, j)
    <2>1. Stays(p, "r_drop")
        BY <1>0, <1>1 DEF Stays, Keeps, StateType
    <2>2. LeftType /\ CfgType /\ FileType /\ torn' \subseteq Objs /\ db' \in SourceRows /\ ConfKept
        BY <1>0, <1>1, Unchanged
    <2>3. table' \subseteq Ids /\ i \in Ids
        BY <1>1 DEF StateType
    <2>4. Quiet(p)
        BY <1>0, <1>1, <2>1, <2>2, <2>3, GoStep DEF Pcs, Saving, Critical
    <2>5. RemoveTable(p, i)
        BY <1>0, <1>1, <2>1 DEF RemoveTable, SourceKept, Stays, Passes
    <2> QED  BY <2>3, <2>4, <2>5
  <1>2. CASE Spend(1) /\ End(p, "failed") /\ UNCHANGED table
    <2>1. Quits(p)
        BY <1>2, EndEffect DEF Answers
    <2>2. LeftType
        BY <1>2, Spent
    <2>3. FileType
        BY <1>0, <1>2, Unchanged
    <2> QED  BY <1>0, <1>2, <2>1, <2>2, <2>3, EndStep
  <1>3. CASE /\ proc[p].sel \cap table = {} /\ (proc[p].sel = {} \/ lock = NoProc)
             /\ Go(p, "r_prof") /\ UNCHANGED <<table, lock, left>>
    <2>1. Stays(p, "r_prof")
        BY <1>0, <1>3, GoEffect DEF Pcs
    <2>2. LeftType /\ CfgType /\ FileType /\ torn' \subseteq Objs
        BY <1>0, <1>3, Unchanged
    <2>3. /\ db' \in SourceRows /\ db'.conf = db.conf /\ db'.src = db.src
          /\ db' = db
        BY <1>0 DEF StateType
    <2>4. table' \subseteq Ids
        BY <1>0, <1>3, Unchanged
    <2>5. Quiet(p)
        BY <1>0, <1>3, <2>1, <2>2, <2>3, <2>4, GoStep DEF Pcs, Saving, Critical, ConfKept
    <2>6. RemovePasses(p)
        BY <1>0, <1>3, <2>1, <2>3 DEF RemovePasses, Frame, SourceKept, Stays, Passes
    <2> QED  BY <2>5, <2>6
  <1> QED  BY <1>1, <1>2, <1>3 DEF RemoveDrop

LEMMA UnprofiledEffect ==
    ASSUME db \in SourceRows, NEW a \in SUBSET Ids, NEW b
    PROVE  /\ Unprofiled(a, b) \in SourceRows /\ Unprofiled(a, b).src = db.src
           /\ Unprofiled(a, b).snap = db.snap /\ Unprofiled(a, b).bind = db.bind
           /\ \A i \in Ids \ a : Unprofiled(a, b).prof[i] = db.prof[i]
           /\ \A i \in Ids : Unprofiled(a, b).conf[i] \in {db.conf[i], NoConf}
  <1> DEFINE d == Unprofiled(a, b)
  <1>1. /\ d.src = db.src /\ d.snap = db.snap /\ d.bind = db.bind
        /\ d.prof = [i \in Ids |-> IF i \in a THEN "none" ELSE db.prof[i]]
        /\ d.conf = [i \in Ids |-> IF i \in a \cup b THEN NoConf ELSE db.conf[i]]
      BY DEF SourceRows, Unprofiled
  <1>2. NoConf \in [receipt : Nat, plain : Nat]
      BY DEF NoConf
  <1>3. /\ d.prof \in [Ids -> {"none", "profiled", "confirmed"}]
        /\ d.conf \in [Ids -> [receipt : Nat, plain : Nat]]
      BY <1>1, <1>2, DbFields
  <1>4. d \in SourceRows
      BY <1>1, <1>3 DEF SourceRows, Unprofiled
  <1> HIDE DEF d
  <1>5. /\ \A i \in Ids \ a : d.prof[i] = db.prof[i]
        /\ \A i \in Ids : d.conf[i] \in {db.conf[i], NoConf}
      BY <1>1
  <1> QED  BY <1>1, <1>4, <1>5 DEF d

LEMMA RemoveProfilesStep ==
    ASSUME StateType, NEW p \in Procs, RemoveProfiles(p)
    PROVE  Quiet(p) /\ RemoveProfs(p)
  <1>0. proc[p].pc = "r_prof" /\ UNCHANGED <<table, cfg, file, report, torn>>
      BY DEF RemoveProfiles, At
  <1>id. db \in SourceRows /\ proc[p].sel \in SUBSET Ids
      BY ProcFields DEF StateType
  <1>k. CfgType /\ FileType /\ table' \subseteq Ids /\ torn' \subseteq Objs
      BY <1>0, Unchanged
  <1>1. CASE /\ db' = Unprofiled(proc[p].sel, {})
             /\ Go(p, "r_rows") /\ UNCHANGED <<lock, left>>
    <2>1. Stays(p, "r_rows")
        BY <1>1, GoEffect DEF Pcs
    <2>2. LeftType
        BY <1>1, Unchanged
    <2>3. /\ db' \in SourceRows /\ ConfKept /\ db'.src = db.src /\ db'.snap = db.snap
          /\ db'.bind = db.bind /\ \A i \in Ids \ proc[p].sel : db'.prof[i] = db.prof[i]
      <3>1. db' \in SourceRows /\ db' = Unprofiled(proc[p].sel, {})
          BY <1>1, <1>id, UnprofiledEffect
      <3> QED  BY <1>id, <3>1, UnprofiledEffect DEF ConfKept
    <2>4. Quiet(p)
        BY <1>0, <1>k, <1>1, <2>1, <2>2, <2>3, GoStep DEF Pcs, Saving, Critical
    <2>5. RemoveProfs(p)
        BY <1>0, <2>1, <2>3 DEF RemoveProfs, SourceKept, Stays, Passes
    <2> QED  BY <2>4, <2>5
  <1>2. ASSUME NEW gone \in SUBSET proc[p].sel, NEW bare,
               db' = Unprofiled(gone, {bare}), Spend(1), End(p, "failed")
        PROVE  Quiet(p) /\ RemoveProfs(p)
    <2>1. Quits(p)
        BY <1>2, EndEffect DEF Answers
    <2>2. LeftType
        BY <1>2, Spent
    <2>3. /\ db' \in SourceRows /\ ConfKept /\ db'.src = db.src /\ db'.snap = db.snap
          /\ db'.bind = db.bind /\ \A i \in Ids \ gone : db'.prof[i] = db.prof[i]
      <3>1. gone \in SUBSET Ids /\ db' = Unprofiled(gone, {bare})
          BY <1>2, <1>id
      <3> QED  BY <1>id, <3>1, UnprofiledEffect DEF ConfKept
    <2>4. Quiet(p)
        BY <1>0, <1>k, <2>1, <2>2, <2>3, EndRowsStep
    <2>5. RemoveProfs(p)
        BY <1>0, <1>2, <2>1, <2>3 DEF RemoveProfs, SourceKept, Quits
    <2> QED  BY <2>4, <2>5
  <1> QED  BY <1>1, <1>2 DEF RemoveProfiles

LEMMA RemoveRowStep ==
    ASSUME StateType, NEW p \in Procs, RemoveRow(p)
    PROVE  Quiet(p) /\ ((\E i \in Ids : RemoveSnapshot(p, i)) \/ RemovePasses(p) \/ Ends(p))
  <1>0. proc[p].pc = "r_rows" /\ UNCHANGED <<table, cfg, file, report, torn>> /\ db \in SourceRows
      BY DEF RemoveRow, At, StateType
  <1>1. ASSUME NEW i \in proc[p].sel, db' = Dropped(i), proc' = [proc EXCEPT ![p].sel = @ \ {i}],
               UNCHANGED <<lock, left>>
        PROVE  Quiet(p) /\ \E j \in Ids : RemoveSnapshot(p, j)
    <2>1. i \in Ids /\ proc[p].sel \ {i} \in SUBSET Ids
        BY ProcFields
    <2>2. proc' = [proc EXCEPT ![p].sel = proc[p].sel \ {i}]
        BY <1>1 DEF StateType
    <2>3. Selects(p, "r_rows", proc[p].sel \ {i})
        BY <1>0, <2>1, <2>2, SelectOnly
    <2>4. LeftType /\ CfgType /\ FileType /\ table' \subseteq Ids /\ torn' \subseteq Objs
        BY <1>0, <1>1, Unchanged
    <2>5. /\ db' \in SourceRows /\ ConfKept /\ db'.src = db.src /\ db'.bind = db.bind
          /\ db'.snap = [db.snap EXCEPT ![i] = NoSnap] /\ db'.prof = [db.prof EXCEPT ![i] = "none"]
        BY <1>0, <1>1, <2>1, DroppedEffect, DbFields DEF ConfKept
    <2>6. Quiet(p)
        BY <1>0, <1>1, <2>3, <2>4, <2>5, SelectStep DEF Pcs, Saving, Critical
    <2>7. RemoveSnapshot(p, i)
        BY <1>0, <1>1, <2>3, <2>5 DEF RemoveSnapshot, SourceKept, Selects
    <2> QED  BY <2>1, <2>6, <2>7
  <1>2. CASE Go(p, "r_bind") /\ UNCHANGED <<db, lock, left>>
    <2>1. Stays(p, "r_bind")
        BY <1>0, <1>2, GoEffect DEF Pcs
    <2>2. LeftType /\ CfgType /\ FileType /\ torn' \subseteq Objs
        BY <1>0, <1>2, Unchanged
    <2>3. /\ db' \in SourceRows /\ db'.conf = db.conf /\ db'.src = db.src
          /\ db' = db
        BY <1>0, <1>2
    <2>4. table' \subseteq Ids
        BY <1>0, <1>2, Unchanged
    <2>5. Quiet(p)
        BY <1>0, <1>2, <2>1, <2>2, <2>3, <2>4, GoStep DEF Pcs, Saving, Critical, ConfKept
    <2>6. RemovePasses(p)
        BY <1>0, <1>2, <2>1, <2>3 DEF RemovePasses, Frame, SourceKept, Stays, Passes
    <2> QED  BY <2>5, <2>6
  <1>3. CASE Spend(1) /\ End(p, "failed") /\ UNCHANGED db
    <2>1. Quits(p)
        BY <1>3, EndEffect DEF Answers
    <2>2. LeftType
        BY <1>3, Spent
    <2>3. FileType
        BY <1>0, <1>3, Unchanged
    <2> QED  BY <1>0, <1>3, <2>1, <2>2, <2>3, EndStep
  <1> QED  BY <1>1, <1>2, <1>3 DEF RemoveRow

LEMMA RemoveBindingStep ==
    ASSUME StateType, NEW p \in Procs, RemoveBinding(p)
    PROVE  Quiet(p) /\ (Unbinds(p) \/ Ends(p))
  <1>0. proc[p].pc = "r_bind" /\ UNCHANGED <<table, cfg, file, report>>
      BY DEF RemoveBinding, At
  <1>id. proc[p].obj \in Objs /\ db \in SourceRows /\ proc[p].sel \subseteq Ids
      BY ProcFields DEF StateType
  <1>1. CASE /\ db' = [db EXCEPT !.bind[proc[p].obj] = 0]
             /\ torn' = IF \E q \in Procs \ {p} : Busy(q) /\ proc[q].obj = proc[p].obj
                        THEN torn ELSE torn \ {proc[p].obj}
             /\ End(p, "ok") /\ UNCHANGED left
    <2>1. Quits(p)
        BY <1>1, EndEffect DEF Answers
    <2>2. LeftType /\ FileType /\ table' \subseteq Ids
        BY <1>0, <1>1, Unchanged
    <2>t. torn' \subseteq Objs
        BY <1>1 DEF StateType
    <2>3. CfgType
        BY <1>0, <1>1, Unchanged
    <2>4. /\ db'.src = db.src /\ db'.snap = db.snap /\ db'.prof = db.prof /\ db'.conf = db.conf
          /\ db'.bind = [db.bind EXCEPT ![proc[p].obj] = 0]
        BY <1>1, <1>id DEF SourceRows
    <2>5. db' \in SourceRows /\ ConfKept
        BY <1>1, <1>id, <2>4, DbFields DEF SourceRows, ConfKept
    <2>6. Quiet(p)
        BY <1>0, <1>1, <2>1, <2>2, <2>t, <2>3, <2>5, EndRowsStep
    <2>7. Unbinds(p)
        BY <1>0, <1>1, <2>1, <2>4 DEF Unbinds, SourceKept, Quits, Busy
    <2> QED  BY <2>6, <2>7
  <1>2. CASE Spend(1) /\ End(p, "failed") /\ UNCHANGED <<db, torn>>
    <2>1. Quits(p)
        BY <1>2, EndEffect DEF Answers
    <2>2. LeftType
        BY <1>2, Spent
    <2>3. FileType
        BY <1>0, <1>2, Unchanged
    <2> QED  BY <1>0, <1>2, <2>1, <2>2, <2>3, EndStep
  <1> QED  BY <1>1, <1>2 DEF RemoveBinding

\* DeleteWorkspaceSource's own effect on the rows.
Removal(p) ==
  /\ LET gone == Rows("live")
         Kept(f, none) == [i \in Ids |-> IF i \in gone THEN none ELSE f[i]] IN
     db' = [db EXCEPT !.src["live"] = FALSE, !.bind["live"] = 0,
                      !.snap = Kept(@, NoSnap), !.prof = Kept(@, "none"),
                      !.conf = Kept(@, NoConf)]
  /\ cfg' = [cfg EXCEPT !.on = FALSE, !.tested = 0]
  /\ End(p, "ok") /\ UNCHANGED left

LEMMA RemovalRows ==
    ASSUME NEW p \in Procs, db \in SourceRows, Removal(p)
    PROVE  /\ db' \in SourceRows /\ ConfKept
           /\ ~db'.src["live"] /\ db'.bind = [db.bind EXCEPT !["live"] = 0]
           /\ db'.snap = [i \in Ids |-> IF i \in Rows("live") THEN NoSnap ELSE db.snap[i]]
           /\ db'.prof = [i \in Ids |-> IF i \in Rows("live") THEN "none" ELSE db.prof[i]]
  <1> DEFINE snap == [i \in Ids |-> IF i \in Rows("live") THEN NoSnap ELSE db.snap[i]]
             prof == [i \in Ids |-> IF i \in Rows("live") THEN "none" ELSE db.prof[i]]
             conf == [i \in Ids |-> IF i \in Rows("live") THEN NoConf ELSE db.conf[i]]
  <1>1. db' = [db EXCEPT !.src["live"] = FALSE, !.bind["live"] = 0,
                         !.snap = snap, !.prof = prof, !.conf = conf]
      BY DEF Removal, SourceRows
  <1>2. NoSnap \in [obj : Objs, status : {"none", "creating", "ready", "failed"}]
      BY DEF NoSnap, Objs
  <1>3. NoConf \in [receipt : Nat, plain : Nat]
      BY DEF NoConf
  <1>4. /\ snap \in [Ids -> [obj : Objs, status : {"none", "creating", "ready", "failed"}]]
        /\ prof \in [Ids -> {"none", "profiled", "confirmed"}]
        /\ conf \in [Ids -> [receipt : Nat, plain : Nat]]
      BY <1>2, <1>3, DbFields
  <1>5. \A i \in Ids : conf[i] \in {db.conf[i], NoConf}
      OBVIOUS
  <1> HIDE DEF snap, prof, conf
  <1>6. /\ ~db'.src["live"] /\ db'.bind = [db.bind EXCEPT !["live"] = 0]
        /\ db'.src = [db.src EXCEPT !["live"] = FALSE]
        /\ db'.snap = snap /\ db'.prof = prof /\ db'.conf = conf
      BY <1>1 DEF SourceRows, Objs
  <1>7. db' \in SourceRows
      BY <1>1, <1>4, <1>6 DEF SourceRows
  <1> QED  BY <1>5, <1>6, <1>7 DEF ConfKept, snap, prof

LEMMA DeleteWorkspaceSourceStep ==
    ASSUME StateType, NEW p \in Procs, DeleteWorkspaceSource(p)
    PROVE  Quiet(p) /\ (Aside(p) \/ Deletes(p) \/ Ends(p))
  <1>id. db \in SourceRows
      BY DEF StateType
  <1>a. CASE /\ At(p, "d_list") /\ UNCHANGED <<db, table, cfg, file, report, torn>>
             /\ \/ Go(p, "d_row") /\ UNCHANGED <<lock, left>>
                \/ Spend(1) /\ End(p, "failed")
    <2>0. proc[p].pc = "d_list" /\ UNCHANGED <<db, table, cfg, file, report, torn>>
        BY <1>a DEF At
    <2>1. CASE Go(p, "d_row") /\ UNCHANGED <<lock, left>>
      <3>1. Stays(p, "d_row")
          BY <2>1, GoEffect DEF Pcs
      <3>2. LeftType /\ CfgType /\ table' \subseteq Ids /\ torn' \subseteq Objs
          BY <2>0, <2>1, Unchanged
      <3>3. FileType
          BY <2>0, <2>1, Unchanged
      <3>4. db' \in SourceRows /\ ConfKept
          BY <2>0, <2>1, Unchanged
      <3>5. Quiet(p)
          BY <2>0, <2>1, <3>1, <3>2, <3>3, <3>4, GoStep DEF Pcs, Saving, Critical
      <3>6. Aside(p)
          BY <2>0, <2>1, <3>1 DEF Aside, Outside, Importing, Early, Building, Binding, Pcs, Stays
      <3> QED  BY <3>5, <3>6
    <2>2. CASE Spend(1) /\ End(p, "failed")
      <3>1. Quits(p)
          BY <2>2, EndEffect DEF Answers
      <3>2. LeftType
          BY <2>2, Spent
      <3>3. FileType
          BY <2>0, <2>2, Unchanged
      <3> QED  BY <2>0, <2>2, <3>1, <3>2, <3>3, EndStep
    <2> QED  BY <1>a, <2>1, <2>2
  <1>b. CASE /\ At(p, "d_row") /\ UNCHANGED <<table, file, report, torn>>
             /\ \/ Removal(p)
                \/ Spend(1) /\ End(p, "failed") /\ UNCHANGED <<db, cfg>>
    <2>0. proc[p].pc = "d_row" /\ UNCHANGED <<table, file, report, torn>>
        BY <1>b DEF At
    <2>1. CASE Removal(p)
      <3>1. Quits(p)
          BY <2>1, EndEffect DEF Answers, Removal
      <3>2. LeftType /\ FileType /\ table' \subseteq Ids /\ torn' \subseteq Objs
          BY <2>0, <2>1, Unchanged DEF Removal
      <3>3. CfgType
          BY <2>1 DEF CfgType, Removal, StateType
      <3>4. /\ ~db'.src["live"] /\ db'.bind = [db.bind EXCEPT !["live"] = 0]
            /\ db'.snap = [i \in Ids |-> IF i \in Rows("live") THEN NoSnap ELSE db.snap[i]]
            /\ db'.prof = [i \in Ids |-> IF i \in Rows("live") THEN "none" ELSE db.prof[i]]
            /\ cfg'.version = cfg.version /\ ~cfg'.on
          BY <2>1, <1>id, RemovalRows DEF Removal, StateType
      <3>5. db' \in SourceRows /\ ConfKept
          BY <2>1, <1>id, RemovalRows
      <3>6. Quiet(p)
          BY <2>0, <2>1, <3>1, <3>2, <3>3, <3>5, EndRowsStep
      <3>7. Deletes(p)
          BY <2>0, <2>1, <3>1, <3>4 DEF Deletes, Quits
      <3> QED  BY <3>6, <3>7
    <2>2. CASE Spend(1) /\ End(p, "failed") /\ UNCHANGED <<db, cfg>>
      <3>1. Quits(p)
          BY <2>2, EndEffect DEF Answers
      <3>2. LeftType
          BY <2>2, Spent
      <3>3. FileType
          BY <2>0, <2>2, Unchanged
      <3> QED  BY <2>0, <2>2, <3>1, <3>2, <3>3, EndStep
    <2> QED  BY <1>b, <2>1, <2>2
  <1> QED  BY <1>a, <1>b DEF DeleteWorkspaceSource, Removal

LEMMA UpsertSemanticAssetsStep ==
    ASSUME StateType, NEW p \in Procs, UpsertSemanticAssets(p)
    PROVE  Quiet(p) /\ (Aside(p) \/ Ends(p))
  <1>0. proc[p].pc = "c_asset" /\ UNCHANGED <<table, cfg, file, report, torn>>
      BY DEF UpsertSemanticAssets, At
  <1>id. proc[p].obj \in Objs /\ db \in SourceRows /\ proc[p].sel \subseteq Ids
      BY ProcFields DEF StateType
  <1>1. CASE /\ db' \in {db, [db EXCEPT !.asset = @ \cup {proc[p].id}]}
             /\ Go(p, "c_status") /\ UNCHANGED <<lock, left>>
    <2>1. Stays(p, "c_status")
        BY <1>0, <1>1, GoEffect DEF Pcs
    <2>2. LeftType /\ CfgType /\ FileType /\ torn' \subseteq Objs
        BY <1>0, <1>1, Unchanged
    <2>3. /\ db' \in SourceRows /\ db'.conf = db.conf /\ db'.src = db.src
          /\ db'.snap = db.snap /\ db'.prof = db.prof /\ db'.bind = db.bind
        BY <1>1, <1>id, ProcFields DEF SourceRows
    <2>4. table' \subseteq Ids
        BY <1>0, <1>1, Unchanged
    <2>5. Quiet(p)
        BY <1>0, <1>1, <2>1, <2>2, <2>3, <2>4, GoStep DEF Pcs, Saving, Critical, ConfKept
    <2>6. Aside(p)
        BY <1>0, <1>1, <2>1, <2>3 DEF Aside, Outside, Importing, Early, Building, Binding, Pcs, Stays
    <2> QED  BY <2>5, <2>6
  <1>2. CASE Spend(1) /\ End(p, "failed") /\ UNCHANGED db
    <2>1. Quits(p)
        BY <1>2, EndEffect DEF Answers
    <2>2. LeftType
        BY <1>2, Spent
    <2>3. FileType
        BY <1>0, <1>2, Unchanged
    <2> QED  BY <1>0, <1>2, <2>1, <2>2, <2>3, EndStep
  <1> QED  BY <1>1, <1>2 DEF UpsertSemanticAssets

LEMMA ConfirmStatusStep ==
    ASSUME StateType, NEW p \in Procs, ConfirmStatus(p)
    PROVE  Quiet(p) /\ (Aside(p) \/ Ends(p))
  <1>0. proc[p].pc = "c_status" /\ UNCHANGED <<table, cfg, file, report, torn>>
      BY DEF ConfirmStatus, At
  <1>id. proc[p].obj \in Objs /\ db \in SourceRows /\ proc[p].sel \subseteq Ids
      BY ProcFields DEF StateType
  <1>1. CASE /\ db' = IF db.prof[proc[p].id] = "none" THEN db ELSE [db EXCEPT !.prof[proc[p].id] = "confirmed"]
             /\ End(p, "ok") /\ UNCHANGED left
    <2>1. Quits(p)
        BY <1>1, EndEffect DEF Answers
    <2>2. LeftType /\ FileType /\ table' \subseteq Ids /\ torn' \subseteq Objs
        BY <1>0, <1>1, Unchanged
    <2>3. CfgType
        BY <1>0, <1>1, Unchanged
    <2>4. /\ db' \in SourceRows /\ db'.src = db.src /\ db'.snap = db.snap
          /\ db'.bind = db.bind /\ db'.conf = db.conf
          /\ \A i \in Ids : db.prof[i] # "none" => db'.prof[i] # "none"
        BY <1>1, <1>id DEF SourceRows
    <2>5. db' \in SourceRows /\ ConfKept
        BY <2>4 DEF ConfKept
    <2>6. Quiet(p)
        BY <1>0, <1>1, <2>1, <2>2, <2>3, <2>5, EndRowsStep
    <2>7. Aside(p)
        BY <1>0, <1>1, <2>1, <2>4 DEF Aside, Outside, Importing, Early, Building, Binding, Pcs, Quits, Stopped
    <2> QED  BY <2>6, <2>7
  <1>2. CASE Spend(1) /\ End(p, "failed") /\ UNCHANGED db
    <2>1. Quits(p)
        BY <1>2, EndEffect DEF Answers
    <2>2. LeftType
        BY <1>2, Spent
    <2>3. FileType
        BY <1>0, <1>2, Unchanged
    <2> QED  BY <1>0, <1>2, <2>1, <2>2, <2>3, EndStep
  <1> QED  BY <1>1, <1>2 DEF ConfirmStatus

LEMMA CreateConfiguredSourceStep ==
    ASSUME StateType, NEW p \in Procs, CreateConfiguredSource(p)
    PROVE  Quiet(p) /\ (CreatesSource(p) \/ Ends(p))
  <1>0. proc[p].pc = "n_row" /\ UNCHANGED <<table, cfg, file, report, torn>>
      BY DEF CreateConfiguredSource, At
  <1>id. proc[p].obj \in Objs /\ db \in SourceRows /\ proc[p].sel \subseteq Ids
      BY ProcFields DEF StateType
  <1>1. CASE db' = [db EXCEPT !.src["live"] = TRUE] /\ Go(p, "n_cfg") /\ UNCHANGED <<lock, left>>
    <2>1. Stays(p, "n_cfg")
        BY <1>0, <1>1, GoEffect DEF Pcs
    <2>2. LeftType /\ CfgType /\ FileType /\ torn' \subseteq Objs /\ table' \subseteq Ids
        BY <1>0, <1>1, Unchanged
    <2>3. /\ db' \in SourceRows /\ db'.conf = db.conf
          /\ db'.snap = db.snap /\ db'.prof = db.prof /\ db'.bind = db.bind
        BY <1>1, <1>id DEF SourceRows
    <2>4. Quiet(p)
        BY <1>0, <1>1, <2>1, <2>2, <2>3, GoStep DEF Pcs, Saving, Critical, ConfKept
    <2>5. CreatesSource(p)
        BY <1>0, <1>1, <2>1, <2>3 DEF CreatesSource, Stays, Passes
    <2> QED  BY <2>4, <2>5
  <1>2. CASE Spend(1) /\ End(p, "failed") /\ UNCHANGED db
    <2>1. Quits(p)
        BY <1>2, EndEffect DEF Answers
    <2>2. LeftType
        BY <1>2, Spent
    <2>3. FileType
        BY <1>0, <1>2, Unchanged
    <2> QED  BY <1>0, <1>2, <2>1, <2>2, <2>3, EndStep
  <1> QED  BY <1>1, <1>2 DEF CreateConfiguredSource

LEMMA CreateSourceConfigStep ==
    ASSUME StateType, NEW p \in Procs, CreateSourceConfig(p)
    PROVE  Quiet(p) /\ (Aside(p) \/ Ends(p))
  <1>0. proc[p].pc = "n_cfg" /\ UNCHANGED <<db, table, file, report, torn>>
      BY DEF CreateSourceConfig, At
  <1>1. CASE /\ db.src["live"]
             /\ \E a \in BOOLEAN : cfg' = [on |-> TRUE, allow |-> a, version |-> 1, tested |-> 0]
             /\ End(p, "ok") /\ UNCHANGED left
    <2>1. Quits(p)
        BY <1>1, EndEffect DEF Answers
    <2>2. LeftType /\ FileType /\ table' \subseteq Ids /\ torn' \subseteq Objs
        BY <1>0, <1>1, Unchanged
    <2>3. CfgType
        BY <1>1 DEF CfgType
    <2>4. cfg'.version > 0
        BY <1>1
    <2>5. db' \in SourceRows /\ ConfKept
        BY <1>0, <1>1, Unchanged
    <2>6. Quiet(p)
        BY <1>0, <1>1, <2>1, <2>2, <2>3, <2>5, EndRowsStep
    <2>7. Aside(p)
        BY <1>0, <1>1, <2>1, <2>4 DEF Aside, Outside, Importing, Early, Building, Binding, Pcs, Quits, Stopped
    <2> QED  BY <2>6, <2>7
  <1>2. CASE /\ (IF db.src["live"] THEN Spend(1) ELSE UNCHANGED left)
             /\ End(p, "failed") /\ UNCHANGED cfg
    <2>1. Quits(p)
        BY <1>2, EndEffect DEF Answers
    <2>2. LeftType
        BY <1>2, Spent, Unchanged
    <2>3. FileType
        BY <1>0, <1>2, Unchanged
    <2> QED  BY <1>0, <1>2, <2>1, <2>2, <2>3, EndStep
  <1> QED  BY <1>1, <1>2 DEF CreateSourceConfig

LEMMA NormalizeConfigStep ==
    ASSUME StateType, NEW p \in Procs, NormalizeConfig(p)
    PROVE  Quiet(p) /\ (Aside(p) \/ Ends(p))
  <1>0. proc[p].pc = "e_read" /\ UNCHANGED <<db, table, cfg, file, report, torn>>
      BY DEF NormalizeConfig, At
  <1>1. ASSUME NEW to \in {"e_write", "e_name"}, Go(p, to), UNCHANGED <<lock, left>>
        PROVE  Quiet(p) /\ Aside(p)
    <2>1. Stays(p, to)
        BY <1>1, GoEffect DEF Pcs
    <2>2. LeftType /\ CfgType /\ table' \subseteq Ids /\ torn' \subseteq Objs
        BY <1>0, <1>1, Unchanged
    <2>3. FileType
        BY <1>0, <1>1, Unchanged
    <2>4. db' \in SourceRows /\ ConfKept
        BY <1>0, <1>1, Unchanged
    <2>5. Quiet(p)
        BY <1>0, <1>1, <2>1, <2>2, <2>3, <2>4, GoStep DEF Pcs, Saving, Critical
    <2>6. Aside(p)
        BY <1>0, <1>1, <2>1 DEF Aside, Outside, Importing, Early, Building, Binding, Pcs, Stays
    <2> QED  BY <2>5, <2>6
  <1>2. CASE End(p, "failed") /\ UNCHANGED left
    <2>1. Quits(p)
        BY <1>2, EndEffect DEF Answers
    <2>2. LeftType
        BY <1>2, Unchanged
    <2>3. FileType
        BY <1>0, <1>2, Unchanged
    <2> QED  BY <1>0, <1>2, <2>1, <2>2, <2>3, EndStep
  <1>3. CASE Spend(1) /\ End(p, "failed")
    <2>1. Quits(p)
        BY <1>3, EndEffect DEF Answers
    <2>2. LeftType
        BY <1>3, Spent
    <2>3. FileType
        BY <1>0, <1>3, Unchanged
    <2> QED  BY <1>0, <1>3, <2>1, <2>2, <2>3, EndStep
  <1> QED  BY <1>1, <1>2, <1>3 DEF NormalizeConfig

LEMMA UpdateDataSourceStep ==
    ASSUME StateType, NEW p \in Procs, UpdateDataSource(p)
    PROVE  Quiet(p) /\ (Aside(p) \/ Ends(p))
  <1>0. proc[p].pc \in {"e_write", "e_name"} /\ UNCHANGED <<db, table, file, report, torn>>
      BY DEF UpdateDataSource, At
  <1>c. cfg \in [on : BOOLEAN, allow : BOOLEAN, version : Nat, tested : Nat]
      BY DEF StateType
  <1>1. CASE /\ \E a \in BOOLEAN :
                  cfg' = IF cfg.on THEN [cfg EXCEPT !.allow = a, !.version = @ + 1, !.tested = 0]
                         ELSE cfg
             /\ Go(p, "e_name") /\ UNCHANGED <<lock, left>>
    <2>1. Stays(p, "e_name")
        BY <1>1, GoEffect DEF Pcs
    <2>2. LeftType /\ FileType /\ table' \subseteq Ids /\ torn' \subseteq Objs
        BY <1>0, <1>1, Unchanged
    <2>3. CfgType
        <3>1. PICK a \in BOOLEAN :
                cfg' = IF cfg.on THEN [cfg EXCEPT !.allow = a, !.version = @ + 1, !.tested = 0]
                       ELSE cfg
            BY <1>1
        <3>2. cfg.version + 1 \in Nat
            BY <1>c
        <3>3. [cfg EXCEPT !.allow = a, !.version = cfg.version + 1, !.tested = 0]
                \in [on : BOOLEAN, allow : BOOLEAN, version : Nat, tested : Nat]
            BY <1>c, <3>2
        <3> QED  BY <1>c, <3>1, <3>3 DEF CfgType
    <2>4. cfg' = cfg \/ (cfg.on /\ cfg'.version > 0)
        BY <1>1, <1>c
    <2>5. db' \in SourceRows /\ ConfKept
        BY <1>0, <1>1, Unchanged
    <2>6. Quiet(p)
        BY <1>0, <1>1, <2>1, <2>2, <2>3, <2>5, GoStep DEF Pcs, Saving, Critical
    <2>7. Aside(p)
        BY <1>0, <1>1, <2>1, <2>4 DEF Aside, Outside, Importing, Early, Building, Binding, Pcs, Stays
    <2> QED  BY <2>6, <2>7
  <1>2. CASE End(p, "ok") /\ UNCHANGED <<cfg, left>>
    <2>1. Quits(p)
        BY <1>2, EndEffect DEF Answers
    <2>2. LeftType
        BY <1>2, Unchanged
    <2>3. FileType
        BY <1>0, <1>2, Unchanged
    <2> QED  BY <1>0, <1>2, <2>1, <2>2, <2>3, EndStep
  <1>3. CASE Spend(1) /\ End(p, "failed") /\ UNCHANGED cfg
    <2>1. Quits(p)
        BY <1>3, EndEffect DEF Answers
    <2>2. LeftType
        BY <1>3, Spent
    <2>3. FileType
        BY <1>0, <1>3, Unchanged
    <2> QED  BY <1>0, <1>3, <2>1, <2>2, <2>3, EndStep
  <1> QED  BY <1>1, <1>2, <1>3 DEF UpdateDataSource

LEMMA TestConnectionStep ==
    ASSUME StateType, NEW p \in Procs, TestConnection(p)
    PROVE  Quiet(p) /\ Aside(p)
  <1>0. proc[p].pc = "t_run" /\ UNCHANGED <<db, table, cfg, file, report, torn, lock, left>>
      BY DEF TestConnection, At
  <1>1. PICK v \in Nat : proc' = [proc EXCEPT ![p].pc = "t_write", ![p].id = v]
      BY DEF TestConnection, StateType
  <1>2. proc \in [Procs -> Requests] /\ proc[p] \in Requests
      BY DEF StateType
  <1> DEFINE r == [proc[p] EXCEPT !.pc = "t_write", !.id = v]
  <1>3. proc' = [proc EXCEPT ![p] = r]
      BY <1>1, <1>2
  <1>4. r \in Requests /\ r.pc = "t_write" /\ r.sel = proc[p].sel /\ r.tag = proc[p].tag
      BY <1>2 DEF Requests, Pcs
  <1> HIDE DEF r
  <1>5. /\ proc' \in [Procs -> Requests] /\ proc'[p].pc = "t_write" /\ proc'[p].sel = proc[p].sel
        /\ proc'[p].tag = proc[p].tag /\ \A q \in Procs \ {p} : proc'[q] = proc[q]
      BY <1>2, <1>3, <1>4
  <1>6. Moves(p)
      BY <1>0, <1>5 DEF Moves, Critical
  <1>7. StateType'
      BY <1>0, <1>5 DEF StateType
  <1>8. NoReceipt(p) /\ NoReport(p)
      BY <1>0, <1>5 DEF NoReceipt, ConfKept, NoReport, Saving
  <1>9. Aside(p)
      BY <1>0, <1>5 DEF Aside, Outside, Importing, Early, Building, Binding, Pcs
  <1> QED  BY <1>6, <1>7, <1>8, <1>9 DEF Quiet

LEMMA TestDataSourceStep ==
    ASSUME StateType, CreationInv, NEW p \in Procs, TestDataSource(p)
    PROVE  Quiet(p) /\ (Aside(p) \/ Ends(p))
  <1>0. proc[p].pc = "t_write" /\ UNCHANGED <<db, table, file, report, torn>>
      BY DEF TestDataSource, At
  <1>c. cfg \in [on : BOOLEAN, allow : BOOLEAN, version : Nat, tested : Nat]
      BY DEF StateType
  <1>1. CASE /\ cfg' = IF cfg.on THEN [cfg EXCEPT !.tested = proc[p].id] ELSE cfg
             /\ End(p, "ok") /\ UNCHANGED left
    <2>1. Quits(p)
        BY <1>1, EndEffect DEF Answers
    <2>2. LeftType /\ FileType /\ table' \subseteq Ids /\ torn' \subseteq Objs
        BY <1>0, <1>1, Unchanged
    <2>3. CfgType
        BY <1>1, <1>c, ProcFields DEF CfgType
    <2>4. cfg' = cfg \/ (cfg.on /\ cfg'.version = cfg.version)
        BY <1>1, <1>c
    <2>5. db' \in SourceRows /\ ConfKept
        BY <1>0, <1>1, Unchanged
    <2>6. Quiet(p)
        BY <1>0, <1>1, <2>1, <2>2, <2>3, <2>5, EndRowsStep
    <2>7. Aside(p)
        BY <1>0, <1>1, <1>c, <2>1, <2>4 DEF Aside, Outside, Importing, Early, Building, Binding, Pcs, Quits, Stopped, CreationInv
    <2> QED  BY <2>6, <2>7
  <1>2. CASE Spend(1) /\ End(p, "failed") /\ UNCHANGED cfg
    <2>1. Quits(p)
        BY <1>2, EndEffect DEF Answers
    <2>2. LeftType
        BY <1>2, Spent
    <2>3. FileType
        BY <1>0, <1>2, Unchanged
    <2> QED  BY <1>0, <1>2, <2>1, <2>2, <2>3, EndStep
  <1> QED  BY <1>1, <1>2 DEF TestDataSource

LEMMA GetSessionSourcesStep ==
    ASSUME StateType, NEW p \in Procs, GetSessionSources(p)
    PROVE  Quiet(p) /\ (Ends(p))
  <1>0. proc[p].pc = "l_read" /\ UNCHANGED <<db, table, cfg, file, report, torn>>
      BY DEF GetSessionSources, At
  <1>1. CASE (\E r \in {"ok", "partial"} : End(p, r)) /\ UNCHANGED left
    <2>1. Quits(p)
        BY <1>1, EndEffect DEF Answers
    <2>2. LeftType
        BY <1>1, Unchanged
    <2>3. FileType
        BY <1>0, <1>1, Unchanged
    <2> QED  BY <1>0, <1>1, <2>1, <2>2, <2>3, EndStep
  <1>2. CASE Spend(1) /\ End(p, "failed")
    <2>1. Quits(p)
        BY <1>2, EndEffect DEF Answers
    <2>2. LeftType
        BY <1>2, Spent
    <2>3. FileType
        BY <1>0, <1>2, Unchanged
    <2> QED  BY <1>0, <1>2, <2>1, <2>2, <2>3, EndStep
  <1> QED  BY <1>1, <1>2 DEF GetSessionSources

LEMMA ExecuteSessionLiveQueryStep ==
    ASSUME StateType, NEW p \in Procs, ExecuteSessionLiveQuery(p)
    PROVE  Quiet(p) /\ (Ends(p))
  <1>0. proc[p].pc = "q_read" /\ UNCHANGED <<db, table, cfg, file, report, torn>>
      BY DEF ExecuteSessionLiveQuery, At
  <1>1. CASE (\E r \in {"ok", "refused"} : End(p, r)) /\ UNCHANGED left
    <2>1. Quits(p)
        BY <1>1, EndEffect DEF Answers
    <2>2. LeftType
        BY <1>1, Unchanged
    <2>3. FileType
        BY <1>0, <1>1, Unchanged
    <2> QED  BY <1>0, <1>1, <2>1, <2>2, <2>3, EndStep
  <1>2. CASE Spend(1) /\ End(p, "failed")
    <2>1. Quits(p)
        BY <1>2, EndEffect DEF Answers
    <2>2. LeftType
        BY <1>2, Spent
    <2>3. FileType
        BY <1>0, <1>2, Unchanged
    <2> QED  BY <1>0, <1>2, <2>1, <2>2, <2>3, EndStep
  <1> QED  BY <1>1, <1>2 DEF ExecuteSessionLiveQuery

\* The two steps of a confirmation that read or write the confirmations.
Looks(p) ==
  /\ proc[p].pc = "c_look" /\ ConfKept
  /\ proc'[p].pc \notin {"c_look", "c_row"} \/ Keeps(p)
  /\ proc'[p].pc # "c_look"
  /\ proc'[p].pc = "c_row" /\ proc'[p].tag = "receipt" => db'.conf[proc[p].id].receipt = 0

Confirms(p) ==
  /\ proc[p].pc = "c_row" /\ proc'[p].pc \notin {"c_look", "c_row"}
  /\ \A i \in Ids :
       \/ db'.conf[i].receipt = db.conf[i].receipt
       \/ i = proc[p].id /\ proc[p].tag = "receipt" /\ db'.conf[i].receipt = db.conf[i].receipt + 1

Told(p) == Moves(p) /\ StateType' /\ NoReport(p)

LEMMA EndTold ==
    ASSUME NEW p \in Procs, Quiet(p), Ends(p), db' = db, proc[p].pc \in {"c_look", "c_row"}
    PROVE  Told(p) /\ (Aside(p) \/ Ends(p)) /\ (Looks(p) \/ Confirms(p))
  BY DEF Quiet, Told, NoReceipt, Looks, Confirms

LEMMA ConfirmLookStep ==
    ASSUME StateType, NEW p \in Procs, ConfirmLook(p), ReceiptInv
    PROVE  Told(p) /\ (Aside(p) \/ Ends(p)) /\ (Looks(p) \/ Confirms(p))
  <1>0. proc[p].pc = "c_look" /\ UNCHANGED <<db, table, cfg, file, report, torn>>
      BY DEF ConfirmLook, At
  <1>id. proc[p].id \in Ids
      BY <1>0 DEF ReceiptInv
  <1> DEFINE again == proc[p].tag = "receipt" /\ db.conf[proc[p].id].receipt > 0
             to == IF again THEN "c_asset" ELSE "c_row"
  <1>to. to \in {"c_asset", "c_row"} /\ (to = "c_row" => ~again)
      OBVIOUS
  <1>1. CASE Go(p, to) /\ UNCHANGED <<lock, left>>
    <2> HIDE DEF to
    <2>1. Stays(p, to)
        BY <1>1, <1>to, GoEffect DEF Pcs
    <2>2. Moves(p)
        BY <1>0, <1>1, <1>to, <2>1 DEF Moves, Stays, Critical
    <2>3. StateType'
        BY <1>0, <1>1, <2>1 DEF StateType, Stays
    <2>4. NoReport(p)
        BY <1>0, <1>to, <2>1 DEF NoReport, Stays, Saving
    <2>5. Aside(p)
        BY <1>0, <1>to, <2>1 DEF Aside, Outside, Importing, Early, Building, Binding, Pcs, Stays
    <2>6. db.conf[proc[p].id].receipt \in Nat
        BY <1>id, DbFields DEF StateType
    <2>7. Looks(p)
        BY <1>0, <1>to, <2>1, <2>6 DEF Looks, ConfKept, Stays, Keeps
    <2> QED  BY <2>2, <2>3, <2>4, <2>5, <2>7 DEF Told
  <1>2. CASE (UNCHANGED left \/ Spend(1)) /\ End(p, "failed")
    <2>1. Quits(p)
        BY <1>2, EndEffect DEF Answers
    <2>2. LeftType /\ FileType
        BY <1>0, <1>2, Spent, Unchanged
    <2> QED  BY <1>0, <2>1, <2>2, EndStep, EndTold
  <1> QED  BY <1>1, <1>2 DEF ConfirmLook

LEMMA ConfirmCreateStep ==
    ASSUME StateType, NEW p \in Procs, ConfirmCreate(p), ReceiptInv
    PROVE  Told(p) /\ (Aside(p) \/ Ends(p)) /\ (Looks(p) \/ Confirms(p))
  <1>0. proc[p].pc = "c_row" /\ UNCHANGED <<table, cfg, file, report, torn>>
      BY DEF ConfirmCreate, At
  <1>id. proc[p].id \in Ids /\ db \in SourceRows
      BY <1>0 DEF ReceiptInv, StateType
  <1> DEFINE i == proc[p].id
             kind == IF proc[p].tag = "receipt" THEN "receipt" ELSE "plain"
  <1>1. CASE db' = [db EXCEPT !.conf[i][kind] = @ + 1] /\ Go(p, "c_asset") /\ UNCHANGED <<lock, left>>
    <2>1. Stays(p, "c_asset")
        BY <1>1, GoEffect DEF Pcs
    <2> DEFINE c == [db.conf[i] EXCEPT ![kind] = @ + 1]
    <2>2. db.conf[i] \in [receipt : Nat, plain : Nat]
        BY <1>id, DbFields
    <2>3. c \in [receipt : Nat, plain : Nat]
        BY <2>2
    <2>4. c.receipt = IF proc[p].tag = "receipt" THEN db.conf[i].receipt + 1 ELSE db.conf[i].receipt
        BY <2>2
    <2>5. db' = [db EXCEPT !.conf[i] = c]
        BY <1>1, <1>id DEF SourceRows
    <2> HIDE DEF c, kind
    <2>6. /\ db'.src = db.src /\ db'.snap = db.snap /\ db'.prof = db.prof /\ db'.bind = db.bind
          /\ db'.conf = [db.conf EXCEPT ![i] = c]
        BY <1>id, <2>5 DEF SourceRows
    <2>7. db'.conf \in [Ids -> [receipt : Nat, plain : Nat]]
        BY <1>id, <2>3, <2>6, DbFields
    <2>8. db' \in SourceRows
        BY <1>id, <2>5, <2>6, <2>7 DEF SourceRows
    <2>9. Moves(p)
        BY <1>0, <1>1, <2>1 DEF Moves, Stays, Critical
    <2>10. StateType'
        BY <1>0, <1>1, <2>1, <2>8 DEF StateType, Stays
    <2>11. NoReport(p)
        BY <1>0, <2>1 DEF NoReport, Stays, Saving
    <2>12. Aside(p)
        BY <1>0, <2>1, <2>6 DEF Aside, Outside, Importing, Early, Building, Binding, Pcs, Stays
    <2>13. Confirms(p)
      <3>1. proc'[p].pc \notin {"c_look", "c_row"}
          BY <2>1 DEF Stays
      <3>2. ASSUME NEW j \in Ids
            PROVE  \/ db'.conf[j].receipt = db.conf[j].receipt
                   \/ j = proc[p].id /\ proc[p].tag = "receipt" /\ db'.conf[j].receipt = db.conf[j].receipt + 1
        <4>1. CASE j = i
          <5>1. db'.conf[j] = c
              BY <1>id, <2>6, <4>1, DbFields
          <5> QED  BY <2>4, <4>1, <5>1
        <4>2. CASE j # i
          <5>1. db'.conf[j] = db.conf[j]
              BY <1>id, <2>6, <4>2, DbFields
          <5> QED  BY <5>1
        <4> QED  BY <4>1, <4>2
      <3> QED  BY <1>0, <3>1, <3>2 DEF Confirms
    <2> QED  BY <2>9, <2>10, <2>11, <2>12, <2>13 DEF Told
  <1>2. CASE (IF db.prof[i] # "none" THEN Spend(1) ELSE UNCHANGED left) /\ End(p, "failed") /\ UNCHANGED db
    <2>1. Quits(p)
        BY <1>2, EndEffect DEF Answers
    <2>2. LeftType /\ FileType
        BY <1>0, <1>2, Spent, Unchanged
    <2> QED  BY <1>0, <1>2, <2>1, <2>2, EndStep, EndTold
  <1> QED  BY <1>1, <1>2 DEF ConfirmCreate

\* The report: its steps, and what they have to keep.
ReportType == report' \in [object : BOOLEAN, file : BOOLEAN, row : BOOLEAN, ref : BOOLEAN]
Saved(p) == Moves(p) /\ StateType' /\ NoReceipt(p) /\ ReportInv'

SaveFacts(pc, r) ==
  /\ r.ref => r.file /\ r.object
  /\ pc \in {"s_put", "s_meta", "s_report", "s_bind"} => ~r.ref
  /\ pc \in {"s_meta", "s_report", "s_bind"} => r.object
  /\ pc \in {"s_report", "s_bind"} => r.file

LEMMA SaveInv ==
    ASSUME ReportInv, NEW p \in Procs, proc[p].pc \in Saving, Moves(p),
           proc'[p].pc \in Saving => proc'[p].tag = proc[p].tag, SaveFacts(proc'[p].pc, report')
    PROVE  ReportInv'
  <1>1. proc[p].tag = "report"
      BY DEF ReportInv
  <1>2. \A q \in Procs \ {p} : proc[q].tag # "report" /\ proc[q].pc \notin Saving
      BY <1>1 DEF ReportInv
  <1>3. \A q \in Procs \ {p} : proc'[q] = proc[q]
      BY DEF Moves
  <1>4. BoundReportDownloadable'
      BY DEF SaveFacts, BoundReportDownloadable
  <1>5. \A q, r \in Procs : proc'[q].tag = "report" /\ proc'[r].tag = "report" => q = r
      BY <1>2, <1>3
  <1>6. ASSUME NEW q \in Procs
        PROVE  /\ proc'[q].pc \in Saving => proc'[q].tag = "report"
               /\ proc'[q].pc \in {"s_put", "s_meta", "s_report", "s_bind"} => ~report'.ref
               /\ proc'[q].pc \in {"s_meta", "s_report", "s_bind"} => report'.object
               /\ proc'[q].pc \in {"s_report", "s_bind"} => report'.file
    <2>1. CASE q = p
        BY <1>1, <2>1 DEF SaveFacts
    <2>2. CASE q # p
        BY <1>2, <1>3, <2>2 DEF Saving
    <2> QED  BY <2>1, <2>2
  <1> QED  BY <1>4, <1>5, <1>6 DEF ReportInv

LEMMA SaveGo ==
    ASSUME StateType, ReportInv, NEW p \in Procs, proc[p].pc \in Saving, NEW pc \in Saving, Go(p, pc),
           UNCHANGED <<lock, left, db, table, cfg, file, torn>>, ReportType, SaveFacts(pc, report')
    PROVE  Saved(p) /\ Aside(p)
  <1>1. Stays(p, pc)
      BY GoEffect DEF Pcs, Saving
  <1>2. Moves(p)
      BY <1>1 DEF Moves, Stays, Saving, Critical
  <1>3. StateType'
      BY <1>1 DEF StateType, Stays, ReportType
  <1>4. NoReceipt(p)
      BY <1>1 DEF NoReceipt, ConfKept, Stays, Saving
  <1>5. ReportInv'
      BY <1>1, <1>2, SaveInv DEF Stays
  <1>6. Aside(p)
      BY <1>1 DEF Aside, Outside, Importing, Early, Building, Binding, Pcs, Stays, Saving
  <1> QED  BY <1>2, <1>3, <1>4, <1>5, <1>6 DEF Saved

LEMMA SaveEnd ==
    ASSUME StateType, ReportInv, NEW p \in Procs, proc[p].pc \in Saving, NEW res \in Answers, End(p, res),
           LeftType, UNCHANGED <<db, table, cfg, file, torn>>, ReportType, SaveFacts("idle", report')
    PROVE  Saved(p) /\ Ends(p)
  <1>1. Quits(p)
      BY EndEffect
  <1>2. Moves(p)
      BY <1>1 DEF Moves, Quits, Stopped, LeftType
  <1>3. lock' \in Procs \cup {NoProc}
      BY <1>1 DEF Quits, Freed, StateType
  <1>4. StateType'
      BY <1>1, <1>3 DEF StateType, Quits, ReportType, LeftType
  <1>5. NoReceipt(p)
      BY <1>1 DEF NoReceipt, ConfKept, Quits, Stopped
  <1>6. ReportInv'
      BY <1>1, <1>2, SaveInv DEF Quits, Stopped, Saving
  <1>7. Ends(p)
      BY <1>1 DEF Ends, Frame, SourceKept, Quits
  <1> QED  BY <1>2, <1>4, <1>5, <1>6, <1>7 DEF Saved

LEMMA Unsaved ==
    ASSUME StateType, ReportInv, report' = report
    PROVE  ReportType /\ SaveFacts("idle", report')
  BY DEF StateType, ReportType, SaveFacts, ReportInv, BoundReportDownloadable

LEMMA ReplaceReportRowStep ==
    ASSUME StateType, ReportInv, NEW p \in Procs, ReplaceReportRow(p)
    PROVE  Saved(p) /\ (Aside(p) \/ Ends(p))
  <1>0. proc[p].pc = "s_row" /\ proc[p].pc \in Saving /\ UNCHANGED <<db, table, cfg, file, torn>>
      BY DEF ReplaceReportRow, At, Saving
  <1>r. /\ report \in [object : BOOLEAN, file : BOOLEAN, row : BOOLEAN, ref : BOOLEAN]
        /\ SaveFacts("s_row", report)
      BY <1>0 DEF StateType, ReportInv, BoundReportDownloadable, SaveFacts
  <1>1. CASE report' = [report EXCEPT !.row = FALSE] /\ Go(p, "s_file") /\ UNCHANGED <<lock, left>>
    <2>1. ReportType /\ SaveFacts("s_file", report')
        BY <1>1, <1>r DEF ReportType, SaveFacts
    <2> QED  BY <1>0, <1>1, <2>1, SaveGo DEF Saving
  <1>2. CASE Spend(1) /\ End(p, "failed") /\ UNCHANGED report
      BY <1>0, <1>2, Spent, Unsaved, SaveEnd DEF Answers
  <1> QED  BY <1>1, <1>2 DEF ReplaceReportRow

LEMMA ReplaceReportFileStep ==
    ASSUME StateType, ReportInv, NEW p \in Procs, ReplaceReportFile(p)
    PROVE  Saved(p) /\ (Aside(p) \/ Ends(p))
  <1>0. proc[p].pc = "s_file" /\ proc[p].pc \in Saving /\ UNCHANGED <<db, table, cfg, file, torn>>
      BY DEF ReplaceReportFile, At, Saving
  <1>r. /\ report \in [object : BOOLEAN, file : BOOLEAN, row : BOOLEAN, ref : BOOLEAN]
        /\ SaveFacts("s_file", report)
      BY <1>0 DEF StateType, ReportInv, BoundReportDownloadable, SaveFacts
  <1>1. CASE report' = [report EXCEPT !.file = FALSE, !.ref = FALSE] /\ Go(p, "s_put") /\ UNCHANGED <<lock, left>>
    <2>1. ReportType /\ SaveFacts("s_put", report')
        BY <1>1, <1>r DEF ReportType, SaveFacts
    <2> QED  BY <1>0, <1>1, <2>1, SaveGo DEF Saving
  <1>2. CASE Spend(1) /\ End(p, "failed") /\ UNCHANGED report
      BY <1>0, <1>2, Spent, Unsaved, SaveEnd DEF Answers
  <1> QED  BY <1>1, <1>2 DEF ReplaceReportFile

LEMMA PutReportStep ==
    ASSUME StateType, ReportInv, NEW p \in Procs, PutReport(p)
    PROVE  Saved(p) /\ (Aside(p) \/ Ends(p))
  <1>0. proc[p].pc = "s_put" /\ proc[p].pc \in Saving /\ UNCHANGED <<db, table, cfg, file, torn>>
      BY DEF PutReport, At, Saving
  <1>r. /\ report \in [object : BOOLEAN, file : BOOLEAN, row : BOOLEAN, ref : BOOLEAN]
        /\ SaveFacts("s_put", report)
      BY <1>0 DEF StateType, ReportInv, BoundReportDownloadable, SaveFacts
  <1>1. CASE report' = [report EXCEPT !.object = TRUE] /\ Go(p, "s_meta") /\ UNCHANGED <<lock, left>>
    <2>1. ReportType /\ SaveFacts("s_meta", report')
        BY <1>1, <1>r DEF ReportType, SaveFacts
    <2> QED  BY <1>0, <1>1, <2>1, SaveGo DEF Saving
  <1>2. CASE Spend(1) /\ End(p, "failed") /\ UNCHANGED report
      BY <1>0, <1>2, Spent, Unsaved, SaveEnd DEF Answers
  <1> QED  BY <1>1, <1>2 DEF PutReport

LEMMA CreateReportFileStep ==
    ASSUME StateType, ReportInv, NEW p \in Procs, CreateReportFile(p)
    PROVE  Saved(p) /\ (Aside(p) \/ Ends(p))
  <1>0. proc[p].pc = "s_meta" /\ proc[p].pc \in Saving /\ UNCHANGED <<db, table, cfg, file, torn>>
      BY DEF CreateReportFile, At, Saving
  <1>r. /\ report \in [object : BOOLEAN, file : BOOLEAN, row : BOOLEAN, ref : BOOLEAN]
        /\ SaveFacts("s_meta", report)
      BY <1>0 DEF StateType, ReportInv, BoundReportDownloadable, SaveFacts
  <1>1. CASE report' = [report EXCEPT !.file = TRUE] /\ Go(p, "s_report") /\ UNCHANGED <<lock, left>>
    <2>1. ReportType /\ SaveFacts("s_report", report')
        BY <1>1, <1>r DEF ReportType, SaveFacts
    <2> QED  BY <1>0, <1>1, <2>1, SaveGo DEF Saving
  <1>2. CASE /\ \E keep \in BOOLEAN :
                  /\ Spend((IF report.file THEN 0 ELSE 1) + (IF keep THEN 1 ELSE 0))
                  /\ report' = [report EXCEPT !.object = keep]
             /\ End(p, "failed")
    <2>1. ReportType /\ SaveFacts("idle", report')
        BY <1>2, <1>r DEF ReportType, SaveFacts
    <2>2. LeftType
        <3>1. PICK k \in 0 .. 2 : Spend(k)
            BY <1>2
        <3> QED  BY <3>1, Spent
    <2> QED  BY <1>0, <1>2, <2>1, <2>2, SaveEnd DEF Answers
  <1> QED  BY <1>1, <1>2 DEF CreateReportFile

LEMMA SaveReportHTMLStep ==
    ASSUME StateType, ReportInv, NEW p \in Procs, SaveReportHTML(p)
    PROVE  Saved(p) /\ (Aside(p) \/ Ends(p))
  <1>0. proc[p].pc = "s_report" /\ proc[p].pc \in Saving /\ UNCHANGED <<db, table, cfg, file, torn>>
      BY DEF SaveReportHTML, At, Saving
  <1>r. /\ report \in [object : BOOLEAN, file : BOOLEAN, row : BOOLEAN, ref : BOOLEAN]
        /\ SaveFacts("s_report", report)
      BY <1>0 DEF StateType, ReportInv, BoundReportDownloadable, SaveFacts
  <1>1. CASE report' = [report EXCEPT !.row = TRUE] /\ Go(p, "s_bind") /\ UNCHANGED <<lock, left>>
    <2>1. ReportType /\ SaveFacts("s_bind", report')
        BY <1>1, <1>r DEF ReportType, SaveFacts
    <2> QED  BY <1>0, <1>1, <2>1, SaveGo DEF Saving
  <1>2. CASE /\ \E keepObject, keepFile \in BOOLEAN :
                  /\ Spend(1 + (IF keepObject THEN 1 ELSE 0) + (IF keepFile THEN 1 ELSE 0))
                  /\ report' = [report EXCEPT !.object = keepObject, !.file = keepFile]
             /\ End(p, "failed")
    <2>1. ReportType /\ SaveFacts("idle", report')
        BY <1>2, <1>r DEF ReportType, SaveFacts
    <2>2. LeftType
        <3>1. PICK k \in 1 .. 3 : Spend(k)
            BY <1>2
        <3> QED  BY <3>1, Spent
    <2> QED  BY <1>0, <1>2, <2>1, <2>2, SaveEnd DEF Answers
  <1> QED  BY <1>1, <1>2 DEF SaveReportHTML

LEMMA BindReportFileStep ==
    ASSUME StateType, ReportInv, NEW p \in Procs, BindReportFile(p)
    PROVE  Saved(p) /\ (Aside(p) \/ Ends(p))
  <1>0. proc[p].pc = "s_bind" /\ proc[p].pc \in Saving /\ UNCHANGED <<db, table, cfg, file, torn>>
      BY DEF BindReportFile, At, Saving
  <1>r. /\ report \in [object : BOOLEAN, file : BOOLEAN, row : BOOLEAN, ref : BOOLEAN]
        /\ SaveFacts("s_bind", report)
      BY <1>0 DEF StateType, ReportInv, BoundReportDownloadable, SaveFacts
  <1>1. CASE report' = [report EXCEPT !.ref = TRUE] /\ End(p, "ok") /\ UNCHANGED left
    <2>1. ReportType /\ SaveFacts("idle", report')
        BY <1>1, <1>r DEF ReportType, SaveFacts
    <2>2. LeftType
        BY <1>1, Unchanged
    <2> QED  BY <1>0, <1>1, <2>1, <2>2, SaveEnd DEF Answers
  <1>2. CASE DeleteReportFile(1) /\ End(p, "failed")
    <2>1. ReportType /\ SaveFacts("idle", report')
        BY <1>2, <1>r DEF ReportType, SaveFacts, DeleteReportFile
    <2>2. LeftType
        <3>1. \E n \in Nat : Spend(1 + n)
          <4>1. PICK o, f, r, found \in BOOLEAN :
                  Spend(1 + (IF f THEN 1 ELSE 0)
                          + (IF found THEN (IF o THEN 1 ELSE 0) + (IF r THEN 1 ELSE 0) ELSE 1))
              BY <1>2 DEF DeleteReportFile
          <4> DEFINE a == IF f THEN 1 ELSE 0
                     b == IF found THEN (IF o THEN 1 ELSE 0) + (IF r THEN 1 ELSE 0) ELSE 1
          <4>2. a \in Nat /\ b \in Nat /\ Spend(1 + a + b)
              BY <4>1
          <4> HIDE DEF a, b
          <4>3. a + b \in Nat /\ 1 + a + b = 1 + (a + b)
              BY <4>2
          <4> QED  BY <4>2, <4>3
        <3> QED  BY <3>1, Spent
    <2> QED  BY <1>0, <1>2, <2>1, <2>2, SaveEnd DEF Answers
  <1> QED  BY <1>1, <1>2 DEF BindReportFile

-----------------------------------------------------------------------------
(* Arrivals.                                                               *)

LEMMA EnterEffect ==
    ASSUME StateType, NEW p \in Procs, NEW op, NEW rec \in Requests, Enter(p, op, rec)
    PROVE  /\ StateType' /\ proc'[p] = rec /\ \A q \in Procs \ {p} : proc'[q] = proc[q]
           /\ proc[p].pc = "idle" /\ left.ops > 0 /\ left'.ops = left.ops - 1
           /\ UNCHANGED <<db, table, cfg, file, report, lock, torn>>
  <1>1. /\ proc[p].pc = "idle" /\ left.ops > 0 /\ left' = [left EXCEPT !.ops = @ - 1]
        /\ proc' = [proc EXCEPT ![p] = rec] /\ UNCHANGED <<db, table, cfg, file, report, lock, torn>>
      BY DEF Enter, Busy
  <1>2. left \in [faults : Nat, ops : 0..MaxOps] /\ proc \in [Procs -> Requests] /\ MaxOps \in Nat
      BY ConstantsAssumption DEF StateType
  <1>3. left' \in [faults : Nat, ops : 0..MaxOps] /\ left'.ops = left.ops - 1
      BY <1>1, <1>2
  <1>4. /\ proc' \in [Procs -> Requests] /\ proc'[p] = rec
        /\ \A q \in Procs \ {p} : proc'[q] = proc[q]
      BY <1>1, <1>2
  <1>5. StateType'
      BY <1>1, <1>3, <1>4 DEF StateType
  <1> QED  BY <1>1, <1>3, <1>4, <1>5

LEMMA RequestFields ==
    ASSUME StateType, NEW pc \in Pcs, NEW ob \in Objs
    PROVE  /\ Request(pc, ob) \in Requests /\ Request(pc, ob).pc = pc
           /\ Request(pc, ob).obj = ob
           /\ Request(pc, ob).id = NextId /\ Request(pc, ob).sel = {} /\ Request(pc, ob).tag = "none"
  <1>1. NextId \in Nat
      BY ConstantsAssumption DEF NextId, StateType
  <1> DEFINE n == NextId
             r == [Idle EXCEPT !.pc = pc, !.obj = ob, !.id = n]
  <1>2. n \in Nat /\ r = Request(pc, ob)
      BY <1>1 DEF Request
  <1> HIDE DEF n
  <1>3. r \in Requests
      BY <1>2 DEF Requests, Idle
  <1>4. r.pc = pc /\ r.obj = ob /\ r.id = n /\ r.sel = {} /\ r.tag = "none"
      BY DEF Idle
  <1> HIDE DEF r
  <1> QED  BY <1>2, <1>3, <1>4 DEF n

LEMMA UploadHandlerStep ==
    ASSUME StateType, NEW p \in Procs, UploadHandler(p)
    PROVE  StateType' /\ Enters(p)
  <1>1. PICK op \in AllOps, ob \in Objs : Enter(p, op, Request("u_put", ob))
      BY DEF UploadHandler, Objs, AllOps
  <1> DEFINE rec == Request("u_put", ob)
  <1>2. /\ rec \in Requests /\ rec.pc = "u_put" /\ rec.id = NextId /\ rec.sel = {} /\ rec.tag = "none"
    <2>1. "u_put" \in Pcs
        BY DEF Pcs
    <2> QED  BY <2>1, RequestFields
  <1> HIDE DEF rec
  <1>3. /\ StateType' /\ proc'[p] = rec /\ \A q \in Procs \ {p} : proc'[q] = proc[q]
        /\ proc[p].pc = "idle" /\ left.ops > 0 /\ left'.ops = left.ops - 1
        /\ UNCHANGED <<db, table, cfg, file, report, lock, torn>>
      BY <1>1, <1>2, EnterEffect DEF rec
  <1> QED  BY <1>2, <1>3 DEF Enters

LEMMA ImportDataSourceHandlerStep ==
    ASSUME StateType, NEW p \in Procs, ImportDataSourceHandler(p)
    PROVE  StateType' /\ Enters(p)
  <1>1. PICK op \in AllOps, ob \in Objs : Enter(p, op, Request("i_lock", ob))
      BY DEF ImportDataSourceHandler, Objs, AllOps
  <1> DEFINE rec == Request("i_lock", ob)
  <1>2. /\ rec \in Requests /\ rec.pc = "i_lock" /\ rec.id = NextId /\ rec.sel = {} /\ rec.tag = "none"
    <2>1. "i_lock" \in Pcs
        BY DEF Pcs
    <2> QED  BY <2>1, RequestFields
  <1> HIDE DEF rec
  <1>3. /\ StateType' /\ proc'[p] = rec /\ \A q \in Procs \ {p} : proc'[q] = proc[q]
        /\ proc[p].pc = "idle" /\ left.ops > 0 /\ left'.ops = left.ops - 1
        /\ UNCHANGED <<db, table, cfg, file, report, lock, torn>>
      BY <1>1, <1>2, EnterEffect DEF rec
  <1> QED  BY <1>2, <1>3 DEF Enters

LEMMA DeleteSessionSourceHandlerStep ==
    ASSUME StateType, NEW p \in Procs, DeleteSessionSourceHandler(p)
    PROVE  StateType' /\ Enters(p)
  <1>1. PICK op \in AllOps, ob \in Objs : Enter(p, op, Request("r_check", ob))
      BY DEF DeleteSessionSourceHandler, Objs, AllOps
  <1> DEFINE rec == Request("r_check", ob)
  <1>2. /\ rec \in Requests /\ rec.pc = "r_check" /\ rec.id = NextId /\ rec.sel = {} /\ rec.tag = "none"
    <2>1. "r_check" \in Pcs
        BY DEF Pcs
    <2> QED  BY <2>1, RequestFields
  <1> HIDE DEF rec
  <1>3. /\ StateType' /\ proc'[p] = rec /\ \A q \in Procs \ {p} : proc'[q] = proc[q]
        /\ proc[p].pc = "idle" /\ left.ops > 0 /\ left'.ops = left.ops - 1
        /\ UNCHANGED <<db, table, cfg, file, report, lock, torn>>
      BY <1>1, <1>2, EnterEffect DEF rec
  <1> QED  BY <1>2, <1>3 DEF Enters

LEMMA DeleteDataSourceHandlerStep ==
    ASSUME StateType, NEW p \in Procs, DeleteDataSourceHandler(p)
    PROVE  StateType' /\ Enters(p)
  <1>1. PICK op \in AllOps, ob \in Objs : Enter(p, op, Request("d_list", ob))
      BY DEF DeleteDataSourceHandler, Objs, AllOps
  <1> DEFINE rec == Request("d_list", ob)
  <1>2. /\ rec \in Requests /\ rec.pc = "d_list" /\ rec.id = NextId /\ rec.sel = {} /\ rec.tag = "none"
    <2>1. "d_list" \in Pcs
        BY DEF Pcs
    <2> QED  BY <2>1, RequestFields
  <1> HIDE DEF rec
  <1>3. /\ StateType' /\ proc'[p] = rec /\ \A q \in Procs \ {p} : proc'[q] = proc[q]
        /\ proc[p].pc = "idle" /\ left.ops > 0 /\ left'.ops = left.ops - 1
        /\ UNCHANGED <<db, table, cfg, file, report, lock, torn>>
      BY <1>1, <1>2, EnterEffect DEF rec
  <1> QED  BY <1>2, <1>3 DEF Enters

LEMMA CreateDataSourceHandlerStep ==
    ASSUME StateType, NEW p \in Procs, CreateDataSourceHandler(p)
    PROVE  StateType' /\ Enters(p)
  <1>1. PICK op \in AllOps, ob \in Objs : Enter(p, op, Request("n_row", ob))
      BY DEF CreateDataSourceHandler, Objs, AllOps
  <1> DEFINE rec == Request("n_row", ob)
  <1>2. /\ rec \in Requests /\ rec.pc = "n_row" /\ rec.id = NextId /\ rec.sel = {} /\ rec.tag = "none"
    <2>1. "n_row" \in Pcs
        BY DEF Pcs
    <2> QED  BY <2>1, RequestFields
  <1> HIDE DEF rec
  <1>3. /\ StateType' /\ proc'[p] = rec /\ \A q \in Procs \ {p} : proc'[q] = proc[q]
        /\ proc[p].pc = "idle" /\ left.ops > 0 /\ left'.ops = left.ops - 1
        /\ UNCHANGED <<db, table, cfg, file, report, lock, torn>>
      BY <1>1, <1>2, EnterEffect DEF rec
  <1> QED  BY <1>2, <1>3 DEF Enters, CreateDataSourceHandler, NobodyAt, At, NoCfg

LEMMA UpdateDataSourceHandlerStep ==
    ASSUME StateType, NEW p \in Procs, UpdateDataSourceHandler(p)
    PROVE  StateType' /\ Enters(p)
  <1>1. PICK op \in AllOps, ob \in Objs : Enter(p, op, Request("e_read", ob))
      BY DEF UpdateDataSourceHandler, Objs, AllOps
  <1> DEFINE rec == Request("e_read", ob)
  <1>2. /\ rec \in Requests /\ rec.pc = "e_read" /\ rec.id = NextId /\ rec.sel = {} /\ rec.tag = "none"
    <2>1. "e_read" \in Pcs
        BY DEF Pcs
    <2> QED  BY <2>1, RequestFields
  <1> HIDE DEF rec
  <1>3. /\ StateType' /\ proc'[p] = rec /\ \A q \in Procs \ {p} : proc'[q] = proc[q]
        /\ proc[p].pc = "idle" /\ left.ops > 0 /\ left'.ops = left.ops - 1
        /\ UNCHANGED <<db, table, cfg, file, report, lock, torn>>
      BY <1>1, <1>2, EnterEffect DEF rec
  <1> QED  BY <1>2, <1>3 DEF Enters

LEMMA TestDataSourceHandlerStep ==
    ASSUME StateType, NEW p \in Procs, TestDataSourceHandler(p)
    PROVE  StateType' /\ Enters(p)
  <1>1. PICK op \in AllOps, ob \in Objs : Enter(p, op, Request("t_run", ob))
      BY DEF TestDataSourceHandler, Objs, AllOps
  <1> DEFINE rec == Request("t_run", ob)
  <1>2. /\ rec \in Requests /\ rec.pc = "t_run" /\ rec.id = NextId /\ rec.sel = {} /\ rec.tag = "none"
    <2>1. "t_run" \in Pcs
        BY DEF Pcs
    <2> QED  BY <2>1, RequestFields
  <1> HIDE DEF rec
  <1>3. /\ StateType' /\ proc'[p] = rec /\ \A q \in Procs \ {p} : proc'[q] = proc[q]
        /\ proc[p].pc = "idle" /\ left.ops > 0 /\ left'.ops = left.ops - 1
        /\ UNCHANGED <<db, table, cfg, file, report, lock, torn>>
      BY <1>1, <1>2, EnterEffect DEF rec
  <1> QED  BY <1>2, <1>3 DEF Enters

LEMMA SessionSourcesHandlerStep ==
    ASSUME StateType, NEW p \in Procs, SessionSourcesHandler(p)
    PROVE  StateType' /\ Enters(p)
  <1>1. PICK op \in AllOps, ob \in Objs : Enter(p, op, Request("l_read", ob))
      BY DEF SessionSourcesHandler, Objs, AllOps
  <1> DEFINE rec == Request("l_read", ob)
  <1>2. /\ rec \in Requests /\ rec.pc = "l_read" /\ rec.id = NextId /\ rec.sel = {} /\ rec.tag = "none"
    <2>1. "l_read" \in Pcs
        BY DEF Pcs
    <2> QED  BY <2>1, RequestFields
  <1> HIDE DEF rec
  <1>3. /\ StateType' /\ proc'[p] = rec /\ \A q \in Procs \ {p} : proc'[q] = proc[q]
        /\ proc[p].pc = "idle" /\ left.ops > 0 /\ left'.ops = left.ops - 1
        /\ UNCHANGED <<db, table, cfg, file, report, lock, torn>>
      BY <1>1, <1>2, EnterEffect DEF rec
  <1> QED  BY <1>2, <1>3 DEF Enters

LEMMA LiveQueryStep ==
    ASSUME StateType, NEW p \in Procs, LiveQuery(p)
    PROVE  StateType' /\ Enters(p)
  <1>1. PICK op \in AllOps, ob \in Objs : Enter(p, op, Request("q_read", ob))
      BY DEF LiveQuery, Objs, AllOps
  <1> DEFINE rec == Request("q_read", ob)
  <1>2. /\ rec \in Requests /\ rec.pc = "q_read" /\ rec.id = NextId /\ rec.sel = {} /\ rec.tag = "none"
    <2>1. "q_read" \in Pcs
        BY DEF Pcs
    <2> QED  BY <2>1, RequestFields
  <1> HIDE DEF rec
  <1>3. /\ StateType' /\ proc'[p] = rec /\ \A q \in Procs \ {p} : proc'[q] = proc[q]
        /\ proc[p].pc = "idle" /\ left.ops > 0 /\ left'.ops = left.ops - 1
        /\ UNCHANGED <<db, table, cfg, file, report, lock, torn>>
      BY <1>1, <1>2, EnterEffect DEF rec
  <1> QED  BY <1>2, <1>3 DEF Enters

LEMMA ConfirmProfileHandlerStep ==
    ASSUME StateType, NEW p \in Procs, ConfirmProfileHandler(p)
    PROVE  StateType' /\ Enters(p)
  <1>1. PICK i \in Ids, g \in {"plain", "receipt"} :
           /\ g = "receipt" => \A q \in Procs : proc[q].tag # g
           /\ Enter(p, "confirm", [Request("c_look", "file") EXCEPT !.id = i, !.tag = g])
      BY DEF ConfirmProfileHandler
  <1> DEFINE rec == [Request("c_look", "file") EXCEPT !.id = i, !.tag = g]
  <1>2. rec \in Requests /\ rec.pc = "c_look" /\ rec.id = i /\ rec.sel = {} /\ rec.tag = g
    <2>1. i \in Nat
        BY DEF Ids
    <2>2. "c_look" \in Pcs /\ "file" \in Objs
        BY DEF Pcs, Objs
    <2>3. /\ Request("c_look", "file") \in Requests /\ Request("c_look", "file").pc = "c_look"
          /\ Request("c_look", "file").sel = {}
        BY <2>2, RequestFields
    <2> QED  BY <2>3, <2>1 DEF Requests
  <1> HIDE DEF rec
  <1>3. /\ StateType' /\ proc'[p] = rec /\ \A q \in Procs \ {p} : proc'[q] = proc[q]
        /\ proc[p].pc = "idle" /\ left.ops > 0 /\ left'.ops = left.ops - 1
        /\ UNCHANGED <<db, table, cfg, file, report, lock, torn>>
      BY <1>1, <1>2, EnterEffect DEF rec
  <1> QED  BY <1>1, <1>2, <1>3 DEF Enters

LEMMA FinalizeReportStep ==
    ASSUME StateType, NEW p \in Procs, FinalizeReport(p)
    PROVE  StateType' /\ Enters(p)
  <1> DEFINE rec == [Request("s_row", "file") EXCEPT !.tag = "report"]
  <1>1. Enter(p, "report", rec) /\ \A q \in Procs : proc[q].tag # "report"
      BY DEF FinalizeReport
  <1>2. rec \in Requests /\ rec.pc = "s_row" /\ rec.sel = {} /\ rec.tag = "report"
    <2>2. "s_row" \in Pcs /\ "file" \in Objs
        BY DEF Pcs, Objs
    <2>3. /\ Request("s_row", "file") \in Requests /\ Request("s_row", "file").pc = "s_row"
          /\ Request("s_row", "file").sel = {}
        BY <2>2, RequestFields
    <2> QED  BY <2>3 DEF Requests
  <1> HIDE DEF rec
  <1>3. /\ StateType' /\ proc'[p] = rec /\ \A q \in Procs \ {p} : proc'[q] = proc[q]
        /\ proc[p].pc = "idle" /\ left.ops > 0 /\ left'.ops = left.ops - 1
        /\ UNCHANGED <<db, table, cfg, file, report, lock, torn>>
      BY <1>1, <1>2, EnterEffect
  <1> QED  BY <1>1, <1>2, <1>3 DEF Enters

-----------------------------------------------------------------------------
(* The kinds of step of a request that is under way.                       *)

Works(p) ==
  \/ Ends(p) \/ Aside(p) \/ Fails(p) \/ Proceeds(p) \/ Begins(p) \/ Tables(p)
  \/ Readies(p) \/ Profiles(p) \/ Binds(p) \/ Lists(p)
  \/ (\E i \in Ids : Cleans(p, i)) \/ RemoveLists(p)
  \/ (\E i \in Ids : RemoveTable(p, i)) \/ RemovePasses(p) \/ RemoveProfs(p)
  \/ (\E i \in Ids : RemoveSnapshot(p, i)) \/ Unbinds(p) \/ Deletes(p)
  \/ CreatesSource(p)

\* Every step of request p.
StepOf(p) ==
  /\ StateType'
  /\ \/ Enters(p)
     \/ /\ Moves(p) /\ Works(p)
        /\ \/ NoReceipt(p) /\ NoReport(p)
           \/ NoReport(p) /\ (Looks(p) \/ Confirms(p))
           \/ NoReceipt(p) /\ ReportInv'

LEMMA WorkSteps ==
    ASSUME StateType, IdsDistinct, CreationInv, NEW p \in Procs,
           \/ UploadPut(p) \/ UploadRow(p) \/ UploadAttach(p) \/ EnsureFileSource(p)
           \/ LockUpload(p) \/ OpenFile(p) \/ BeginSnapshotImport(p)
           \/ CreateTable(p) \/ ImportFileRawAs(p) \/ ExtractSchema(p)
           \/ CompleteImport(p) \/ FetchLiveObjectMetadata(p)
           \/ CreateSemanticProfile(p) \/ ActivateLive(p) \/ UpsertBinding(p)
           \/ ListSuperseded(p) \/ CleanupSuperseded(p) \/ ImportDone(p)
           \/ RemoveCheck(p) \/ RemoveList(p) \/ RemoveDrop(p) \/ RemoveProfiles(p)
           \/ RemoveRow(p) \/ RemoveBinding(p) \/ DeleteWorkspaceSource(p)
           \/ UpsertSemanticAssets(p) \/ ConfirmStatus(p)
           \/ CreateConfiguredSource(p) \/ CreateSourceConfig(p)
           \/ NormalizeConfig(p) \/ UpdateDataSource(p) \/ TestConnection(p)
           \/ TestDataSource(p) \/ GetSessionSources(p)
           \/ ExecuteSessionLiveQuery(p)
    PROVE  StepOf(p)
  <1>1. CASE UploadPut(p)
      BY <1>1, UploadPutStep DEF StepOf, Quiet, Works
  <1>2. CASE UploadRow(p)
      BY <1>2, UploadRowStep DEF StepOf, Quiet, Works
  <1>3. CASE UploadAttach(p)
      BY <1>3, UploadAttachStep DEF StepOf, Quiet, Works
  <1>4. CASE EnsureFileSource(p)
      BY <1>4, EnsureFileSourceStep DEF StepOf, Quiet, Works
  <1>5. CASE LockUpload(p)
      BY <1>5, LockUploadStep DEF StepOf, Quiet, Works
  <1>6. CASE OpenFile(p)
      BY <1>6, OpenFileStep DEF StepOf, Quiet, Works
  <1>7. CASE BeginSnapshotImport(p)
      BY <1>7, BeginSnapshotImportStep DEF StepOf, Quiet, Works
  <1>8. CASE CreateTable(p)
      BY <1>8, CreateTableStep DEF StepOf, Quiet, Works
  <1>9. CASE ImportFileRawAs(p)
      BY <1>9, ImportFileRawAsStep DEF StepOf, Quiet, Works
  <1>10. CASE ExtractSchema(p)
      BY <1>10, ExtractSchemaStep DEF StepOf, Quiet, Works
  <1>11. CASE CompleteImport(p)
      BY <1>11, CompleteImportStep DEF StepOf, Quiet, Works
  <1>12. CASE FetchLiveObjectMetadata(p)
      BY <1>12, FetchLiveObjectMetadataStep DEF StepOf, Quiet, Works
  <1>13. CASE CreateSemanticProfile(p)
      BY <1>13, CreateSemanticProfileStep DEF StepOf, Quiet, Works
  <1>14. CASE ActivateLive(p)
      BY <1>14, ActivateLiveStep DEF StepOf, Quiet, Works
  <1>15. CASE UpsertBinding(p)
      BY <1>15, UpsertBindingStep DEF StepOf, Quiet, Works
  <1>16. CASE ListSuperseded(p)
      BY <1>16, ListSupersededStep DEF StepOf, Quiet, Works
  <1>17. CASE CleanupSuperseded(p)
      BY <1>17, CleanupSupersededStep DEF StepOf, Quiet, Works
  <1>18. CASE ImportDone(p)
      BY <1>18, ImportDoneStep DEF StepOf, Quiet, Works
  <1>19. CASE RemoveCheck(p)
      BY <1>19, RemoveCheckStep DEF StepOf, Quiet, Works
  <1>20. CASE RemoveList(p)
      BY <1>20, RemoveListStep DEF StepOf, Quiet, Works
  <1>21. CASE RemoveDrop(p)
      BY <1>21, RemoveDropStep DEF StepOf, Quiet, Works
  <1>22. CASE RemoveProfiles(p)
      BY <1>22, RemoveProfilesStep DEF StepOf, Quiet, Works
  <1>23. CASE RemoveRow(p)
      BY <1>23, RemoveRowStep DEF StepOf, Quiet, Works
  <1>24. CASE RemoveBinding(p)
      BY <1>24, RemoveBindingStep DEF StepOf, Quiet, Works
  <1>25. CASE DeleteWorkspaceSource(p)
      BY <1>25, DeleteWorkspaceSourceStep DEF StepOf, Quiet, Works
  <1>26. CASE UpsertSemanticAssets(p)
      BY <1>26, UpsertSemanticAssetsStep DEF StepOf, Quiet, Works
  <1>27. CASE ConfirmStatus(p)
      BY <1>27, ConfirmStatusStep DEF StepOf, Quiet, Works
  <1>28. CASE CreateConfiguredSource(p)
      BY <1>28, CreateConfiguredSourceStep DEF StepOf, Quiet, Works
  <1>29. CASE CreateSourceConfig(p)
      BY <1>29, CreateSourceConfigStep DEF StepOf, Quiet, Works
  <1>30. CASE NormalizeConfig(p)
      BY <1>30, NormalizeConfigStep DEF StepOf, Quiet, Works
  <1>31. CASE UpdateDataSource(p)
      BY <1>31, UpdateDataSourceStep DEF StepOf, Quiet, Works
  <1>32. CASE TestConnection(p)
      BY <1>32, TestConnectionStep DEF StepOf, Quiet, Works
  <1>33. CASE TestDataSource(p)
      BY <1>33, TestDataSourceStep DEF StepOf, Quiet, Works
  <1>34. CASE GetSessionSources(p)
      BY <1>34, GetSessionSourcesStep DEF StepOf, Quiet, Works
  <1>35. CASE ExecuteSessionLiveQuery(p)
      BY <1>35, ExecuteSessionLiveQueryStep DEF StepOf, Quiet, Works
  <1> QED
      BY <1>1, <1>2, <1>3, <1>4, <1>5, <1>6, <1>7, <1>8,
         <1>9, <1>10, <1>11, <1>12, <1>13, <1>14, <1>15, <1>16,
         <1>17, <1>18, <1>19, <1>20, <1>21, <1>22, <1>23, <1>24,
         <1>25, <1>26, <1>27, <1>28, <1>29, <1>30, <1>31, <1>32,
         <1>33, <1>34, <1>35

LEMMA ConfirmSteps ==
    ASSUME StateType, ReceiptInv, NEW p \in Procs,
           \/ ConfirmLook(p) \/ ConfirmCreate(p)
    PROVE  StepOf(p)
  <1>1. CASE ConfirmLook(p)
      BY <1>1, ConfirmLookStep DEF StepOf, Told, Works
  <1>2. CASE ConfirmCreate(p)
      BY <1>2, ConfirmCreateStep DEF StepOf, Told, Works
  <1> QED
      BY <1>1, <1>2

LEMMA ReportSteps ==
    ASSUME StateType, ReportInv, NEW p \in Procs,
           \/ ReplaceReportRow(p) \/ ReplaceReportFile(p) \/ PutReport(p)
           \/ CreateReportFile(p) \/ SaveReportHTML(p) \/ BindReportFile(p)
    PROVE  StepOf(p)
  <1>1. CASE ReplaceReportRow(p)
      BY <1>1, ReplaceReportRowStep DEF StepOf, Saved, Works
  <1>2. CASE ReplaceReportFile(p)
      BY <1>2, ReplaceReportFileStep DEF StepOf, Saved, Works
  <1>3. CASE PutReport(p)
      BY <1>3, PutReportStep DEF StepOf, Saved, Works
  <1>4. CASE CreateReportFile(p)
      BY <1>4, CreateReportFileStep DEF StepOf, Saved, Works
  <1>5. CASE SaveReportHTML(p)
      BY <1>5, SaveReportHTMLStep DEF StepOf, Saved, Works
  <1>6. CASE BindReportFile(p)
      BY <1>6, BindReportFileStep DEF StepOf, Saved, Works
  <1> QED
      BY <1>1, <1>2, <1>3, <1>4, <1>5, <1>6

LEMMA ArriveSteps ==
    ASSUME StateType, NEW p \in Procs,
           \/ UploadHandler(p) \/ ImportDataSourceHandler(p)
           \/ DeleteSessionSourceHandler(p) \/ DeleteDataSourceHandler(p)
           \/ CreateDataSourceHandler(p) \/ UpdateDataSourceHandler(p)
           \/ TestDataSourceHandler(p) \/ ConfirmProfileHandler(p)
           \/ SessionSourcesHandler(p) \/ LiveQuery(p) \/ FinalizeReport(p)
    PROVE  StepOf(p)
  <1>1. CASE UploadHandler(p)
      BY <1>1, UploadHandlerStep DEF StepOf
  <1>2. CASE ImportDataSourceHandler(p)
      BY <1>2, ImportDataSourceHandlerStep DEF StepOf
  <1>3. CASE DeleteSessionSourceHandler(p)
      BY <1>3, DeleteSessionSourceHandlerStep DEF StepOf
  <1>4. CASE DeleteDataSourceHandler(p)
      BY <1>4, DeleteDataSourceHandlerStep DEF StepOf
  <1>5. CASE CreateDataSourceHandler(p)
      BY <1>5, CreateDataSourceHandlerStep DEF StepOf
  <1>6. CASE UpdateDataSourceHandler(p)
      BY <1>6, UpdateDataSourceHandlerStep DEF StepOf
  <1>7. CASE TestDataSourceHandler(p)
      BY <1>7, TestDataSourceHandlerStep DEF StepOf
  <1>8. CASE ConfirmProfileHandler(p)
      BY <1>8, ConfirmProfileHandlerStep DEF StepOf
  <1>9. CASE SessionSourcesHandler(p)
      BY <1>9, SessionSourcesHandlerStep DEF StepOf
  <1>10. CASE LiveQuery(p)
      BY <1>10, LiveQueryStep DEF StepOf
  <1>11. CASE FinalizeReport(p)
      BY <1>11, FinalizeReportStep DEF StepOf
  <1> QED
      BY <1>1, <1>2, <1>3, <1>4, <1>5, <1>6, <1>7, <1>8,
         <1>9, <1>10, <1>11

LEMMA NextSteps ==
    ASSUME SourcesInv, Next
    PROVE  \E p \in Procs : StepOf(p)
  <1>1. PICK p \in Procs : Step(p) \/ Arrive(p)
      BY DEF Next
  <1>2. StateType /\ IdsDistinct /\ CreationInv /\ ReceiptInv /\ ReportInv
      BY DEF SourcesInv, TypeOK, SnapshotInv
  <1> HIDE DEF SourcesInv
  <1>3. CASE Step(p)
      BY <1>2, <1>3, WorkSteps, ConfirmSteps, ReportSteps DEF Step
  <1>4. CASE Arrive(p)
      BY <1>2, <1>4, ArriveSteps DEF Arrive
  <1> QED  BY <1>1, <1>3, <1>4

-----------------------------------------------------------------------------
(* The upload lock.                                                        *)

LEMMA OnlyOne ==
    ASSUME LockHeld, NEW p \in Procs, NEW q \in Procs,
           proc[p].pc \in Critical, proc[q].pc \in Critical
    PROVE  p = q
  BY DEF LockHeld

LEMMA LockStep ==
    ASSUME TypeOK, NEW p \in Procs, StepOf(p)
    PROVE  LockHeld'
  <1>1. "idle" \notin Critical /\ LockHeld
      BY DEF Critical, TypeOK
  <1>2. CASE Moves(p)
    <2>1. CASE lock' = lock /\ (proc[p].pc \in Critical <=> proc'[p].pc \in Critical)
        BY <1>1, <1>2, <2>1 DEF LockHeld, Moves
    <2>2. CASE lock' = Freed(p) /\ proc'[p].pc = "idle"
      <3>1. ASSUME NEW q \in Procs
            PROVE  lock' = q <=> proc'[q].pc \in Critical
        <4>1. CASE q = p
            BY <1>1, <2>2, <4>1, ConstantsAssumption DEF Freed
        <4>2. CASE q # p
          <5>1. proc'[q] = proc[q]
              BY <1>2, <4>2 DEF Moves
          <5> QED  BY <1>1, <2>2, <4>2, <5>1, ConstantsAssumption DEF Freed, LockHeld
        <4> QED  BY <4>1, <4>2
      <3> QED  BY <3>1 DEF LockHeld
    <2>3. CASE lock = NoProc /\ lock' = p /\ proc[p].pc = "i_lock" /\ proc'[p].pc \in Critical
      <3>1. \A q \in Procs : proc[q].pc \notin Critical
          BY <1>1, <2>3, ConstantsAssumption DEF LockHeld
      <3> QED  BY <1>2, <2>3, <3>1 DEF LockHeld, Moves
    <2> QED  BY <1>2, <2>1, <2>2, <2>3 DEF Moves
  <1>3. CASE Enters(p)
    <2>1. /\ proc[p].pc = "idle" /\ proc'[p].pc \notin Critical /\ lock' = lock
          /\ \A q \in Procs \ {p} : proc'[q] = proc[q]
        BY <1>3 DEF Enters, Critical
    <2> QED  BY <1>1, <2>1 DEF LockHeld
  <1> QED  BY <1>2, <1>3 DEF StepOf

-----------------------------------------------------------------------------
(* The identities.                                                         *)

\* A request that makes a snapshot has done so from its arrival on.
LEMMA ImportingKept ==
    ASSUME NEW p \in Procs, Works(p)
    PROVE  /\ proc'[p].pc \in Importing => proc[p].pc \in Importing /\ proc'[p].id = proc[p].id
           /\ proc'[p].pc \in Early => proc[p].pc \in Early
  <1>1. ASSUME Ends(p)
        PROVE  /\ proc'[p].pc \in Importing => proc[p].pc \in Importing /\ proc'[p].id = proc[p].id
               /\ proc'[p].pc \in Early => proc[p].pc \in Early
      BY <1>1 DEF Ends, Stopped, Importing, Early, Building, Binding
  <1>2. ASSUME Aside(p)
        PROVE  /\ proc'[p].pc \in Importing => proc[p].pc \in Importing /\ proc'[p].id = proc[p].id
               /\ proc'[p].pc \in Early => proc[p].pc \in Early
      BY <1>2 DEF Aside, Outside, Importing, Early, Building, Binding
  <1>3. ASSUME Fails(p)
        PROVE  /\ proc'[p].pc \in Importing => proc[p].pc \in Importing /\ proc'[p].id = proc[p].id
               /\ proc'[p].pc \in Early => proc[p].pc \in Early
      BY <1>3 DEF Fails, Stopped, Importing, Early, Building, Binding
  <1>4. ASSUME Proceeds(p)
        PROVE  /\ proc'[p].pc \in Importing => proc[p].pc \in Importing /\ proc'[p].id = proc[p].id
               /\ proc'[p].pc \in Early => proc[p].pc \in Early
      BY <1>4 DEF Proceeds, Keeps, Passes, Importing, Early, Building, Binding
  <1>5. ASSUME Begins(p)
        PROVE  /\ proc'[p].pc \in Importing => proc[p].pc \in Importing /\ proc'[p].id = proc[p].id
               /\ proc'[p].pc \in Early => proc[p].pc \in Early
      BY <1>5 DEF Begins, Keeps, Importing, Early, Building, Binding
  <1>6. ASSUME Tables(p)
        PROVE  /\ proc'[p].pc \in Importing => proc[p].pc \in Importing /\ proc'[p].id = proc[p].id
               /\ proc'[p].pc \in Early => proc[p].pc \in Early
      BY <1>6 DEF Tables, Passes, Keeps, Importing, Early, Building, Binding
  <1>7. ASSUME Readies(p)
        PROVE  /\ proc'[p].pc \in Importing => proc[p].pc \in Importing /\ proc'[p].id = proc[p].id
               /\ proc'[p].pc \in Early => proc[p].pc \in Early
      BY <1>7 DEF Readies, Passes, Keeps, Importing, Early, Building, Binding
  <1>8. ASSUME Profiles(p)
        PROVE  /\ proc'[p].pc \in Importing => proc[p].pc \in Importing /\ proc'[p].id = proc[p].id
               /\ proc'[p].pc \in Early => proc[p].pc \in Early
      BY <1>8 DEF Profiles, Passes, Keeps, Importing, Early, Building, Binding
  <1>9. ASSUME Binds(p)
        PROVE  /\ proc'[p].pc \in Importing => proc[p].pc \in Importing /\ proc'[p].id = proc[p].id
               /\ proc'[p].pc \in Early => proc[p].pc \in Early
      BY <1>9 DEF Binds, Passes, Keeps, Importing, Early, Building, Binding
  <1>10. ASSUME Lists(p)
        PROVE  /\ proc'[p].pc \in Importing => proc[p].pc \in Importing /\ proc'[p].id = proc[p].id
               /\ proc'[p].pc \in Early => proc[p].pc \in Early
      BY <1>10 DEF Lists, Keeps, Importing, Early, Building, Binding
  <1>11. ASSUME NEW i \in Ids, Cleans(p, i)
        PROVE  /\ proc'[p].pc \in Importing => proc[p].pc \in Importing /\ proc'[p].id = proc[p].id
               /\ proc'[p].pc \in Early => proc[p].pc \in Early
      BY <1>11 DEF Cleans, Keeps, Importing, Early, Building, Binding
  <1>12. ASSUME RemoveLists(p)
        PROVE  /\ proc'[p].pc \in Importing => proc[p].pc \in Importing /\ proc'[p].id = proc[p].id
               /\ proc'[p].pc \in Early => proc[p].pc \in Early
      BY <1>12 DEF RemoveLists, Importing, Early, Building, Binding
  <1>13. ASSUME NEW i \in Ids, RemoveTable(p, i)
        PROVE  /\ proc'[p].pc \in Importing => proc[p].pc \in Importing /\ proc'[p].id = proc[p].id
               /\ proc'[p].pc \in Early => proc[p].pc \in Early
      BY <1>13 DEF RemoveTable, Passes, Importing, Early, Building, Binding
  <1>14. ASSUME RemovePasses(p)
        PROVE  /\ proc'[p].pc \in Importing => proc[p].pc \in Importing /\ proc'[p].id = proc[p].id
               /\ proc'[p].pc \in Early => proc[p].pc \in Early
      BY <1>14 DEF RemovePasses, Passes, Importing, Early, Building, Binding
  <1>15. ASSUME RemoveProfs(p)
        PROVE  /\ proc'[p].pc \in Importing => proc[p].pc \in Importing /\ proc'[p].id = proc[p].id
               /\ proc'[p].pc \in Early => proc[p].pc \in Early
      BY <1>15 DEF RemoveProfs, Passes, Stopped, Importing, Early, Building, Binding
  <1>16. ASSUME NEW i \in Ids, RemoveSnapshot(p, i)
        PROVE  /\ proc'[p].pc \in Importing => proc[p].pc \in Importing /\ proc'[p].id = proc[p].id
               /\ proc'[p].pc \in Early => proc[p].pc \in Early
      BY <1>16 DEF RemoveSnapshot, Importing, Early, Building, Binding
  <1>17. ASSUME Unbinds(p)
        PROVE  /\ proc'[p].pc \in Importing => proc[p].pc \in Importing /\ proc'[p].id = proc[p].id
               /\ proc'[p].pc \in Early => proc[p].pc \in Early
      BY <1>17 DEF Unbinds, Stopped, Importing, Early, Building, Binding
  <1>18. ASSUME Deletes(p)
        PROVE  /\ proc'[p].pc \in Importing => proc[p].pc \in Importing /\ proc'[p].id = proc[p].id
               /\ proc'[p].pc \in Early => proc[p].pc \in Early
      BY <1>18 DEF Deletes, Stopped, Importing, Early, Building, Binding
  <1>19. ASSUME CreatesSource(p)
        PROVE  /\ proc'[p].pc \in Importing => proc[p].pc \in Importing /\ proc'[p].id = proc[p].id
               /\ proc'[p].pc \in Early => proc[p].pc \in Early
      BY <1>19 DEF CreatesSource, Passes, Importing, Early, Building, Binding
  <1> QED
      BY <1>1, <1>2, <1>3, <1>4, <1>5, <1>6, <1>7, <1>8, <1>9,
         <1>10, <1>11, <1>12, <1>13, <1>14, <1>15, <1>16, <1>17, <1>18,
         <1>19 DEF Works

LEMMA IdsStep ==
    ASSUME StateType, IdsDistinct, NEW p \in Procs, StepOf(p)
    PROVE  IdsDistinct'
  <1>0. MaxOps \in Nat /\ left.ops \in 0 .. MaxOps
      BY ConstantsAssumption DEF StateType
  <1>1. CASE Moves(p) /\ Works(p)
    <2>1. Issued' = Issued
        BY <1>1 DEF Moves, Issued
    <2>2. \A q \in Procs : proc'[q].pc \in Importing => proc[q].pc \in Importing /\ proc'[q].id = proc[q].id
        BY <1>1, ImportingKept DEF Moves
    <2> QED  BY <2>1, <2>2 DEF IdsDistinct
  <1>2. CASE Enters(p)
    <2>1. /\ Issued \in Nat /\ Issued' = Issued + 1 /\ NextId = Issued + 1
          /\ \A q \in Procs \ {p} : proc'[q] = proc[q]
        BY <1>0, <1>2 DEF Enters, Issued, NextId
    <2>2. proc'[p].pc \in Importing => proc'[p].id = Issued + 1
        BY <1>2, <2>1 DEF Enters, Importing, Early, Building, Binding
    <2>3. \A q \in Procs \ {p} : proc[q].pc \in Importing => proc[q].id \in 1 .. Issued
        BY DEF IdsDistinct
    <2>4. \A q \in Procs : proc'[q].pc \in Importing => proc'[q].id \in 1 .. (Issued + 1)
        BY <2>1, <2>2, <2>3
    <2>5. ASSUME NEW q \in Procs, NEW r \in Procs, proc'[q].pc \in Importing,
                 proc'[r].pc \in Importing, proc'[q].id = proc'[r].id
          PROVE  q = r
      <3>1. CASE q # p /\ r # p
          BY <2>1, <2>5, <3>1 DEF IdsDistinct
      <3>2. CASE q = p /\ r # p
          BY <2>1, <2>2, <2>3, <2>5, <3>2
      <3>3. CASE q # p /\ r = p
          BY <2>1, <2>2, <2>3, <2>5, <3>3
      <3> QED  BY <3>1, <3>2, <3>3
    <2> QED  BY <2>1, <2>4, <2>5 DEF IdsDistinct
  <1> QED  BY <1>1, <1>2 DEF StepOf

\* What a request makes is its own.
LEMMA Born ==
    ASSUME StateType, IdsDistinct, NEW p \in Procs, proc[p].pc \in Building \cup Binding
    PROVE  ~Unborn(proc[p].id)
  <1>1. proc[p].pc \in Importing /\ proc[p].pc \notin Early
      BY DEF Importing, Early, Building, Binding
  <1>2. proc[p].id \in 1 .. Issued /\ Issued \in Int
      BY <1>1, ConstantsAssumption DEF IdsDistinct, Issued, StateType
  <1>3. \A q \in Procs : proc[q].pc \in Early => proc[q].id # proc[p].id
      BY <1>1 DEF IdsDistinct, Importing
  <1> QED  BY <1>2, <1>3 DEF Unborn

LEMMA UnbornKept ==
    ASSUME StateType, NEW p \in Procs, StepOf(p), NEW j \in Ids, Unborn(j)'
    PROVE  Unborn(j)
  <1>0. MaxOps \in Nat /\ left.ops \in 0 .. MaxOps /\ j \in Int
      BY ConstantsAssumption DEF StateType, Ids
  <1>1. CASE Moves(p) /\ Works(p)
    <2>1. Issued' = Issued
        BY <1>1 DEF Moves, Issued
    <2>2. \A q \in Procs : proc'[q].pc \in Early => proc[q].pc \in Early /\ proc'[q].id = proc[q].id
        BY <1>1, ImportingKept DEF Moves, Importing
    <2> QED  BY <2>1, <2>2 DEF Unborn
  <1>2. CASE Enters(p)
    <2>1. /\ Issued \in Nat /\ Issued' = Issued + 1 /\ NextId = Issued + 1
          /\ \A q \in Procs \ {p} : proc'[q] = proc[q]
        BY <1>0, <1>2 DEF Enters, Issued, NextId
    <2>2. proc'[p].pc \in Early => proc'[p].id = Issued + 1
        BY <1>2, <2>1 DEF Enters, Early
    <2> QED  BY <1>0, <2>1, <2>2 DEF Unborn
  <1> QED  BY <1>1, <1>2 DEF StepOf

LEMMA BornOnceBegun ==
    ASSUME StateType, IdsDistinct, NEW p \in Procs, Moves(p), Begins(p),
           NEW j \in Ids, Unborn(j)'
    PROVE  proc[p].id # j /\ proc[p].id \in Ids
  <1>1. proc[p].pc \in Early /\ proc[p].pc \in Importing /\ proc'[p].pc \notin Early
      BY DEF Begins, Early, Importing
  <1>2. proc[p].id \in 1 .. Issued /\ Issued \in Int /\ Issued' = Issued
      BY <1>1, ConstantsAssumption DEF IdsDistinct, Issued, StateType, Moves
  <1>3. \A q \in Procs : proc'[q].pc \in Early => proc'[q].id # proc[p].id
      BY <1>1 DEF IdsDistinct, Importing, Moves
  <1>4. proc[p].id \in Ids
      BY <1>1, IdInRange
  <1>5. proc[p].id # j
      BY <1>2, <1>3 DEF Unborn
  <1> QED  BY <1>4, <1>5

Clean(j) ==
  /\ db.snap[j].status = "none" /\ j \notin table
  /\ \A o \in Objs : db.bind[o] # j
  /\ \A p \in Procs : j \notin proc[p].sel

LEMMA CleanKept ==
    ASSUME StateType, IdsDistinct, NEW p \in Procs, Moves(p), Works(p), NEW j \in Ids,
           Clean(j), Unborn(j), Unborn(j)'
    PROVE  Clean(j)'
  <1>t. /\ db.snap \in [Ids -> [obj : Objs, status : {"none", "creating", "ready", "failed"}]]
        /\ db.prof \in [Ids -> {"none", "profiled", "confirmed"}]
        /\ db.bind \in [Objs -> Ids \cup {0}] /\ proc[p].obj \in Objs /\ 0 # j
      BY DbFields, ProcFields DEF StateType, Ids
  <1>c. Clean(j)
      OBVIOUS
  <1>u. Unborn(j)
      OBVIOUS
  <1>m. \A q \in Procs \ {p} : proc'[q] = proc[q]
      BY DEF Moves
  <1>1. ASSUME Ends(p)
        PROVE  Clean(j)'
    <2>1. db'.snap[j].status = "none" /\ j \notin table'
        BY <1>t, <1>c, <1>m, <1>1 DEF Ends, Stopped, Frame, Clean
    <2>2. \A o \in Objs : db'.bind[o] # j
        BY <1>t, <1>c, <1>m, <1>1 DEF Ends, Stopped, Frame, Clean
    <2>3. j \notin proc'[p].sel
        BY <1>t, <1>c, <1>m, <1>1 DEF Ends, Stopped, Frame, Clean
    <2> QED  BY <1>c, <1>m, <2>1, <2>2, <2>3 DEF Clean
  <1>2. ASSUME Aside(p)
        PROVE  Clean(j)'
    <2>1. db'.snap[j].status = "none" /\ j \notin table'
        BY <1>t, <1>c, <1>m, <1>2 DEF Aside, Clean
    <2>2. \A o \in Objs : db'.bind[o] # j
        BY <1>t, <1>c, <1>m, <1>2 DEF Aside, Clean
    <2>3. j \notin proc'[p].sel
        BY <1>t, <1>c, <1>m, <1>2 DEF Aside, Clean
    <2> QED  BY <1>c, <1>m, <2>1, <2>2, <2>3 DEF Clean
  <1>3. ASSUME Fails(p)
        PROVE  Clean(j)'
    <2>0. proc[p].id # j /\ proc[p].id \in Ids
        BY <1>3, <1>u, Born, IdInRange DEF Fails, Passes, Importing, Building, Binding
    <2>1. db'.snap[j].status = "none" /\ j \notin table'
        BY <1>t, <1>c, <1>m, <1>3, <2>0 DEF Fails, Stopped, Clean
    <2>2. \A o \in Objs : db'.bind[o] # j
        BY <1>t, <1>c, <1>m, <1>3, <2>0 DEF Fails, Stopped, Clean
    <2>3. j \notin proc'[p].sel
        BY <1>t, <1>c, <1>m, <1>3, <2>0 DEF Fails, Stopped, Clean
    <2> QED  BY <1>c, <1>m, <2>1, <2>2, <2>3 DEF Clean
  <1>4. ASSUME Proceeds(p)
        PROVE  Clean(j)'
    <2>1. db'.snap[j].status = "none" /\ j \notin table'
        BY <1>t, <1>c, <1>m, <1>4 DEF Proceeds, Frame, Passes, Clean
    <2>2. \A o \in Objs : db'.bind[o] # j
        BY <1>t, <1>c, <1>m, <1>4 DEF Proceeds, Frame, Passes, Clean
    <2>3. j \notin proc'[p].sel
        BY <1>t, <1>c, <1>m, <1>4 DEF Proceeds, Frame, Passes, Clean
    <2> QED  BY <1>c, <1>m, <2>1, <2>2, <2>3 DEF Clean
  <1>5. ASSUME Begins(p)
        PROVE  Clean(j)'
    <2>0. proc[p].id # j /\ proc[p].id \in Ids
        BY <1>5, BornOnceBegun
    <2>1. db'.snap[j].status = "none" /\ j \notin table'
        BY <1>t, <1>c, <1>m, <1>5, <2>0 DEF Begins, Clean
    <2>2. \A o \in Objs : db'.bind[o] # j
        BY <1>t, <1>c, <1>m, <1>5, <2>0 DEF Begins, Clean
    <2>3. j \notin proc'[p].sel
        BY <1>t, <1>c, <1>m, <1>5, <2>0 DEF Begins, Clean
    <2> QED  BY <1>c, <1>m, <2>1, <2>2, <2>3 DEF Clean
  <1>6. ASSUME Tables(p)
        PROVE  Clean(j)'
    <2>0. proc[p].id # j /\ proc[p].id \in Ids
        BY <1>6, <1>u, Born, IdInRange DEF Tables, Passes, Importing, Building, Binding
    <2>1. db'.snap[j].status = "none" /\ j \notin table'
        BY <1>t, <1>c, <1>m, <1>6, <2>0 DEF Tables, Passes, Clean
    <2>2. \A o \in Objs : db'.bind[o] # j
        BY <1>t, <1>c, <1>m, <1>6, <2>0 DEF Tables, Passes, Clean
    <2>3. j \notin proc'[p].sel
        BY <1>t, <1>c, <1>m, <1>6, <2>0 DEF Tables, Passes, Clean
    <2> QED  BY <1>c, <1>m, <2>1, <2>2, <2>3 DEF Clean
  <1>7. ASSUME Readies(p)
        PROVE  Clean(j)'
    <2>0. proc[p].id # j /\ proc[p].id \in Ids
        BY <1>7, <1>u, Born, IdInRange DEF Readies, Passes, Importing, Building, Binding
    <2>1. db'.snap[j].status = "none" /\ j \notin table'
        BY <1>t, <1>c, <1>m, <1>7, <2>0 DEF Readies, Passes, Clean
    <2>2. \A o \in Objs : db'.bind[o] # j
        BY <1>t, <1>c, <1>m, <1>7, <2>0 DEF Readies, Passes, Clean
    <2>3. j \notin proc'[p].sel
        BY <1>t, <1>c, <1>m, <1>7, <2>0 DEF Readies, Passes, Clean
    <2> QED  BY <1>c, <1>m, <2>1, <2>2, <2>3 DEF Clean
  <1>8. ASSUME Profiles(p)
        PROVE  Clean(j)'
    <2>0. proc[p].id # j /\ proc[p].id \in Ids
        BY <1>8, <1>u, Born, IdInRange DEF Profiles, Passes, Importing, Building, Binding
    <2>1. db'.snap[j].status = "none" /\ j \notin table'
        BY <1>t, <1>c, <1>m, <1>8, <2>0 DEF Profiles, Passes, Clean
    <2>2. \A o \in Objs : db'.bind[o] # j
        BY <1>t, <1>c, <1>m, <1>8, <2>0 DEF Profiles, Passes, Clean
    <2>3. j \notin proc'[p].sel
        BY <1>t, <1>c, <1>m, <1>8, <2>0 DEF Profiles, Passes, Clean
    <2> QED  BY <1>c, <1>m, <2>1, <2>2, <2>3 DEF Clean
  <1>9. ASSUME Binds(p)
        PROVE  Clean(j)'
    <2>0. proc[p].id # j /\ proc[p].id \in Ids
        BY <1>9, <1>u, Born, IdInRange DEF Binds, Passes, Importing, Building, Binding
    <2>1. db'.snap[j].status = "none" /\ j \notin table'
        BY <1>t, <1>c, <1>m, <1>9, <2>0 DEF Binds, Passes, Clean
    <2>2. \A o \in Objs : db'.bind[o] # j
        BY <1>t, <1>c, <1>m, <1>9, <2>0 DEF Binds, Passes, Clean
    <2>3. j \notin proc'[p].sel
        BY <1>t, <1>c, <1>m, <1>9, <2>0 DEF Binds, Passes, Clean
    <2> QED  BY <1>c, <1>m, <2>1, <2>2, <2>3 DEF Clean
  <1>10. ASSUME Lists(p)
        PROVE  Clean(j)'
    <2>1. db'.snap[j].status = "none" /\ j \notin table'
        BY <1>t, <1>c, <1>m, <1>10 DEF Lists, Frame, Rows, Clean
    <2>2. \A o \in Objs : db'.bind[o] # j
        BY <1>t, <1>c, <1>m, <1>10 DEF Lists, Frame, Rows, Clean
    <2>3. j \notin proc'[p].sel
        BY <1>t, <1>c, <1>m, <1>10 DEF Lists, Frame, Rows, Clean
    <2> QED  BY <1>c, <1>m, <2>1, <2>2, <2>3 DEF Clean
  <1>11. ASSUME NEW i \in Ids, Cleans(p, i)
        PROVE  Clean(j)'
    <2>1. db'.snap[j].status = "none" /\ j \notin table'
        BY <1>t, <1>c, <1>m, <1>11 DEF Cleans, NoSnap, Clean
    <2>2. \A o \in Objs : db'.bind[o] # j
        BY <1>t, <1>c, <1>m, <1>11 DEF Cleans, NoSnap, Clean
    <2>3. j \notin proc'[p].sel
        BY <1>t, <1>c, <1>m, <1>11 DEF Cleans, NoSnap, Clean
    <2> QED  BY <1>c, <1>m, <2>1, <2>2, <2>3 DEF Clean
  <1>12. ASSUME RemoveLists(p)
        PROVE  Clean(j)'
    <2>1. db'.snap[j].status = "none" /\ j \notin table'
        BY <1>t, <1>c, <1>m, <1>12 DEF RemoveLists, Rows, Clean
    <2>2. \A o \in Objs : db'.bind[o] # j
        BY <1>t, <1>c, <1>m, <1>12 DEF RemoveLists, Rows, Clean
    <2>3. j \notin proc'[p].sel
        BY <1>t, <1>c, <1>m, <1>12 DEF RemoveLists, Rows, Clean
    <2> QED  BY <1>c, <1>m, <2>1, <2>2, <2>3 DEF Clean
  <1>13. ASSUME NEW i \in Ids, RemoveTable(p, i)
        PROVE  Clean(j)'
    <2>1. db'.snap[j].status = "none" /\ j \notin table'
        BY <1>t, <1>c, <1>m, <1>13 DEF RemoveTable, Passes, Clean
    <2>2. \A o \in Objs : db'.bind[o] # j
        BY <1>t, <1>c, <1>m, <1>13 DEF RemoveTable, Passes, Clean
    <2>3. j \notin proc'[p].sel
        BY <1>t, <1>c, <1>m, <1>13 DEF RemoveTable, Passes, Clean
    <2> QED  BY <1>c, <1>m, <2>1, <2>2, <2>3 DEF Clean
  <1>14. ASSUME RemovePasses(p)
        PROVE  Clean(j)'
    <2>1. db'.snap[j].status = "none" /\ j \notin table'
        BY <1>t, <1>c, <1>m, <1>14 DEF RemovePasses, Frame, Passes, Clean
    <2>2. \A o \in Objs : db'.bind[o] # j
        BY <1>t, <1>c, <1>m, <1>14 DEF RemovePasses, Frame, Passes, Clean
    <2>3. j \notin proc'[p].sel
        BY <1>t, <1>c, <1>m, <1>14 DEF RemovePasses, Frame, Passes, Clean
    <2> QED  BY <1>c, <1>m, <2>1, <2>2, <2>3 DEF Clean
  <1>15. ASSUME RemoveProfs(p)
        PROVE  Clean(j)'
    <2>1. db'.snap[j].status = "none" /\ j \notin table'
        BY <1>t, <1>c, <1>m, <1>15 DEF RemoveProfs, Passes, Stopped, Clean
    <2>2. \A o \in Objs : db'.bind[o] # j
        BY <1>t, <1>c, <1>m, <1>15 DEF RemoveProfs, Passes, Stopped, Clean
    <2>3. j \notin proc'[p].sel
        BY <1>t, <1>c, <1>m, <1>15 DEF RemoveProfs, Passes, Stopped, Clean
    <2> QED  BY <1>c, <1>m, <2>1, <2>2, <2>3 DEF Clean
  <1>16. ASSUME NEW i \in Ids, RemoveSnapshot(p, i)
        PROVE  Clean(j)'
    <2>1. db'.snap[j].status = "none" /\ j \notin table'
        BY <1>t, <1>c, <1>m, <1>16 DEF RemoveSnapshot, NoSnap, Clean
    <2>2. \A o \in Objs : db'.bind[o] # j
        BY <1>t, <1>c, <1>m, <1>16 DEF RemoveSnapshot, NoSnap, Clean
    <2>3. j \notin proc'[p].sel
        BY <1>t, <1>c, <1>m, <1>16 DEF RemoveSnapshot, NoSnap, Clean
    <2> QED  BY <1>c, <1>m, <2>1, <2>2, <2>3 DEF Clean
  <1>17. ASSUME Unbinds(p)
        PROVE  Clean(j)'
    <2>1. db'.snap[j].status = "none" /\ j \notin table'
        BY <1>t, <1>c, <1>m, <1>17 DEF Unbinds, Stopped, Clean
    <2>2. \A o \in Objs : db'.bind[o] # j
        BY <1>t, <1>c, <1>m, <1>17 DEF Unbinds, Stopped, Clean
    <2>3. j \notin proc'[p].sel
        BY <1>t, <1>c, <1>m, <1>17 DEF Unbinds, Stopped, Clean
    <2> QED  BY <1>c, <1>m, <2>1, <2>2, <2>3 DEF Clean
  <1>18. ASSUME Deletes(p)
        PROVE  Clean(j)'
    <2>1. db'.snap[j].status = "none" /\ j \notin table'
        BY <1>t, <1>c, <1>m, <1>18 DEF Deletes, Stopped, NoSnap, Clean
    <2>2. \A o \in Objs : db'.bind[o] # j
        BY <1>t, <1>c, <1>m, <1>18 DEF Deletes, Stopped, NoSnap, Clean
    <2>3. j \notin proc'[p].sel
        BY <1>t, <1>c, <1>m, <1>18 DEF Deletes, Stopped, NoSnap, Clean
    <2> QED  BY <1>c, <1>m, <2>1, <2>2, <2>3 DEF Clean
  <1>19. ASSUME CreatesSource(p)
        PROVE  Clean(j)'
    <2>1. db'.snap[j].status = "none" /\ j \notin table'
        BY <1>t, <1>c, <1>m, <1>19 DEF CreatesSource, Passes, Clean
    <2>2. \A o \in Objs : db'.bind[o] # j
        BY <1>t, <1>c, <1>m, <1>19 DEF CreatesSource, Passes, Clean
    <2>3. j \notin proc'[p].sel
        BY <1>t, <1>c, <1>m, <1>19 DEF CreatesSource, Passes, Clean
    <2> QED  BY <1>c, <1>m, <2>1, <2>2, <2>3 DEF Clean
  <1> QED
      BY <1>1, <1>2, <1>3, <1>4, <1>5, <1>6, <1>7, <1>8, <1>9,
         <1>10, <1>11, <1>12, <1>13, <1>14, <1>15, <1>16, <1>17, <1>18,
         <1>19 DEF Works

LEMMA UnbornStep ==
    ASSUME StateType, IdsDistinct, UnbornClean, NEW p \in Procs, StepOf(p)
    PROVE  UnbornClean'
  <1>1. ASSUME NEW j \in Ids, Unborn(j)'
        PROVE  Clean(j)'
    <2>1. Unborn(j)
        BY <1>1, UnbornKept
    <2>2. Clean(j)
        BY <2>1 DEF UnbornClean, Clean
    <2>3. CASE Moves(p) /\ Works(p)
        BY <1>1, <2>1, <2>2, <2>3, CleanKept
    <2>4. CASE Enters(p)
        BY <2>2, <2>4 DEF Clean, Enters
    <2> QED  BY <2>3, <2>4 DEF StepOf
  <1> QED  BY <1>1 DEF UnbornClean, Clean

-----------------------------------------------------------------------------
(* The stages of an import or bind.                                        *)

\* What request q has written is not undone by a step of another.
LEMMA StageOthers ==
    ASSUME TypeOK, SnapshotInv, NEW p \in Procs, StepOf(p), NEW q \in Procs, q # p
    PROVE  StageAt(q)'
  <1>t. /\ db.snap \in [Ids -> [obj : Objs, status : {"none", "creating", "ready", "failed"}]]
        /\ db.prof \in [Ids -> {"none", "profiled", "confirmed"}]
        /\ db.bind \in [Objs -> Ids \cup {0}]
      BY DbFields DEF TypeOK, StateType
  <1>p. proc[p].obj \in {"file", "live"} /\ proc[p].sel \subseteq Ids
      BY ProcFields DEF TypeOK, Objs
  <1>m. proc'[q] = proc[q] /\ StageAt(q)
      BY DEF StepOf, Moves, Enters, SnapshotInv, StageInv
  <1>b. Building \subseteq Critical /\ Binding \subseteq Critical /\ "i_open" \in Critical
      BY DEF Building, Binding, Critical
  <1>c. CASE proc[q].pc \notin Building \cup Binding
      BY <1>c, <1>m DEF StageAt, Building
  <1>d. ASSUME proc[p].pc \in Critical
        PROVE  proc[q].pc \notin Building \cup Binding
      BY <1>b, <1>d, OnlyOne DEF TypeOK
  <1>i. ASSUME proc[q].pc \in Building \cup Binding
        PROVE  proc[q].id \in Ids /\ proc[q].id # 0 /\ proc[q].pc \in Importing
      BY <1>i, IdInRange DEF TypeOK, SnapshotInv, Importing, Ids
  <1>r. RemovalAt(p) /\ CreationInv
      BY DEF SnapshotInv, RemovalInv
  <1>1. ASSUME Ends(p)
        PROVE  StageAt(q)'
      BY <1>m, <1>1 DEF Ends, Frame, SourceKept, StageAt, FileStage, LiveStage
  <1>2. ASSUME Aside(p)
        PROVE  StageAt(q)'
    <2>1. ASSUME proc[q].pc \in Building, proc[q].obj = "live", cfg.version > 0
          PROVE  cfg'.version > 0
        BY <1>2, <2>1 DEF Aside
    <2>2. CASE proc[q].pc \in Building \cup Binding
        BY <1>i, <1>m, <1>2, <2>1, <2>2 DEF Aside, Building, StageAt, FileStage, LiveStage
    <2> QED  BY <1>c, <2>2
  <1>3. ASSUME Fails(p)
        PROVE  StageAt(q)'
    <2>1. proc[p].pc \in Critical
        BY <1>3 DEF Fails, Critical, Building
    <2> QED  BY <1>c, <1>d, <2>1
  <1>4. ASSUME Proceeds(p)
        PROVE  StageAt(q)'
    <2>1. CASE Frame
        BY <1>m, <2>1 DEF Frame, SourceKept, StageAt, FileStage, LiveStage
    <2> QED  BY <1>4, <2>1 DEF Proceeds
  <1>5. ASSUME Begins(p)
        PROVE  StageAt(q)'
    <2>1. proc[p].pc \in Critical
        BY <1>5 DEF Begins, Critical, Building
    <2> QED  BY <1>c, <1>d, <2>1
  <1>6. ASSUME Tables(p)
        PROVE  StageAt(q)'
    <2>1. proc[p].pc \in Critical
        BY <1>6 DEF Tables, Passes, Critical, Building
    <2> QED  BY <1>c, <1>d, <2>1
  <1>7. ASSUME Readies(p)
        PROVE  StageAt(q)'
    <2>1. proc[p].pc \in Critical
        BY <1>7 DEF Readies, Passes, Critical, Building
    <2> QED  BY <1>c, <1>d, <2>1
  <1>8. ASSUME Profiles(p)
        PROVE  StageAt(q)'
    <2>1. proc[p].pc \in Critical
        BY <1>8 DEF Profiles, Passes, Critical, Building
    <2> QED  BY <1>c, <1>d, <2>1
  <1>9. ASSUME Binds(p)
        PROVE  StageAt(q)'
    <2>1. proc[p].pc \in Critical
        BY <1>9 DEF Binds, Passes, Critical, Building
    <2> QED  BY <1>c, <1>d, <2>1
  <1>10. ASSUME Lists(p)
        PROVE  StageAt(q)'
    <2>1. proc[p].pc \in Critical
        BY <1>10 DEF Lists, Critical, Building
    <2> QED  BY <1>c, <1>d, <2>1
  <1>11. ASSUME NEW i \in Ids, Cleans(p, i)
        PROVE  StageAt(q)'
    <2>1. proc[p].pc \in Critical
        BY <1>11 DEF Cleans, Critical, Building
    <2> QED  BY <1>c, <1>d, <2>1
  <1>12. ASSUME RemoveLists(p)
        PROVE  StageAt(q)'
      BY <1>m, <1>12 DEF RemoveLists, SourceKept, StageAt, FileStage, LiveStage
  <1>13. ASSUME NEW i \in Ids, RemoveTable(p, i)
        PROVE  StageAt(q)'
    <2>1. proc[q].pc \notin Critical
        BY <1>13, ConstantsAssumption DEF RemoveTable, TypeOK, LockHeld
    <2> QED  BY <1>b, <1>c, <2>1
  <1>14. ASSUME RemovePasses(p)
        PROVE  StageAt(q)'
      BY <1>m, <1>14 DEF RemovePasses, Frame, SourceKept, StageAt, FileStage, LiveStage
  <1>15. ASSUME RemoveProfs(p)
        PROVE  StageAt(q)'
    <2>1. CASE proc[q].pc \in Building \cup Binding
      <3>1. ASSUME proc[q].id \in proc[p].sel, proc[q].pc \in Building
            PROVE  /\ proc[q].obj = "live" /\ "live" \in torn
        <4>1. proc[p].obj = "live" /\ "live" \in torn
            BY <1>i, <1>15, <1>p, <1>r, <2>1, <3>1 DEF RemoveProfs, Passes, Stopped, RemovalAt
        <4>2. db.snap[proc[q].id].status = "none" \/ db.snap[proc[q].id].obj = "live"
            BY <1>15, <1>r, <3>1, <4>1 DEF RemoveProfs, Passes, Stopped, RemovalAt
        <4>3. proc[q].obj # "file"
            BY <1>m, <3>1, <4>2 DEF StageAt, FileStage, Building
        <4>4. proc[q].obj \in {"file", "live"}
            BY ProcFields DEF TypeOK, Objs
        <4> QED  BY <4>1, <4>3, <4>4
      <3>2. CASE proc[q].id \in proc[p].sel /\ proc[q].pc \in Building
        <4>1. db'.snap[proc[q].id] = db.snap[proc[q].id] \/ db'.snap[proc[q].id].status = "none"
            BY <1>i, <1>15, <1>t, <2>1 DEF RemoveProfs, NoSnap
        <4> QED  BY <1>m, <1>15, <3>1, <3>2, <4>1 DEF RemoveProfs, SourceKept, Building, Binding, StageAt, FileStage, LiveStage
      <3>3. CASE proc[q].id \notin proc[p].sel
        <4>1. db'.snap[proc[q].id] = db.snap[proc[q].id] /\ db'.prof[proc[q].id] = db.prof[proc[q].id]
            BY <1>i, <1>15, <1>t, <2>1, <3>3 DEF RemoveProfs
        <4> QED  BY <1>m, <1>15, <4>1 DEF RemoveProfs, SourceKept, StageAt, FileStage, LiveStage
      <3>4. CASE proc[q].pc \in Binding
          BY <1>m, <1>15, <3>4 DEF RemoveProfs, StageAt, Building, Binding
      <3> QED  BY <2>1, <3>2, <3>3, <3>4
    <2> QED  BY <1>c, <2>1
  <1>16. ASSUME NEW i \in Ids, RemoveSnapshot(p, i)
        PROVE  StageAt(q)'
    <2>1. CASE proc[q].pc \in Building \cup Binding
      <3>1. ASSUME proc[q].id \in proc[p].sel, proc[q].pc \in Building
            PROVE  /\ proc[q].obj = "live" /\ "live" \in torn
        <4>1. proc[p].obj = "live" /\ "live" \in torn
            BY <1>i, <1>16, <1>p, <1>r, <2>1, <3>1 DEF RemoveSnapshot, RemovalAt
        <4>2. db.snap[proc[q].id].status = "none" \/ db.snap[proc[q].id].obj = "live"
            BY <1>16, <1>r, <3>1, <4>1 DEF RemoveSnapshot, RemovalAt
        <4>3. proc[q].obj # "file"
            BY <1>m, <3>1, <4>2 DEF StageAt, FileStage, Building
        <4>4. proc[q].obj \in {"file", "live"}
            BY ProcFields DEF TypeOK, Objs
        <4> QED  BY <4>1, <4>3, <4>4
      <3>2. CASE proc[q].id \in proc[p].sel /\ proc[q].pc \in Building
        <4>1. db'.snap[proc[q].id] = db.snap[proc[q].id] \/ db'.snap[proc[q].id].status = "none"
            BY <1>i, <1>16, <1>t, <2>1 DEF RemoveSnapshot, NoSnap
        <4> QED  BY <1>m, <1>16, <3>1, <3>2, <4>1 DEF RemoveSnapshot, SourceKept, Building, Binding, StageAt, FileStage, LiveStage
      <3>3. CASE proc[q].id \notin proc[p].sel
        <4>1. db'.snap[proc[q].id] = db.snap[proc[q].id] /\ db'.prof[proc[q].id] = db.prof[proc[q].id]
            BY <1>i, <1>16, <1>t, <2>1, <3>3 DEF RemoveSnapshot
        <4> QED  BY <1>m, <1>16, <4>1 DEF RemoveSnapshot, SourceKept, StageAt, FileStage, LiveStage
      <3>4. CASE proc[q].pc \in Binding
          BY <1>m, <1>16, <3>4 DEF RemoveSnapshot, StageAt, Building, Binding
      <3> QED  BY <2>1, <3>2, <3>3, <3>4
    <2> QED  BY <1>c, <2>1
  <1>17. ASSUME Unbinds(p)
        PROVE  StageAt(q)'
    <2>1. CASE proc[q].pc \in Building \cup Binding
      <3>1. \A o \in Objs : db'.bind[o] \in {0, db.bind[o]}
          BY <1>17, <1>t DEF Unbinds
      <3>2. proc[q].obj \in Objs
          BY ProcFields DEF TypeOK
      <3> QED  BY <1>i, <1>m, <1>17, <2>1, <3>1, <3>2 DEF Unbinds, SourceKept, StageAt, FileStage, LiveStage
    <2> QED  BY <1>c, <2>1
  <1>18. ASSUME Deletes(p)
        PROVE  StageAt(q)'
    <2>1. CASE proc[q].pc \in Building \cup Binding
      <3>1. \A o \in Objs : db'.bind[o] \in {0, db.bind[o]}
          BY <1>18, <1>t DEF Deletes
      <3>2. proc[q].obj \in Objs
          BY ProcFields DEF TypeOK
      <3>3. \/ db.snap[proc[q].id].obj = "live" /\ db'.snap[proc[q].id].status = "none"
            \/ /\ db'.snap[proc[q].id] = db.snap[proc[q].id]
               /\ db'.prof[proc[q].id] = db.prof[proc[q].id]
          BY <1>i, <1>18, <1>t, <2>1 DEF Deletes, Rows, NoSnap
      <3>4. cfg'.version = cfg.version /\ ~db'.src["live"] /\ table' = table
          BY <1>18 DEF Deletes
      <3>5. CASE proc[q].pc \in Building
        <4>1. \A o \in Objs : db'.bind[o] # proc[q].id
            BY <1>i, <1>m, <2>1, <3>1, <3>5 DEF StageAt
        <4>2. proc[q].obj = "file" => FileStage(proc[q])'
          <5>1. ASSUME proc[q].obj = "file"
                PROVE  db.snap[proc[q].id].obj = "file"
              BY <1>m, <3>5, <5>1 DEF StageAt, FileStage, Building
          <5> QED  BY <1>m, <3>3, <3>4, <3>5, <5>1 DEF StageAt, FileStage
        <4>3. proc[q].obj = "live" => LiveStage(proc[q])'
            BY <1>m, <3>3, <3>4, <3>5 DEF StageAt, LiveStage
        <4> QED  BY <1>m, <3>5, <4>1, <4>2, <4>3 DEF StageAt, Building, Binding
      <3>6. CASE proc[q].pc \in Binding
          BY <1>m, <3>1, <3>2, <3>6 DEF StageAt, Building, Binding
      <3> QED  BY <2>1, <3>5, <3>6
    <2> QED  BY <1>c, <2>1
  <1>19. ASSUME CreatesSource(p)
        PROVE  StageAt(q)'
    <2>1. cfg.version = 0
        BY <1>19, <1>r DEF CreatesSource, Passes, CreationInv
    <2>2. CASE proc[q].pc \in Building /\ proc[q].obj = "live"
      <3>1. proc[q].pc \notin {"i_profile", "b_ready", "i_bind"}
          BY <1>m, <2>1, <2>2 DEF StageAt, LiveStage
      <3> QED  BY <1>m, <1>19, <2>2, <3>1 DEF CreatesSource, Building, Binding, StageAt, FileStage, LiveStage
    <2>3. CASE proc[q].pc \notin Building \/ proc[q].obj # "live"
        BY <1>m, <1>19, <2>3 DEF CreatesSource, Building, Binding, StageAt, FileStage, LiveStage
    <2> QED  BY <2>2, <2>3
  <1>20. ASSUME Enters(p)
        PROVE  StageAt(q)'
      BY <1>m, <1>20 DEF Enters, StageAt, FileStage, LiveStage
  <1> QED
      BY <1>1, <1>2, <1>3, <1>4, <1>5, <1>6, <1>7, <1>8, <1>9,
         <1>10, <1>11, <1>12, <1>13, <1>14, <1>15, <1>16, <1>17, <1>18,
         <1>19, <1>20 DEF Works, StepOf

\* What request p has written by the stage it reaches.
LEMMA StageOwn ==
    ASSUME TypeOK, SnapshotInv, NEW p \in Procs, StepOf(p)
    PROVE  StageAt(p)'
  <1>t. /\ db.snap \in [Ids -> [obj : Objs, status : {"none", "creating", "ready", "failed"}]]
        /\ db.prof \in [Ids -> {"none", "profiled", "confirmed"}]
        /\ db.bind \in [Objs -> Ids \cup {0}]
      BY DbFields DEF TypeOK, StateType
  <1>p. proc[p].obj \in {"file", "live"} /\ proc[p].sel \subseteq Ids
      BY ProcFields DEF TypeOK, Objs
  <1>m. StageAt(p) /\ CreationInv /\ UnbornClean
      BY DEF SnapshotInv, StageInv
  <1>i. ASSUME proc[p].pc \in Importing
        PROVE  proc[p].id \in Ids /\ proc[p].id # 0
      BY <1>i, IdInRange DEF TypeOK, SnapshotInv, Ids
  <1>1. ASSUME Ends(p)
        PROVE  StageAt(p)'
      BY <1>1 DEF Ends, Stopped, StageAt, Building, Binding
  <1>2. ASSUME Aside(p)
        PROVE  StageAt(p)'
      BY <1>2 DEF Aside, Outside, Importing, StageAt, Early, Building, Binding
  <1>3. ASSUME Fails(p)
        PROVE  StageAt(p)'
      BY <1>3 DEF Fails, Stopped, StageAt, Building, Binding
  <1>4. ASSUME Proceeds(p)
        PROVE  StageAt(p)'
    <2>1. CASE proc[p].pc \in Early
        BY <1>4, <2>1 DEF Proceeds, Passes, Keeps, Early, StageAt, Building, Binding
    <2>2. CASE Passes(p, "i_rows", "i_schema")
        BY <1>m, <1>4, <2>2 DEF Proceeds, Frame, Passes, Keeps, StageAt, FileStage, Building, Binding
    <2>3. CASE Passes(p, "i_schema", "i_check")
        BY <1>m, <1>4, <2>3 DEF Proceeds, Frame, Passes, Keeps, StageAt, FileStage, Building, Binding
    <2>4. CASE Passes(p, "b_fetch", "i_profile") /\ cfg.on
      <3>1. cfg'.version > 0
          BY <1>m, <1>4, <2>4 DEF Proceeds, Frame, SourceKept, CreationInv
      <3> QED  BY <1>m, <1>4, <2>4, <3>1 DEF Proceeds, Frame, Passes, Keeps, StageAt, LiveStage, Building, Binding
    <2> QED  BY <1>4, <2>1, <2>2, <2>3, <2>4 DEF Proceeds
  <1>5. ASSUME Begins(p)
        PROVE  StageAt(p)'
    <2>0. proc[p].id \in Ids /\ proc[p].id # 0
        BY <1>i, <1>5 DEF Begins, Passes, Importing, Early, Building, Binding
    <2>1. \A o \in Objs : db'.bind[o] # proc[p].id
        BY <1>m, <1>5, <2>0 DEF Begins, UnbornClean, Unborn, Early
    <2>2. db'.snap[proc[p].id] = [obj |-> proc[p].obj, status |-> "creating"]
        BY <1>5, <1>t, <2>0 DEF Begins
    <2>3. CASE proc[p].obj = "file"
        BY <1>5, <2>1, <2>2, <2>3 DEF Begins, Keeps, StageAt, FileStage, Building, Binding
    <2>4. CASE proc[p].obj = "live"
        BY <1>5, <2>1, <2>2, <2>4 DEF Begins, Keeps, StageAt, LiveStage, Building, Binding
    <2> QED  BY <1>p, <2>3, <2>4
  <1>6. ASSUME Tables(p)
        PROVE  StageAt(p)'
      BY <1>m, <1>6 DEF Tables, Passes, Keeps, StageAt, FileStage, Building, Binding
  <1>7. ASSUME Readies(p)
        PROVE  StageAt(p)'
    <2>0. proc[p].id \in Ids /\ proc[p].id # 0
        BY <1>i, <1>7 DEF Readies, Passes, Importing, Early, Building, Binding
    <2>1. \A o \in Objs : db'.bind[o] # proc[p].id
        BY <1>m, <1>7 DEF Readies, Passes, StageAt, Building
    <2>2. db.snap[proc[p].id].status # "none" =>
            db'.snap[proc[p].id] = [obj |-> db.snap[proc[p].id].obj, status |-> "ready"]
        BY <1>7, <1>t, <2>0 DEF Readies
    <2>3. CASE Passes(p, "i_check", "i_profile")
        BY <1>m, <1>7, <2>1, <2>2, <2>3 DEF Readies, Passes, Keeps, StageAt, FileStage, Building, Binding
    <2>4. CASE Passes(p, "b_ready", "i_bind")
        BY <1>m, <1>7, <2>1, <2>2, <2>4 DEF Readies, SourceKept, Passes, Keeps, StageAt, LiveStage, Building, Binding
    <2> QED  BY <1>7, <2>3, <2>4 DEF Readies
  <1>8. ASSUME Profiles(p)
        PROVE  StageAt(p)'
    <2>0. proc[p].id \in Ids /\ proc[p].id # 0
        BY <1>i, <1>8 DEF Profiles, Passes, Importing, Early, Building, Binding
    <2>1. \A o \in Objs : db'.bind[o] # proc[p].id
        BY <1>m, <1>8 DEF Profiles, Passes, StageAt, Building
    <2>2. db'.prof[proc[p].id] # "none"
        BY <1>8, <1>t, <2>0 DEF Profiles
    <2>3. CASE proc[p].obj = "file"
        BY <1>m, <1>8, <2>1, <2>2, <2>3 DEF Profiles, Passes, Keeps, StageAt, FileStage, Building, Binding
    <2>4. CASE proc[p].obj = "live"
        BY <1>m, <1>8, <2>1, <2>2, <2>4 DEF Profiles, SourceKept, Passes, Keeps, StageAt, LiveStage, Building, Binding
    <2> QED  BY <1>p, <2>3, <2>4
  <1>9. ASSUME Binds(p)
        PROVE  StageAt(p)'
    <2>0. proc[p].id \in Ids /\ proc[p].id # 0
        BY <1>i, <1>9 DEF Binds, Passes, Importing, Early, Building, Binding
    <2> QED  BY <1>9, <1>p, <1>t, <2>0 DEF Binds, Passes, Keeps, StageAt, Building, Binding, Objs
  <1>10. ASSUME Lists(p)
        PROVE  StageAt(p)'
      BY <1>m, <1>10 DEF Lists, Frame, Keeps, StageAt, Building, Binding
  <1>11. ASSUME NEW i \in Ids, Cleans(p, i)
        PROVE  StageAt(p)'
      BY <1>m, <1>11 DEF Cleans, Keeps, StageAt, Building, Binding
  <1>12. ASSUME RemoveLists(p)
        PROVE  StageAt(p)'
      BY <1>12 DEF RemoveLists, Passes, StageAt, Building, Binding
  <1>13. ASSUME NEW i \in Ids, RemoveTable(p, i)
        PROVE  StageAt(p)'
      BY <1>13 DEF RemoveTable, Passes, StageAt, Building, Binding
  <1>14. ASSUME RemovePasses(p)
        PROVE  StageAt(p)'
      BY <1>14 DEF RemovePasses, Passes, StageAt, Building, Binding
  <1>15. ASSUME RemoveProfs(p)
        PROVE  StageAt(p)'
      BY <1>15 DEF RemoveProfs, Passes, Stopped, StageAt, Building, Binding
  <1>16. ASSUME NEW i \in Ids, RemoveSnapshot(p, i)
        PROVE  StageAt(p)'
      BY <1>16 DEF RemoveSnapshot, Passes, StageAt, Building, Binding
  <1>17. ASSUME Unbinds(p)
        PROVE  StageAt(p)'
      BY <1>17 DEF Unbinds, Stopped, StageAt, Building, Binding
  <1>18. ASSUME Deletes(p)
        PROVE  StageAt(p)'
      BY <1>18 DEF Deletes, Stopped, StageAt, Building, Binding
  <1>19. ASSUME CreatesSource(p)
        PROVE  StageAt(p)'
      BY <1>19 DEF CreatesSource, Passes, StageAt, Building, Binding
  <1>20. ASSUME Enters(p)
        PROVE  StageAt(p)'
      BY <1>20 DEF Enters, StageAt, Building, Binding
  <1> QED
      BY <1>1, <1>2, <1>3, <1>4, <1>5, <1>6, <1>7, <1>8, <1>9,
         <1>10, <1>11, <1>12, <1>13, <1>14, <1>15, <1>16, <1>17, <1>18,
         <1>19, <1>20 DEF Works, StepOf

LEMMA StageStep ==
    ASSUME TypeOK, SnapshotInv, NEW p \in Procs, StepOf(p)
    PROVE  StageInv'
  BY StageOthers, StageOwn DEF StageInv

-----------------------------------------------------------------------------
(* The other parts of the invariant.                                       *)

\* What a step may do to the live source's row and configuration.
LEMMA SourceEffect ==
    ASSUME NEW p \in Procs, Works(p)
    PROVE  /\ proc'[p].pc # "n_row"
           /\ \/ SourceKept
              \/ /\ db'.src["live"] = db.src["live"]
                 /\ db.src["live"] \/ cfg.on
                 /\ cfg'.version > 0
              \/ ~db'.src["live"] /\ cfg'.version = cfg.version /\ ~cfg'.on
              \/ proc[p].pc = "n_row" /\ cfg' = cfg
  <1>1. ASSUME Ends(p)
        PROVE  /\ proc'[p].pc # "n_row"
               /\ \/ SourceKept
                  \/ /\ db'.src["live"] = db.src["live"]
                     /\ db.src["live"] \/ cfg.on
                     /\ cfg'.version > 0
                  \/ ~db'.src["live"] /\ cfg'.version = cfg.version /\ ~cfg'.on
                  \/ proc[p].pc = "n_row" /\ cfg' = cfg
      BY <1>1 DEF Ends, Stopped, Frame
  <1>2. ASSUME Aside(p)
        PROVE  /\ proc'[p].pc # "n_row"
               /\ \/ SourceKept
                  \/ /\ db'.src["live"] = db.src["live"]
                     /\ db.src["live"] \/ cfg.on
                     /\ cfg'.version > 0
                  \/ ~db'.src["live"] /\ cfg'.version = cfg.version /\ ~cfg'.on
                  \/ proc[p].pc = "n_row" /\ cfg' = cfg
      BY <1>2 DEF Aside, Outside, SourceKept
  <1>3. ASSUME Fails(p)
        PROVE  /\ proc'[p].pc # "n_row"
               /\ \/ SourceKept
                  \/ /\ db'.src["live"] = db.src["live"]
                     /\ db.src["live"] \/ cfg.on
                     /\ cfg'.version > 0
                  \/ ~db'.src["live"] /\ cfg'.version = cfg.version /\ ~cfg'.on
                  \/ proc[p].pc = "n_row" /\ cfg' = cfg
      BY <1>3 DEF Fails, Stopped
  <1>4. ASSUME Proceeds(p)
        PROVE  /\ proc'[p].pc # "n_row"
               /\ \/ SourceKept
                  \/ /\ db'.src["live"] = db.src["live"]
                     /\ db.src["live"] \/ cfg.on
                     /\ cfg'.version > 0
                  \/ ~db'.src["live"] /\ cfg'.version = cfg.version /\ ~cfg'.on
                  \/ proc[p].pc = "n_row" /\ cfg' = cfg
      BY <1>4 DEF Proceeds, Passes, Frame, Early
  <1>5. ASSUME Begins(p)
        PROVE  /\ proc'[p].pc # "n_row"
               /\ \/ SourceKept
                  \/ /\ db'.src["live"] = db.src["live"]
                     /\ db.src["live"] \/ cfg.on
                     /\ cfg'.version > 0
                  \/ ~db'.src["live"] /\ cfg'.version = cfg.version /\ ~cfg'.on
                  \/ proc[p].pc = "n_row" /\ cfg' = cfg
      BY <1>5 DEF Begins, Passes
  <1>6. ASSUME Tables(p)
        PROVE  /\ proc'[p].pc # "n_row"
               /\ \/ SourceKept
                  \/ /\ db'.src["live"] = db.src["live"]
                     /\ db.src["live"] \/ cfg.on
                     /\ cfg'.version > 0
                  \/ ~db'.src["live"] /\ cfg'.version = cfg.version /\ ~cfg'.on
                  \/ proc[p].pc = "n_row" /\ cfg' = cfg
      BY <1>6 DEF Tables, Passes
  <1>7. ASSUME Readies(p)
        PROVE  /\ proc'[p].pc # "n_row"
               /\ \/ SourceKept
                  \/ /\ db'.src["live"] = db.src["live"]
                     /\ db.src["live"] \/ cfg.on
                     /\ cfg'.version > 0
                  \/ ~db'.src["live"] /\ cfg'.version = cfg.version /\ ~cfg'.on
                  \/ proc[p].pc = "n_row" /\ cfg' = cfg
      BY <1>7 DEF Readies, Passes
  <1>8. ASSUME Profiles(p)
        PROVE  /\ proc'[p].pc # "n_row"
               /\ \/ SourceKept
                  \/ /\ db'.src["live"] = db.src["live"]
                     /\ db.src["live"] \/ cfg.on
                     /\ cfg'.version > 0
                  \/ ~db'.src["live"] /\ cfg'.version = cfg.version /\ ~cfg'.on
                  \/ proc[p].pc = "n_row" /\ cfg' = cfg
      BY <1>8 DEF Profiles, Passes
  <1>9. ASSUME Binds(p)
        PROVE  /\ proc'[p].pc # "n_row"
               /\ \/ SourceKept
                  \/ /\ db'.src["live"] = db.src["live"]
                     /\ db.src["live"] \/ cfg.on
                     /\ cfg'.version > 0
                  \/ ~db'.src["live"] /\ cfg'.version = cfg.version /\ ~cfg'.on
                  \/ proc[p].pc = "n_row" /\ cfg' = cfg
      BY <1>9 DEF Binds, Passes
  <1>10. ASSUME Lists(p)
        PROVE  /\ proc'[p].pc # "n_row"
               /\ \/ SourceKept
                  \/ /\ db'.src["live"] = db.src["live"]
                     /\ db.src["live"] \/ cfg.on
                     /\ cfg'.version > 0
                  \/ ~db'.src["live"] /\ cfg'.version = cfg.version /\ ~cfg'.on
                  \/ proc[p].pc = "n_row" /\ cfg' = cfg
      BY <1>10 DEF Lists, Frame
  <1>11. ASSUME NEW i \in Ids, Cleans(p, i)
        PROVE  /\ proc'[p].pc # "n_row"
               /\ \/ SourceKept
                  \/ /\ db'.src["live"] = db.src["live"]
                     /\ db.src["live"] \/ cfg.on
                     /\ cfg'.version > 0
                  \/ ~db'.src["live"] /\ cfg'.version = cfg.version /\ ~cfg'.on
                  \/ proc[p].pc = "n_row" /\ cfg' = cfg
      BY <1>11 DEF Cleans, Passes
  <1>12. ASSUME RemoveLists(p)
        PROVE  /\ proc'[p].pc # "n_row"
               /\ \/ SourceKept
                  \/ /\ db'.src["live"] = db.src["live"]
                     /\ db.src["live"] \/ cfg.on
                     /\ cfg'.version > 0
                  \/ ~db'.src["live"] /\ cfg'.version = cfg.version /\ ~cfg'.on
                  \/ proc[p].pc = "n_row" /\ cfg' = cfg
      BY <1>12 DEF RemoveLists, Passes
  <1>13. ASSUME NEW i \in Ids, RemoveTable(p, i)
        PROVE  /\ proc'[p].pc # "n_row"
               /\ \/ SourceKept
                  \/ /\ db'.src["live"] = db.src["live"]
                     /\ db.src["live"] \/ cfg.on
                     /\ cfg'.version > 0
                  \/ ~db'.src["live"] /\ cfg'.version = cfg.version /\ ~cfg'.on
                  \/ proc[p].pc = "n_row" /\ cfg' = cfg
      BY <1>13 DEF RemoveTable, Passes
  <1>14. ASSUME RemovePasses(p)
        PROVE  /\ proc'[p].pc # "n_row"
               /\ \/ SourceKept
                  \/ /\ db'.src["live"] = db.src["live"]
                     /\ db.src["live"] \/ cfg.on
                     /\ cfg'.version > 0
                  \/ ~db'.src["live"] /\ cfg'.version = cfg.version /\ ~cfg'.on
                  \/ proc[p].pc = "n_row" /\ cfg' = cfg
      BY <1>14 DEF RemovePasses, Passes, Frame
  <1>15. ASSUME RemoveProfs(p)
        PROVE  /\ proc'[p].pc # "n_row"
               /\ \/ SourceKept
                  \/ /\ db'.src["live"] = db.src["live"]
                     /\ db.src["live"] \/ cfg.on
                     /\ cfg'.version > 0
                  \/ ~db'.src["live"] /\ cfg'.version = cfg.version /\ ~cfg'.on
                  \/ proc[p].pc = "n_row" /\ cfg' = cfg
      BY <1>15 DEF RemoveProfs, Passes, Stopped
  <1>16. ASSUME NEW i \in Ids, RemoveSnapshot(p, i)
        PROVE  /\ proc'[p].pc # "n_row"
               /\ \/ SourceKept
                  \/ /\ db'.src["live"] = db.src["live"]
                     /\ db.src["live"] \/ cfg.on
                     /\ cfg'.version > 0
                  \/ ~db'.src["live"] /\ cfg'.version = cfg.version /\ ~cfg'.on
                  \/ proc[p].pc = "n_row" /\ cfg' = cfg
      BY <1>16 DEF RemoveSnapshot, Passes
  <1>17. ASSUME Unbinds(p)
        PROVE  /\ proc'[p].pc # "n_row"
               /\ \/ SourceKept
                  \/ /\ db'.src["live"] = db.src["live"]
                     /\ db.src["live"] \/ cfg.on
                     /\ cfg'.version > 0
                  \/ ~db'.src["live"] /\ cfg'.version = cfg.version /\ ~cfg'.on
                  \/ proc[p].pc = "n_row" /\ cfg' = cfg
      BY <1>17 DEF Unbinds, Stopped
  <1>18. ASSUME Deletes(p)
        PROVE  /\ proc'[p].pc # "n_row"
               /\ \/ SourceKept
                  \/ /\ db'.src["live"] = db.src["live"]
                     /\ db.src["live"] \/ cfg.on
                     /\ cfg'.version > 0
                  \/ ~db'.src["live"] /\ cfg'.version = cfg.version /\ ~cfg'.on
                  \/ proc[p].pc = "n_row" /\ cfg' = cfg
      BY <1>18 DEF Deletes, Stopped
  <1>19. ASSUME CreatesSource(p)
        PROVE  /\ proc'[p].pc # "n_row"
               /\ \/ SourceKept
                  \/ /\ db'.src["live"] = db.src["live"]
                     /\ db.src["live"] \/ cfg.on
                     /\ cfg'.version > 0
                  \/ ~db'.src["live"] /\ cfg'.version = cfg.version /\ ~cfg'.on
                  \/ proc[p].pc = "n_row" /\ cfg' = cfg
      BY <1>19 DEF CreatesSource, Passes
  <1> QED
      BY <1>1, <1>2, <1>3, <1>4, <1>5, <1>6, <1>7, <1>8, <1>9,
         <1>10, <1>11, <1>12, <1>13, <1>14, <1>15, <1>16, <1>17, <1>18,
         <1>19 DEF Works

LEMMA CreationStep ==
    ASSUME CreationInv, NEW p \in Procs, StepOf(p)
    PROVE  CreationInv'
  <1>1. CASE Moves(p) /\ Works(p)
    <2>1. \A q \in Procs : proc'[q].pc = "n_row" => q # p /\ proc[q].pc = "n_row"
        BY <1>1, SourceEffect DEF Moves
    <2>2. cfg'.on => cfg'.version > 0
        BY <1>1, SourceEffect DEF CreationInv, SourceKept
    <2>3. ASSUME NEW q \in Procs, proc'[q].pc = "n_row"
          PROVE  ~db'.src["live"] /\ cfg'.version = 0
      <3>1. ~db.src["live"] /\ cfg.version = 0 /\ ~cfg.on /\ proc[p].pc # "n_row"
          BY <2>1, <2>3 DEF CreationInv
      <3> QED  BY <1>1, <3>1, SourceEffect DEF SourceKept
    <2> QED  BY <2>1, <2>2, <2>3 DEF CreationInv
  <1>2. CASE Enters(p)
    <2>1. db' = db /\ cfg' = cfg /\ \A q \in Procs \ {p} : proc'[q] = proc[q]
        BY <1>2 DEF Enters
    <2>2. proc'[p].pc = "n_row" =>
            ~db.src["live"] /\ cfg.version = 0 /\ \A q \in Procs : proc[q].pc # "n_row"
        BY <1>2 DEF Enters
    <2> QED  BY <2>1, <2>2 DEF CreationInv
  <1> QED  BY <1>1, <1>2 DEF StepOf

\* What happens to snapshots, tables and the objects taken apart.
LEMMA RowsEffect ==
    ASSUME TypeOK, SnapshotInv, NEW p \in Procs, Works(p)
    PROVE  /\ torn \subseteq torn' \/ Unbinds(p)
           /\ table' \subseteq table
                \/ /\ proc[p].pc \in Importing /\ proc[p].id \in Ids
                   /\ table' = table \cup {proc[p].id}
           /\ \A j \in Ids :
                \/ db'.snap[j].status = "none"
                \/ db.snap[j].status # "none" /\ db'.snap[j].obj = db.snap[j].obj
                \/ Unborn(j) /\ proc[p].pc = "i_begin"
  <1>t. /\ db.snap \in [Ids -> [obj : Objs, status : {"none", "creating", "ready", "failed"}]]
        /\ db.prof \in [Ids -> {"none", "profiled", "confirmed"}]
        /\ db.bind \in [Objs -> Ids \cup {0}]
      BY DbFields DEF TypeOK, StateType
  <1>p. proc[p].obj \in {"file", "live"} /\ proc[p].sel \subseteq Ids
      BY ProcFields DEF TypeOK, Objs
  <1>i. ASSUME proc[p].pc \in Importing
        PROVE  proc[p].id \in Ids
      BY <1>i, IdInRange DEF TypeOK, SnapshotInv
  <1>1. ASSUME Ends(p)
        PROVE  /\ torn \subseteq torn'
               /\ table' \subseteq table
                    \/ /\ proc[p].pc \in Importing /\ proc[p].id \in Ids
                       /\ table' = table \cup {proc[p].id}
               /\ \A j \in Ids :
                    \/ db'.snap[j].status = "none"
                    \/ db.snap[j].status # "none" /\ db'.snap[j].obj = db.snap[j].obj
                    \/ Unborn(j) /\ proc[p].pc = "i_begin"
    <2>1. torn \subseteq torn' /\ table' \subseteq table
        BY <1>1 DEF Ends, Frame
    <2>2. ASSUME NEW j \in Ids
          PROVE  \/ db'.snap[j].status = "none"
                 \/ db.snap[j].status # "none" /\ db'.snap[j].obj = db.snap[j].obj
        BY <1>1, <1>t DEF Ends, Frame
    <2> QED  BY <2>1, <2>2
  <1>2. ASSUME Aside(p)
        PROVE  /\ torn \subseteq torn'
               /\ table' \subseteq table
                    \/ /\ proc[p].pc \in Importing /\ proc[p].id \in Ids
                       /\ table' = table \cup {proc[p].id}
               /\ \A j \in Ids :
                    \/ db'.snap[j].status = "none"
                    \/ db.snap[j].status # "none" /\ db'.snap[j].obj = db.snap[j].obj
                    \/ Unborn(j) /\ proc[p].pc = "i_begin"
    <2>1. torn \subseteq torn' /\ table' \subseteq table
        BY <1>2 DEF Aside
    <2>2. ASSUME NEW j \in Ids
          PROVE  \/ db'.snap[j].status = "none"
                 \/ db.snap[j].status # "none" /\ db'.snap[j].obj = db.snap[j].obj
        BY <1>2, <1>t DEF Aside
    <2> QED  BY <2>1, <2>2
  <1>3. ASSUME Fails(p)
        PROVE  /\ torn \subseteq torn'
               /\ table' \subseteq table
                    \/ /\ proc[p].pc \in Importing /\ proc[p].id \in Ids
                       /\ table' = table \cup {proc[p].id}
               /\ \A j \in Ids :
                    \/ db'.snap[j].status = "none"
                    \/ db.snap[j].status # "none" /\ db'.snap[j].obj = db.snap[j].obj
                    \/ Unborn(j) /\ proc[p].pc = "i_begin"
    <2>1. proc[p].id \in Ids /\ proc[p].pc \in Importing
        BY <1>i, <1>3 DEF Fails, Passes, Importing, Early, Building
    <2>2. torn \subseteq torn'
        BY <1>3 DEF Fails
    <2>3. table' \subseteq table \/ table' = table \cup {proc[p].id}
        BY <1>3 DEF Fails
    <2>4. ASSUME NEW j \in Ids
          PROVE  \/ db'.snap[j].status = "none"
                 \/ db.snap[j].status # "none" /\ db'.snap[j].obj = db.snap[j].obj
                 \/ Unborn(j) /\ proc[p].pc = "i_begin"
        BY <1>3, <1>t, <2>1 DEF Fails, Early
    <2> QED  BY <2>1, <2>2, <2>3, <2>4
  <1>4. ASSUME Proceeds(p)
        PROVE  /\ torn \subseteq torn'
               /\ table' \subseteq table
                    \/ /\ proc[p].pc \in Importing /\ proc[p].id \in Ids
                       /\ table' = table \cup {proc[p].id}
               /\ \A j \in Ids :
                    \/ db'.snap[j].status = "none"
                    \/ db.snap[j].status # "none" /\ db'.snap[j].obj = db.snap[j].obj
                    \/ Unborn(j) /\ proc[p].pc = "i_begin"
    <2>1. torn \subseteq torn' /\ table' \subseteq table
        BY <1>4 DEF Proceeds, Frame
    <2>2. ASSUME NEW j \in Ids
          PROVE  \/ db'.snap[j].status = "none"
                 \/ db.snap[j].status # "none" /\ db'.snap[j].obj = db.snap[j].obj
        BY <1>4, <1>t DEF Proceeds, Frame
    <2> QED  BY <2>1, <2>2
  <1>5. ASSUME Begins(p)
        PROVE  /\ torn \subseteq torn'
               /\ table' \subseteq table
                    \/ /\ proc[p].pc \in Importing /\ proc[p].id \in Ids
                       /\ table' = table \cup {proc[p].id}
               /\ \A j \in Ids :
                    \/ db'.snap[j].status = "none"
                    \/ db.snap[j].status # "none" /\ db'.snap[j].obj = db.snap[j].obj
                    \/ Unborn(j) /\ proc[p].pc = "i_begin"
    <2>1. proc[p].id \in Ids /\ proc[p].pc \in Importing
        BY <1>i, <1>5 DEF Begins, Passes, Importing, Early, Building
    <2>2. torn \subseteq torn'
        BY <1>5 DEF Begins
    <2>3. table' \subseteq table \/ table' = table \cup {proc[p].id}
        BY <1>5 DEF Begins
    <2>4. ASSUME NEW j \in Ids
          PROVE  \/ db'.snap[j].status = "none"
                 \/ db.snap[j].status # "none" /\ db'.snap[j].obj = db.snap[j].obj
                 \/ Unborn(j) /\ proc[p].pc = "i_begin"
        BY <1>5, <1>t, <2>1 DEF Begins, Unborn, Early
    <2> QED  BY <2>1, <2>2, <2>3, <2>4
  <1>6. ASSUME Tables(p)
        PROVE  /\ torn \subseteq torn'
               /\ table' \subseteq table
                    \/ /\ proc[p].pc \in Importing /\ proc[p].id \in Ids
                       /\ table' = table \cup {proc[p].id}
               /\ \A j \in Ids :
                    \/ db'.snap[j].status = "none"
                    \/ db.snap[j].status # "none" /\ db'.snap[j].obj = db.snap[j].obj
                    \/ Unborn(j) /\ proc[p].pc = "i_begin"
    <2>1. proc[p].id \in Ids /\ proc[p].pc \in Importing
        BY <1>i, <1>6 DEF Tables, Passes, Importing, Early, Building
    <2>2. torn \subseteq torn'
        BY <1>6 DEF Tables
    <2>3. table' \subseteq table \/ table' = table \cup {proc[p].id}
        BY <1>6 DEF Tables
    <2>4. ASSUME NEW j \in Ids
          PROVE  \/ db'.snap[j].status = "none"
                 \/ db.snap[j].status # "none" /\ db'.snap[j].obj = db.snap[j].obj
                 \/ Unborn(j) /\ proc[p].pc = "i_begin"
        BY <1>6, <1>t, <2>1 DEF Tables, Early
    <2> QED  BY <2>1, <2>2, <2>3, <2>4
  <1>7. ASSUME Readies(p)
        PROVE  /\ torn \subseteq torn'
               /\ table' \subseteq table
                    \/ /\ proc[p].pc \in Importing /\ proc[p].id \in Ids
                       /\ table' = table \cup {proc[p].id}
               /\ \A j \in Ids :
                    \/ db'.snap[j].status = "none"
                    \/ db.snap[j].status # "none" /\ db'.snap[j].obj = db.snap[j].obj
                    \/ Unborn(j) /\ proc[p].pc = "i_begin"
    <2>1. proc[p].id \in Ids /\ proc[p].pc \in Importing
        BY <1>i, <1>7 DEF Readies, Passes, Importing, Early, Building
    <2>2. torn \subseteq torn'
        BY <1>7 DEF Readies
    <2>3. table' \subseteq table \/ table' = table \cup {proc[p].id}
        BY <1>7 DEF Readies
    <2>4. ASSUME NEW j \in Ids
          PROVE  \/ db'.snap[j].status = "none"
                 \/ db.snap[j].status # "none" /\ db'.snap[j].obj = db.snap[j].obj
                 \/ Unborn(j) /\ proc[p].pc = "i_begin"
        BY <1>7, <1>t, <2>1 DEF Readies, Early
    <2> QED  BY <2>1, <2>2, <2>3, <2>4
  <1>8. ASSUME Profiles(p)
        PROVE  /\ torn \subseteq torn'
               /\ table' \subseteq table
                    \/ /\ proc[p].pc \in Importing /\ proc[p].id \in Ids
                       /\ table' = table \cup {proc[p].id}
               /\ \A j \in Ids :
                    \/ db'.snap[j].status = "none"
                    \/ db.snap[j].status # "none" /\ db'.snap[j].obj = db.snap[j].obj
                    \/ Unborn(j) /\ proc[p].pc = "i_begin"
    <2>1. torn \subseteq torn' /\ table' \subseteq table
        BY <1>8 DEF Profiles, Passes
    <2>2. ASSUME NEW j \in Ids
          PROVE  \/ db'.snap[j].status = "none"
                 \/ db.snap[j].status # "none" /\ db'.snap[j].obj = db.snap[j].obj
        BY <1>8, <1>t DEF Profiles, Passes
    <2> QED  BY <2>1, <2>2
  <1>9. ASSUME Binds(p)
        PROVE  /\ torn \subseteq torn'
               /\ table' \subseteq table
                    \/ /\ proc[p].pc \in Importing /\ proc[p].id \in Ids
                       /\ table' = table \cup {proc[p].id}
               /\ \A j \in Ids :
                    \/ db'.snap[j].status = "none"
                    \/ db.snap[j].status # "none" /\ db'.snap[j].obj = db.snap[j].obj
                    \/ Unborn(j) /\ proc[p].pc = "i_begin"
    <2>1. torn \subseteq torn' /\ table' \subseteq table
        BY <1>9 DEF Binds, Passes
    <2>2. ASSUME NEW j \in Ids
          PROVE  \/ db'.snap[j].status = "none"
                 \/ db.snap[j].status # "none" /\ db'.snap[j].obj = db.snap[j].obj
        BY <1>9, <1>t DEF Binds, Passes
    <2> QED  BY <2>1, <2>2
  <1>10. ASSUME Lists(p)
        PROVE  /\ torn \subseteq torn'
               /\ table' \subseteq table
                    \/ /\ proc[p].pc \in Importing /\ proc[p].id \in Ids
                       /\ table' = table \cup {proc[p].id}
               /\ \A j \in Ids :
                    \/ db'.snap[j].status = "none"
                    \/ db.snap[j].status # "none" /\ db'.snap[j].obj = db.snap[j].obj
                    \/ Unborn(j) /\ proc[p].pc = "i_begin"
    <2>1. torn \subseteq torn' /\ table' \subseteq table
        BY <1>10 DEF Lists, Frame
    <2>2. ASSUME NEW j \in Ids
          PROVE  \/ db'.snap[j].status = "none"
                 \/ db.snap[j].status # "none" /\ db'.snap[j].obj = db.snap[j].obj
        BY <1>10, <1>t DEF Lists, Frame
    <2> QED  BY <2>1, <2>2
  <1>11. ASSUME NEW i \in Ids, Cleans(p, i)
        PROVE  /\ torn \subseteq torn'
               /\ table' \subseteq table
                    \/ /\ proc[p].pc \in Importing /\ proc[p].id \in Ids
                       /\ table' = table \cup {proc[p].id}
               /\ \A j \in Ids :
                    \/ db'.snap[j].status = "none"
                    \/ db.snap[j].status # "none" /\ db'.snap[j].obj = db.snap[j].obj
                    \/ Unborn(j) /\ proc[p].pc = "i_begin"
    <2>1. torn \subseteq torn' /\ table' \subseteq table
        BY <1>11 DEF Cleans, NoSnap
    <2>2. ASSUME NEW j \in Ids
          PROVE  \/ db'.snap[j].status = "none"
                 \/ db.snap[j].status # "none" /\ db'.snap[j].obj = db.snap[j].obj
        BY <1>11, <1>t DEF Cleans, NoSnap
    <2> QED  BY <2>1, <2>2
  <1>12. ASSUME RemoveLists(p)
        PROVE  /\ torn \subseteq torn'
               /\ table' \subseteq table
                    \/ /\ proc[p].pc \in Importing /\ proc[p].id \in Ids
                       /\ table' = table \cup {proc[p].id}
               /\ \A j \in Ids :
                    \/ db'.snap[j].status = "none"
                    \/ db.snap[j].status # "none" /\ db'.snap[j].obj = db.snap[j].obj
                    \/ Unborn(j) /\ proc[p].pc = "i_begin"
    <2>1. torn \subseteq torn' /\ table' \subseteq table
        BY <1>12 DEF RemoveLists
    <2>2. ASSUME NEW j \in Ids
          PROVE  \/ db'.snap[j].status = "none"
                 \/ db.snap[j].status # "none" /\ db'.snap[j].obj = db.snap[j].obj
        BY <1>12, <1>t DEF RemoveLists
    <2> QED  BY <2>1, <2>2
  <1>13. ASSUME NEW i \in Ids, RemoveTable(p, i)
        PROVE  /\ torn \subseteq torn'
               /\ table' \subseteq table
                    \/ /\ proc[p].pc \in Importing /\ proc[p].id \in Ids
                       /\ table' = table \cup {proc[p].id}
               /\ \A j \in Ids :
                    \/ db'.snap[j].status = "none"
                    \/ db.snap[j].status # "none" /\ db'.snap[j].obj = db.snap[j].obj
                    \/ Unborn(j) /\ proc[p].pc = "i_begin"
    <2>1. torn \subseteq torn' /\ table' \subseteq table
        BY <1>13 DEF RemoveTable, Passes
    <2>2. ASSUME NEW j \in Ids
          PROVE  \/ db'.snap[j].status = "none"
                 \/ db.snap[j].status # "none" /\ db'.snap[j].obj = db.snap[j].obj
        BY <1>13, <1>t DEF RemoveTable, Passes
    <2> QED  BY <2>1, <2>2
  <1>14. ASSUME RemovePasses(p)
        PROVE  /\ torn \subseteq torn'
               /\ table' \subseteq table
                    \/ /\ proc[p].pc \in Importing /\ proc[p].id \in Ids
                       /\ table' = table \cup {proc[p].id}
               /\ \A j \in Ids :
                    \/ db'.snap[j].status = "none"
                    \/ db.snap[j].status # "none" /\ db'.snap[j].obj = db.snap[j].obj
                    \/ Unborn(j) /\ proc[p].pc = "i_begin"
    <2>1. torn \subseteq torn' /\ table' \subseteq table
        BY <1>14 DEF RemovePasses, Frame, Passes
    <2>2. ASSUME NEW j \in Ids
          PROVE  \/ db'.snap[j].status = "none"
                 \/ db.snap[j].status # "none" /\ db'.snap[j].obj = db.snap[j].obj
        BY <1>14, <1>t DEF RemovePasses, Frame, Passes
    <2> QED  BY <2>1, <2>2
  <1>15. ASSUME RemoveProfs(p)
        PROVE  /\ torn \subseteq torn'
               /\ table' \subseteq table
                    \/ /\ proc[p].pc \in Importing /\ proc[p].id \in Ids
                       /\ table' = table \cup {proc[p].id}
               /\ \A j \in Ids :
                    \/ db'.snap[j].status = "none"
                    \/ db.snap[j].status # "none" /\ db'.snap[j].obj = db.snap[j].obj
                    \/ Unborn(j) /\ proc[p].pc = "i_begin"
    <2>1. torn \subseteq torn' /\ table' \subseteq table
        BY <1>15 DEF RemoveProfs, Passes, Stopped
    <2>2. ASSUME NEW j \in Ids
          PROVE  \/ db'.snap[j].status = "none"
                 \/ db.snap[j].status # "none" /\ db'.snap[j].obj = db.snap[j].obj
        BY <1>15, <1>t DEF RemoveProfs, Passes, Stopped
    <2> QED  BY <2>1, <2>2
  <1>16. ASSUME NEW i \in Ids, RemoveSnapshot(p, i)
        PROVE  /\ torn \subseteq torn'
               /\ table' \subseteq table
                    \/ /\ proc[p].pc \in Importing /\ proc[p].id \in Ids
                       /\ table' = table \cup {proc[p].id}
               /\ \A j \in Ids :
                    \/ db'.snap[j].status = "none"
                    \/ db.snap[j].status # "none" /\ db'.snap[j].obj = db.snap[j].obj
                    \/ Unborn(j) /\ proc[p].pc = "i_begin"
    <2>1. torn \subseteq torn' /\ table' \subseteq table
        BY <1>16 DEF RemoveSnapshot, NoSnap
    <2>2. ASSUME NEW j \in Ids
          PROVE  \/ db'.snap[j].status = "none"
                 \/ db.snap[j].status # "none" /\ db'.snap[j].obj = db.snap[j].obj
        BY <1>16, <1>t DEF RemoveSnapshot, NoSnap
    <2> QED  BY <2>1, <2>2
  <1>17. ASSUME Unbinds(p)
        PROVE  /\ torn \subseteq torn' \/ Unbinds(p)
               /\ table' \subseteq table
                    \/ /\ proc[p].pc \in Importing /\ proc[p].id \in Ids
                       /\ table' = table \cup {proc[p].id}
               /\ \A j \in Ids :
                    \/ db'.snap[j].status = "none"
                    \/ db.snap[j].status # "none" /\ db'.snap[j].obj = db.snap[j].obj
                    \/ Unborn(j) /\ proc[p].pc = "i_begin"
    <2>1. table' \subseteq table
        BY <1>17 DEF Unbinds, Stopped
    <2>2. ASSUME NEW j \in Ids
          PROVE  \/ db'.snap[j].status = "none"
                 \/ db.snap[j].status # "none" /\ db'.snap[j].obj = db.snap[j].obj
        BY <1>17, <1>t DEF Unbinds, Stopped
    <2> QED  BY <1>17, <2>1, <2>2
  <1>18. ASSUME Deletes(p)
        PROVE  /\ torn \subseteq torn'
               /\ table' \subseteq table
                    \/ /\ proc[p].pc \in Importing /\ proc[p].id \in Ids
                       /\ table' = table \cup {proc[p].id}
               /\ \A j \in Ids :
                    \/ db'.snap[j].status = "none"
                    \/ db.snap[j].status # "none" /\ db'.snap[j].obj = db.snap[j].obj
                    \/ Unborn(j) /\ proc[p].pc = "i_begin"
    <2>1. torn \subseteq torn' /\ table' \subseteq table
        BY <1>18 DEF Deletes, Stopped, NoSnap
    <2>2. ASSUME NEW j \in Ids
          PROVE  \/ db'.snap[j].status = "none"
                 \/ db.snap[j].status # "none" /\ db'.snap[j].obj = db.snap[j].obj
        BY <1>18, <1>t DEF Deletes, Stopped, NoSnap
    <2> QED  BY <2>1, <2>2
  <1>19. ASSUME CreatesSource(p)
        PROVE  /\ torn \subseteq torn'
               /\ table' \subseteq table
                    \/ /\ proc[p].pc \in Importing /\ proc[p].id \in Ids
                       /\ table' = table \cup {proc[p].id}
               /\ \A j \in Ids :
                    \/ db'.snap[j].status = "none"
                    \/ db.snap[j].status # "none" /\ db'.snap[j].obj = db.snap[j].obj
                    \/ Unborn(j) /\ proc[p].pc = "i_begin"
    <2>1. torn \subseteq torn' /\ table' \subseteq table
        BY <1>19 DEF CreatesSource, Passes
    <2>2. ASSUME NEW j \in Ids
          PROVE  \/ db'.snap[j].status = "none"
                 \/ db.snap[j].status # "none" /\ db'.snap[j].obj = db.snap[j].obj
        BY <1>19, <1>t DEF CreatesSource, Passes
    <2> QED  BY <2>1, <2>2
  <1> QED
      BY <1>1, <1>2, <1>3, <1>4, <1>5, <1>6, <1>7, <1>8, <1>9,
         <1>10, <1>11, <1>12, <1>13, <1>14, <1>15, <1>16, <1>17, <1>18,
         <1>19 DEF Works

\* A selected snapshot is not one that a request has yet to make.
LEMMA SelectedIsBorn ==
    ASSUME TypeOK, SnapshotInv, NEW q \in Procs, NEW j \in proc[q].sel
    PROVE  j \in Ids /\ ~Unborn(j)
  <1>1. j \in Ids
      BY ProcFields DEF TypeOK
  <1> QED  BY <1>1 DEF SnapshotInv, UnbornClean

LEMMA RemovalOthers ==
    ASSUME TypeOK, SnapshotInv, NEW p \in Procs, StepOf(p), NEW q \in Procs, q # p
    PROVE  RemovalAt(q)'
  <1>m. proc'[q] = proc[q] /\ RemovalAt(q)
      BY DEF StepOf, Moves, Enters, SnapshotInv, RemovalInv
  <1>1. CASE Moves(p) /\ Works(p)
    <2>0. torn \subseteq torn' \/ Unbinds(p)
        BY <1>1, RowsEffect
    <2>1. proc[q].pc # "idle" /\ proc[q].obj \in torn => proc[q].obj \in torn'
        BY <2>0 DEF Unbinds
    <2>2. ASSUME NEW j \in proc[q].sel, db.snap[j].status = "none" \/ db.snap[j].obj = proc[q].obj
          PROVE  db'.snap[j].status = "none" \/ db'.snap[j].obj = proc[q].obj
        BY <1>1, <2>2, RowsEffect, SelectedIsBorn
    <2>3. ASSUME NEW j \in proc[q].sel, j \notin table,
                 \A r \in Procs : proc[r].pc \in Importing => proc[r].id # j
          PROVE  j \notin table' /\ \A r \in Procs : proc'[r].pc \in Importing => proc'[r].id # j
      <3>1. \A r \in Procs : proc'[r].pc \in Importing => proc[r].pc \in Importing /\ proc'[r].id = proc[r].id
          BY <1>1, ImportingKept DEF Moves
      <3> QED  BY <1>1, <2>3, <3>1, RowsEffect
    <2> QED  BY <1>m, <2>1, <2>2, <2>3 DEF RemovalAt
  <1>2. CASE Enters(p)
    <2>1. db' = db /\ table' = table /\ torn' = torn /\ \A r \in Procs \ {p} : proc'[r] = proc[r]
        BY <1>2 DEF Enters
    <2>2. proc'[p].pc \in Importing => Unborn(proc'[p].id)
      <3>1. proc'[p].pc \in Importing => proc'[p].id = NextId
          BY <1>2 DEF Enters, Importing, Early, Building, Binding
      <3>2. NextId > Issued
          BY ConstantsAssumption DEF NextId, Issued, TypeOK, StateType
      <3> QED  BY <3>1, <3>2 DEF Unborn
    <2>3. ASSUME NEW j \in proc[q].sel, \A r \in Procs : proc[r].pc \in Importing => proc[r].id # j
          PROVE  \A r \in Procs : proc'[r].pc \in Importing => proc'[r].id # j
        BY <2>1, <2>2, <2>3, SelectedIsBorn
    <2> QED  BY <1>m, <2>1, <2>3 DEF RemovalAt
  <1> QED  BY <1>1, <1>2 DEF StepOf

LEMMA RemovalOwn ==
    ASSUME TypeOK, SnapshotInv, NEW p \in Procs, StepOf(p)
    PROVE  RemovalAt(p)'
  <1>t. /\ db.snap \in [Ids -> [obj : Objs, status : {"none", "creating", "ready", "failed"}]]
        /\ db.prof \in [Ids -> {"none", "profiled", "confirmed"}]
        /\ db.bind \in [Objs -> Ids \cup {0}]
      BY DbFields DEF TypeOK, StateType
  <1>p. proc[p].obj \in {"file", "live"} /\ proc[p].sel \subseteq Ids
      BY ProcFields DEF TypeOK, Objs
  <1>m. RemovalAt(p)
      BY DEF SnapshotInv, RemovalInv
  <1>1. ASSUME Ends(p)
        PROVE  RemovalAt(p)'
      BY <1>1 DEF Ends, Stopped, RemovalAt
  <1>2. ASSUME Aside(p)
        PROVE  RemovalAt(p)'
      BY <1>2 DEF Aside, Outside, Importing, Binding, RemovalAt
  <1>3. ASSUME Fails(p)
        PROVE  RemovalAt(p)'
      BY <1>3 DEF Fails, Stopped, RemovalAt
  <1>4. ASSUME Proceeds(p)
        PROVE  RemovalAt(p)'
      BY <1>4 DEF Proceeds, Passes, Early, RemovalAt
  <1>5. ASSUME Begins(p)
        PROVE  RemovalAt(p)'
      BY <1>5 DEF Begins, Passes, RemovalAt
  <1>6. ASSUME Tables(p)
        PROVE  RemovalAt(p)'
      BY <1>6 DEF Tables, Passes, RemovalAt
  <1>7. ASSUME Readies(p)
        PROVE  RemovalAt(p)'
      BY <1>7 DEF Readies, Passes, RemovalAt
  <1>8. ASSUME Profiles(p)
        PROVE  RemovalAt(p)'
      BY <1>8 DEF Profiles, Passes, RemovalAt
  <1>9. ASSUME Binds(p)
        PROVE  RemovalAt(p)'
      BY <1>9 DEF Binds, Passes, RemovalAt
  <1>10. ASSUME Lists(p)
        PROVE  RemovalAt(p)'
      BY <1>10 DEF Lists, Frame, Keeps, Rows, RemovalAt
  <1>11. ASSUME NEW i \in Ids, Cleans(p, i)
        PROVE  RemovalAt(p)'
    <2>1. \A j \in Ids : db'.snap[j] = db.snap[j] \/ db'.snap[j].status = "none"
        BY <1>11, <1>t DEF Cleans, NoSnap
    <2> QED  BY <1>m, <1>11, <1>p, <2>1 DEF Cleans, Keeps, RemovalAt
  <1>12. ASSUME RemoveLists(p)
        PROVE  RemovalAt(p)'
    <2>1. proc[p].obj \in torn' /\ \A j \in proc'[p].sel : db'.snap[j].obj = proc[p].obj
        BY <1>12 DEF RemoveLists, Rows
    <2> QED  BY <1>12, <1>p, <2>1 DEF RemoveLists, Keeps, RemovalAt
  <1>13. ASSUME NEW i \in Ids, RemoveTable(p, i)
        PROVE  RemovalAt(p)'
      BY <1>m, <1>13 DEF RemoveTable, Passes, Keeps, RemovalAt
  <1>14. ASSUME RemovePasses(p)
        PROVE  RemovalAt(p)'
    <2>1. CASE /\ Passes(p, "r_drop", "r_prof") /\ proc[p].sel \cap table = {}
               /\ proc[p].sel = {} \/ lock = NoProc
      <3>1. ASSUME NEW j \in proc[p].sel, NEW r \in Procs, proc'[r].pc \in Importing
            PROVE  proc'[r].id # j
        <4>1. r # p /\ proc'[r] = proc[r]
            BY <2>1, <3>1 DEF Passes, Importing, Early, Building, Binding, StepOf, Moves, Enters
        <4>2. proc[r].pc \notin Critical
            BY <2>1, ConstantsAssumption DEF TypeOK, LockHeld
        <4>3. proc[r].pc \in Early
            BY <3>1, <4>1, <4>2 DEF Importing, Building, Binding, Critical
        <4>4. Unborn(proc[r].id)
            BY <4>3 DEF Unborn
        <4> QED  BY <4>1, <4>4, SelectedIsBorn
      <3>2. table' = table /\ db'.snap = db.snap /\ torn' = torn
          BY <1>14 DEF RemovePasses, Frame
      <3> QED  BY <1>m, <2>1, <3>1, <3>2 DEF Passes, Keeps, RemovalAt
    <2>2. CASE Passes(p, "r_rows", "r_bind")
        BY <1>m, <1>14, <2>2 DEF RemovePasses, Frame, Passes, Keeps, RemovalAt
    <2> QED  BY <1>14, <2>1, <2>2 DEF RemovePasses
  <1>15. ASSUME RemoveProfs(p)
        PROVE  RemovalAt(p)'
    <2>1. \A r \in Procs : proc'[r].pc \in Importing => proc[r].pc \in Importing /\ proc'[r].id = proc[r].id
        BY <1>15 DEF RemoveProfs, Passes, Stopped, Importing, Early, Building, Binding, StepOf, Moves, Enters
    <2>2. \A j \in Ids : db'.snap[j] = db.snap[j] \/ db'.snap[j].status = "none"
        BY <1>15, <1>t DEF RemoveProfs, NoSnap
    <2> QED  BY <1>m, <1>15, <1>p, <2>1, <2>2 DEF RemoveProfs, Passes, Stopped, Keeps, RemovalAt
  <1>16. ASSUME NEW i \in Ids, RemoveSnapshot(p, i)
        PROVE  RemovalAt(p)'
    <2>1. \A r \in Procs : proc'[r].pc \in Importing => proc[r].pc \in Importing /\ proc'[r].id = proc[r].id
        BY <1>16 DEF RemoveSnapshot, Passes, Importing, Early, Building, Binding, StepOf, Moves, Enters
    <2>2. \A j \in Ids : db'.snap[j] = db.snap[j] \/ db'.snap[j].status = "none"
        BY <1>16, <1>t DEF RemoveSnapshot, NoSnap
    <2> QED  BY <1>m, <1>16, <1>p, <2>1, <2>2 DEF RemoveSnapshot, Passes, Keeps, RemovalAt
  <1>17. ASSUME Unbinds(p)
        PROVE  RemovalAt(p)'
      BY <1>17 DEF Unbinds, Stopped, RemovalAt
  <1>18. ASSUME Deletes(p)
        PROVE  RemovalAt(p)'
      BY <1>18 DEF Deletes, Stopped, RemovalAt
  <1>19. ASSUME CreatesSource(p)
        PROVE  RemovalAt(p)'
      BY <1>19 DEF CreatesSource, Passes, RemovalAt
  <1>20. ASSUME Enters(p)
        PROVE  RemovalAt(p)'
      BY <1>20 DEF Enters, RemovalAt
  <1> QED
      BY <1>1, <1>2, <1>3, <1>4, <1>5, <1>6, <1>7, <1>8, <1>9,
         <1>10, <1>11, <1>12, <1>13, <1>14, <1>15, <1>16, <1>17, <1>18,
         <1>19, <1>20 DEF Works, StepOf

LEMMA RemovalStep ==
    ASSUME TypeOK, SnapshotInv, NEW p \in Procs, StepOf(p)
    PROVE  RemovalInv'
  BY RemovalOthers, RemovalOwn DEF RemovalInv

Usable(o) ==
  db.bind[o] # 0 =>
    /\ db.snap[db.bind[o]] = [obj |-> o, status |-> "ready"]
    /\ db.prof[db.bind[o]] # "none"
    /\ o = "file" => db.bind[o] \in table

LEMMA UsableStep ==
    ASSUME TypeOK, SnapshotInv, NEW p \in Procs, StepOf(p), NEW o \in Objs, o \notin torn'
    PROVE  Usable(o)'
  <1>t. /\ db.snap \in [Ids -> [obj : Objs, status : {"none", "creating", "ready", "failed"}]]
        /\ db.prof \in [Ids -> {"none", "profiled", "confirmed"}]
        /\ db.bind \in [Objs -> Ids \cup {0}]
      BY DbFields DEF TypeOK, StateType
  <1>p. proc[p].obj \in {"file", "live"} /\ proc[p].sel \subseteq Ids
      BY ProcFields DEF TypeOK, Objs
  <1>b. db.bind[o] \in Ids \cup {0} /\ 0 \notin Ids
      BY <1>t DEF Ids
  <1>m. StageAt(p) /\ RemovalAt(p) /\ UnbornClean
      BY DEF SnapshotInv, StageInv, RemovalInv
  <1>u. o \notin torn => Usable(o)
      BY DEF SnapshotInv, BoundIsUsable, Usable
  <1>i. ASSUME proc[p].pc \in Importing
        PROVE  proc[p].id \in Ids
      BY <1>i, IdInRange DEF TypeOK, SnapshotInv
  <1>1. ASSUME Ends(p)
        PROVE  Usable(o)'
      BY <1>1, <1>u DEF Ends, Frame, Usable
  <1>2. ASSUME Aside(p)
        PROVE  Usable(o)'
      BY <1>b, <1>2, <1>t, <1>u DEF Aside, Usable
  <1>3. ASSUME Fails(p)
        PROVE  Usable(o)'
    <2>1. proc[p].id \in Ids /\ db.bind[o] # proc[p].id
        BY <1>i, <1>m, <1>3 DEF Fails, Passes, StageAt, Importing, Building
    <2> QED  BY <1>b, <1>3, <1>t, <1>u, <2>1 DEF Fails, Usable
  <1>4. ASSUME Proceeds(p)
        PROVE  Usable(o)'
      BY <1>4, <1>u DEF Proceeds, Frame, Usable
  <1>5. ASSUME Begins(p)
        PROVE  Usable(o)'
    <2>1. proc[p].id \in Ids
        BY <1>i, <1>5 DEF Begins, Importing, Early
    <2>2. db.bind[o] # proc[p].id
        BY <1>m, <1>5, <2>1 DEF Begins, UnbornClean, Unborn, Early
    <2> QED  BY <1>b, <1>5, <1>t, <1>u, <2>1, <2>2 DEF Begins, Usable
  <1>6. ASSUME Tables(p)
        PROVE  Usable(o)'
      BY <1>6, <1>u DEF Tables, Usable
  <1>7. ASSUME Readies(p)
        PROVE  Usable(o)'
    <2>1. proc[p].id \in Ids /\ db.bind[o] # proc[p].id
        BY <1>i, <1>m, <1>7 DEF Readies, Passes, StageAt, Importing, Building
    <2> QED  BY <1>b, <1>7, <1>t, <1>u, <2>1 DEF Readies, Usable
  <1>8. ASSUME Profiles(p)
        PROVE  Usable(o)'
    <2>1. proc[p].id \in Ids /\ db.bind[o] # proc[p].id
        BY <1>i, <1>m, <1>8 DEF Profiles, Passes, StageAt, Importing, Building
    <2> QED  BY <1>b, <1>8, <1>t, <1>u, <2>1 DEF Profiles, Usable
  <1>9. ASSUME Binds(p)
        PROVE  Usable(o)'
    <2>1. proc[p].id \in Ids
        BY <1>i, <1>9 DEF Binds, Passes, Importing, Building
    <2>2. CASE proc[p].obj # o
        BY <1>b, <1>9, <1>t, <1>u, <1>p, <2>1, <2>2 DEF Binds, Usable, Objs
    <2>3. CASE proc[p].obj = o
      <3>1. db'.bind[o] = proc[p].id
          BY <1>9, <1>t, <2>3 DEF Binds
      <3>2. db'.snap = db.snap /\ db'.prof = db.prof /\ table' = table /\ torn' = torn /\ db.src[o]
          BY <1>9, <2>3 DEF Binds
      <3>3. CASE o = "file"
          BY <1>m, <1>9, <2>3, <3>1, <3>2, <3>3 DEF Binds, Passes, StageAt, FileStage, Building, Usable
      <3>4. CASE o = "live"
          BY <1>m, <1>9, <2>3, <3>1, <3>2, <3>4 DEF Binds, Passes, StageAt, LiveStage, Building, Usable
      <3> QED  BY <3>3, <3>4 DEF Objs
    <2> QED  BY <2>2, <2>3
  <1>10. ASSUME Lists(p)
        PROVE  Usable(o)'
      BY <1>10, <1>u DEF Lists, Frame, Usable
  <1>11. ASSUME NEW i \in Ids, Cleans(p, i)
        PROVE  Usable(o)'
    <2>1. o \notin torn /\ Usable(o)
        BY <1>11, <1>u DEF Cleans
    <2>2. db.bind[o] # 0 => db.bind[o] # i
      <3>1. ASSUME db.bind[o] = i, i # 0
            PROVE  FALSE
        <4>1. db.snap[i].obj = o /\ db.snap[i].status = "ready"
            BY <2>1, <3>1 DEF Usable
        <4>2. o = proc[p].obj /\ proc[p].id # i
            BY <1>m, <1>11, <4>1 DEF Cleans, RemovalAt
        <4>3. db.bind[o] \in {0, proc[p].id}
            BY <1>m, <1>11, <4>2 DEF Cleans, StageAt, Binding
        <4> QED  BY <3>1, <4>2, <4>3
      <3> QED  BY <3>1
    <2> QED  BY <1>b, <1>11, <1>t, <1>u, <2>1, <2>2 DEF Cleans, Usable
  <1>12. ASSUME RemoveLists(p)
        PROVE  Usable(o)'
      BY <1>12, <1>u DEF RemoveLists, Usable
  <1>13. ASSUME NEW i \in Ids, RemoveTable(p, i)
        PROVE  Usable(o)'
    <2>1. o # "file"
        BY <1>m, <1>13 DEF RemoveTable, Passes, RemovalAt
    <2> QED  BY <1>13, <1>u, <2>1 DEF RemoveTable, Usable
  <1>14. ASSUME RemovePasses(p)
        PROVE  Usable(o)'
      BY <1>14, <1>u DEF RemovePasses, Frame, Usable
  <1>15. ASSUME RemoveProfs(p)
        PROVE  Usable(o)'
    <2>1. o \notin torn /\ Usable(o) /\ proc[p].obj \in torn
        BY <1>m, <1>15, <1>u DEF RemoveProfs, Passes, Stopped, RemovalAt
    <2>2. db.bind[o] # 0 => db.bind[o] \notin proc[p].sel
        BY <1>m, <1>15, <2>1 DEF RemoveProfs, Passes, Stopped, RemovalAt, Usable
    <2> QED  BY <1>b, <1>15, <1>t, <1>u, <2>1, <2>2 DEF RemoveProfs, Usable
  <1>16. ASSUME NEW i \in Ids, RemoveSnapshot(p, i)
        PROVE  Usable(o)'
    <2>1. o \notin torn /\ Usable(o) /\ proc[p].obj \in torn
        BY <1>m, <1>16, <1>u DEF RemoveSnapshot, Passes, RemovalAt
    <2>2. db.bind[o] # 0 => db.bind[o] \notin proc[p].sel
        BY <1>m, <1>16, <2>1 DEF RemoveSnapshot, Passes, RemovalAt, Usable
    <2> QED  BY <1>b, <1>16, <1>t, <1>u, <2>1, <2>2 DEF RemoveSnapshot, Usable
  <1>17. ASSUME Unbinds(p)
        PROVE  Usable(o)'
    <2>1. db'.bind[o] \in {0, db.bind[o]}
        BY <1>17, <1>t DEF Unbinds
    <2>2. o \in torn => db'.bind[o] = 0
        BY <1>17, <1>t DEF Unbinds
    <2> QED  BY <1>17, <1>u, <2>1, <2>2 DEF Unbinds, Usable
  <1>18. ASSUME Deletes(p)
        PROVE  Usable(o)'
    <2>1. CASE o = "live"
        BY <1>18, <1>t, <2>1 DEF Deletes, Usable
    <2>2. CASE o = "file"
      <3>1. db'.bind[o] = db.bind[o] /\ table' = table /\ Usable(o)
          BY <1>18, <1>t, <1>u, <2>2 DEF Deletes
      <3>2. db.bind[o] # 0 => db.bind[o] \notin Rows("live")
          BY <2>2, <3>1 DEF Usable, Rows
      <3>3. db.bind[o] # 0 => /\ db'.snap[db.bind[o]] = db.snap[db.bind[o]]
                              /\ db'.prof[db.bind[o]] = db.prof[db.bind[o]]
          BY <1>b, <1>18, <3>2 DEF Deletes
      <3> QED  BY <2>2, <3>1, <3>3 DEF Usable
    <2> QED  BY <2>1, <2>2 DEF Objs
  <1>19. ASSUME CreatesSource(p)
        PROVE  Usable(o)'
      BY <1>19, <1>u DEF CreatesSource, Usable
  <1>20. ASSUME Enters(p)
        PROVE  Usable(o)'
      BY <1>20, <1>u DEF Enters, Usable
  <1> QED
      BY <1>1, <1>2, <1>3, <1>4, <1>5, <1>6, <1>7, <1>8, <1>9,
         <1>10, <1>11, <1>12, <1>13, <1>14, <1>15, <1>16, <1>17, <1>18,
         <1>19, <1>20 DEF Works, StepOf

LEMMA BoundStep ==
    ASSUME TypeOK, SnapshotInv, NEW p \in Procs, StepOf(p)
    PROVE  BoundIsUsable'
  BY UsableStep DEF BoundIsUsable, Usable

LEMMA TableStep ==
    ASSUME TypeOK, SnapshotInv, NEW p \in Procs, StepOf(p)
    PROVE  TableHasRow'
  <1>t. /\ db.snap \in [Ids -> [obj : Objs, status : {"none", "creating", "ready", "failed"}]]
        /\ db.prof \in [Ids -> {"none", "profiled", "confirmed"}]
        /\ db.bind \in [Objs -> Ids \cup {0}]
      BY DbFields DEF TypeOK, StateType
  <1>p. proc[p].obj \in {"file", "live"} /\ proc[p].sel \subseteq Ids
      BY ProcFields DEF TypeOK, Objs
  <1>m. StageAt(p) /\ RemovalAt(p) /\ UnbornClean /\ TableHasRow
      BY DEF SnapshotInv, StageInv, RemovalInv
  <1>i. ASSUME proc[p].pc \in Importing
        PROVE  proc[p].id \in Ids
      BY <1>i, IdInRange DEF TypeOK, SnapshotInv
  <1>1. ASSUME Ends(p)
        PROVE  TableHasRow'
      BY <1>m, <1>1 DEF Ends, Frame, TableHasRow, Rows
  <1>2. ASSUME Aside(p)
        PROVE  TableHasRow'
      BY <1>m, <1>2 DEF Aside, TableHasRow, Rows
  <1>3. ASSUME Fails(p)
        PROVE  TableHasRow'
    <2>1. proc[p].id \in Ids
        BY <1>i, <1>3 DEF Fails, Passes, Importing, Early, Building
    <2>2. \A j \in Rows("file") : db'.snap[j].status # "none" /\ db'.snap[j].obj = "file"
        BY <1>3, <1>t, <2>1 DEF Fails, Rows
    <2> QED  BY <1>m, <1>3, <2>2 DEF Fails, TableHasRow, Rows
  <1>4. ASSUME Proceeds(p)
        PROVE  TableHasRow'
      BY <1>m, <1>4 DEF Proceeds, Frame, TableHasRow, Rows
  <1>5. ASSUME Begins(p)
        PROVE  TableHasRow'
    <2>1. proc[p].id \in Ids
        BY <1>i, <1>5 DEF Begins, Passes, Importing, Early, Building
    <2>2. proc[p].id \notin table /\ table' = table
        BY <1>m, <1>5, <2>1 DEF Begins, UnbornClean, Unborn, Early
    <2>3. \A j \in Ids \ {proc[p].id} : db'.snap[j] = db.snap[j]
        BY <1>5, <1>t DEF Begins
    <2> QED  BY <1>m, <2>2, <2>3 DEF TableHasRow, Rows
  <1>6. ASSUME Tables(p)
        PROVE  TableHasRow'
    <2>1. proc[p].id \in Ids
        BY <1>i, <1>6 DEF Tables, Passes, Importing, Early, Building
    <2>2. db.snap[proc[p].id] = [obj |-> "file", status |-> "creating"]
        BY <1>m, <1>6 DEF Tables, Passes, StageAt, FileStage, Building
    <2> QED  BY <1>m, <1>6, <2>1, <2>2 DEF Tables, TableHasRow, Rows
  <1>7. ASSUME Readies(p)
        PROVE  TableHasRow'
    <2>1. proc[p].id \in Ids
        BY <1>i, <1>7 DEF Readies, Passes, Importing, Early, Building
    <2>2. \A j \in Rows("file") : db'.snap[j].status # "none" /\ db'.snap[j].obj = "file"
        BY <1>7, <1>t, <2>1 DEF Readies, Rows
    <2> QED  BY <1>m, <1>7, <2>2 DEF Readies, TableHasRow, Rows
  <1>8. ASSUME Profiles(p)
        PROVE  TableHasRow'
      BY <1>m, <1>8 DEF Profiles, TableHasRow, Rows
  <1>9. ASSUME Binds(p)
        PROVE  TableHasRow'
      BY <1>m, <1>9 DEF Binds, TableHasRow, Rows
  <1>10. ASSUME Lists(p)
        PROVE  TableHasRow'
      BY <1>m, <1>10 DEF Lists, Frame, TableHasRow, Rows
  <1>11. ASSUME NEW i \in Ids, Cleans(p, i)
        PROVE  TableHasRow'
    <2>1. \A j \in Ids \ {i} : db'.snap[j] = db.snap[j]
        BY <1>11, <1>t DEF Cleans
    <2> QED  BY <1>m, <1>11, <2>1 DEF Cleans, TableHasRow, Rows
  <1>12. ASSUME RemoveLists(p)
        PROVE  TableHasRow'
      BY <1>m, <1>12 DEF RemoveLists, TableHasRow, Rows
  <1>13. ASSUME NEW i \in Ids, RemoveTable(p, i)
        PROVE  TableHasRow'
      BY <1>m, <1>13 DEF RemoveTable, TableHasRow, Rows
  <1>14. ASSUME RemovePasses(p)
        PROVE  TableHasRow'
      BY <1>m, <1>14 DEF RemovePasses, Frame, TableHasRow, Rows
  <1>15. ASSUME RemoveProfs(p)
        PROVE  TableHasRow'
      BY <1>m, <1>15 DEF RemoveProfs, TableHasRow, Rows
  <1>16. ASSUME NEW i \in Ids, RemoveSnapshot(p, i)
        PROVE  TableHasRow'
    <2>1. \A j \in Ids \ {i} : db'.snap[j] = db.snap[j]
        BY <1>16, <1>t DEF RemoveSnapshot
    <2>2. i \notin table
        BY <1>m, <1>16, <1>p DEF RemoveSnapshot, RemovalAt, TableHasRow, Rows
    <2> QED  BY <1>m, <1>16, <2>1, <2>2 DEF RemoveSnapshot, TableHasRow, Rows
  <1>17. ASSUME Unbinds(p)
        PROVE  TableHasRow'
      BY <1>m, <1>17 DEF Unbinds, TableHasRow, Rows
  <1>18. ASSUME Deletes(p)
        PROVE  TableHasRow'
    <2>1. \A j \in Rows("file") : db'.snap[j] = db.snap[j]
        BY <1>18 DEF Deletes, Rows
    <2> QED  BY <1>m, <1>18, <2>1 DEF Deletes, TableHasRow, Rows
  <1>19. ASSUME CreatesSource(p)
        PROVE  TableHasRow'
      BY <1>m, <1>19 DEF CreatesSource, TableHasRow, Rows
  <1>20. ASSUME Enters(p)
        PROVE  TableHasRow'
      BY <1>m, <1>20 DEF Enters, TableHasRow, Rows
  <1> QED
      BY <1>1, <1>2, <1>3, <1>4, <1>5, <1>6, <1>7, <1>8, <1>9,
         <1>10, <1>11, <1>12, <1>13, <1>14, <1>15, <1>16, <1>17, <1>18,
         <1>19, <1>20 DEF Works, StepOf

-----------------------------------------------------------------------------
(* The receipt and the report.                                             *)

LEMMA ReceiptStep ==
    ASSUME TypeOK, ReceiptInv, NEW p \in Procs, StepOf(p)
    PROVE  ReceiptInv'
  <1>t. db.conf \in [Ids -> [receipt : Nat, plain : Nat]]
      BY DbFields DEF TypeOK, StateType
  <1>n. NoConf.receipt = 0
      BY DEF NoConf
  <1>1. CASE Enters(p)
    <2>1. db' = db /\ \A q \in Procs \ {p} : proc'[q] = proc[q]
        BY <1>1 DEF Enters
    <2>2. /\ proc'[p].pc = "c_look" => proc'[p].id \in Ids
          /\ proc'[p].pc # "c_row"
          /\ proc'[p].tag = "receipt" => \A q \in Procs : proc[q].tag # "receipt"
        BY <1>1 DEF Enters
    <2> QED  BY <2>1, <2>2 DEF ReceiptInv, ReceiptOnce
  <1>2. ASSUME Moves(p)
        PROVE  /\ \A q \in Procs \ {p} : proc'[q] = proc[q]
               /\ \A q, r \in Procs : proc'[q].tag = "receipt" /\ proc'[r].tag = "receipt" => q = r
    <2>1. \A q \in Procs : proc'[q].tag = "receipt" => proc[q].tag = "receipt"
        BY <1>2 DEF Moves
    <2> QED  BY <1>2, <2>1 DEF Moves, ReceiptInv
  <1>3. ASSUME ConfKept
        PROVE  /\ ReceiptOnce'
               /\ \A j \in Ids : db.conf[j].receipt = 0 => db'.conf[j].receipt = 0
      BY <1>3, <1>n DEF ConfKept, ReceiptInv, ReceiptOnce
  <1>4. CASE Moves(p) /\ NoReceipt(p)
      BY <1>2, <1>3, <1>4 DEF NoReceipt, ReceiptInv
  <1>5. CASE Moves(p) /\ Looks(p)
    <2>1. ReceiptOnce' /\ \A j \in Ids : db.conf[j].receipt = 0 => db'.conf[j].receipt = 0
        BY <1>3, <1>5 DEF Looks
    <2>2. /\ proc'[p].pc \in {"c_look", "c_row"} => proc'[p].id = proc[p].id /\ proc[p].id \in Ids
          /\ proc'[p].pc = "c_row" /\ proc'[p].tag = "receipt" => db'.conf[proc'[p].id].receipt = 0
        BY <1>5 DEF Looks, Keeps, ReceiptInv
    <2> QED  BY <1>2, <1>5, <2>1, <2>2 DEF ReceiptInv
  <1>6. CASE Moves(p) /\ Confirms(p)
    <2>1. proc[p].pc = "c_row" /\ proc'[p].pc \notin {"c_look", "c_row"}
        BY <1>6 DEF Confirms
    <2>2. proc[p].tag = "receipt" => db.conf[proc[p].id].receipt = 0
        BY <2>1 DEF ReceiptInv
    <2>3. ASSUME NEW j \in Ids
          PROVE  db'.conf[j].receipt <= 1
        BY <1>6, <1>t, <2>2 DEF Confirms, ReceiptInv, ReceiptOnce
    <2>4. ASSUME NEW q \in Procs \ {p}, proc[q].pc = "c_row", proc[q].tag = "receipt"
          PROVE  db'.conf[proc[q].id].receipt = 0
      <3>1. proc[p].tag # "receipt" /\ proc[q].id \in Ids /\ db.conf[proc[q].id].receipt = 0
          BY <2>4 DEF ReceiptInv
      <3> QED  BY <1>6, <3>1 DEF Confirms
    <2> QED  BY <1>2, <1>6, <2>1, <2>3, <2>4 DEF ReceiptInv, ReceiptOnce
  <1> QED  BY <1>1, <1>4, <1>5, <1>6 DEF StepOf

LEMMA ReportStep ==
    ASSUME ReportInv, NEW p \in Procs, StepOf(p)
    PROVE  ReportInv'
  <1>1. CASE Enters(p)
    <2>1. report' = report /\ \A q \in Procs \ {p} : proc'[q] = proc[q]
        BY <1>1 DEF Enters
    <2>2. /\ proc'[p].pc \in Saving => proc'[p].pc = "s_row" /\ proc'[p].tag = "report"
          /\ proc'[p].tag = "report" => \A q \in Procs : proc[q].tag # "report"
        BY <1>1 DEF Enters, Saving
    <2>3. {"s_put", "s_meta", "s_report", "s_bind"} \subseteq Saving
        BY DEF Saving
    <2> QED  BY <2>1, <2>2, <2>3 DEF ReportInv, BoundReportDownloadable
  <1>2. CASE Moves(p) /\ NoReport(p)
    <2>1. \A q \in Procs : proc'[q].tag = "report" => proc[q].tag = "report"
        BY <1>2 DEF Moves
    <2>2. report' = report /\ proc'[p].pc \notin Saving /\ \A q \in Procs \ {p} : proc'[q] = proc[q]
        BY <1>2 DEF Moves, NoReport
    <2>3. {"s_put", "s_meta", "s_report", "s_bind"} \subseteq Saving
        BY DEF Saving
    <2> QED  BY <2>1, <2>2, <2>3 DEF ReportInv, BoundReportDownloadable
  <1> QED  BY <1>1, <1>2 DEF StepOf

-----------------------------------------------------------------------------
(* The inductive invariant.                                                *)

LEMMA InitConfig ==
    ASSUME Init
    PROVE  /\ cfg \in [on : BOOLEAN, allow : BOOLEAN, version : Nat, tested : Nat]
           /\ cfg.on => cfg.version > 0
  <1> DEFINE full == [NoCfg EXCEPT !.on = TRUE, !.allow = TRUE, !.version = 1]
  <1>1. NoCfg \in [on : BOOLEAN, allow : BOOLEAN, version : Nat, tested : Nat] /\ ~NoCfg.on
      BY DEF NoCfg
  <1>2. full \in [on : BOOLEAN, allow : BOOLEAN, version : Nat, tested : Nat] /\ full.version = 1
      BY <1>1
  <1>3. cfg = NoCfg \/ cfg = full
      BY DEF Init
  <1> HIDE DEF full
  <1> QED  BY <1>1, <1>2, <1>3

LEMMA InitTyped ==
    ASSUME Init
    PROVE  TypeOK
  <1>1. cfg \in [on : BOOLEAN, allow : BOOLEAN, version : Nat, tested : Nat]
      BY InitConfig
  <1>2. /\ NoSnap \in [obj : Objs, status : {"none", "creating", "ready", "failed"}]
        /\ NoConf \in [receipt : Nat, plain : Nat] /\ Idle \in Requests
      BY DEF NoSnap, NoConf, Idle, Objs, Requests, Pcs
  <1>3. db \in SourceRows
      BY <1>1, <1>2 DEF Init, SourceRows, Objs
  <1>4. proc \in [Procs -> Requests]
      BY <1>2 DEF Init
  <1>5. left \in [faults : Nat, ops : 0..MaxOps]
      BY ConstantsAssumption DEF Init
  <1>6. /\ file \in [object : BOOLEAN, row : BOOLEAN, attached : BOOLEAN]
        /\ report \in [object : BOOLEAN, file : BOOLEAN, row : BOOLEAN, ref : BOOLEAN]
        /\ lock = NoProc /\ torn = {} /\ table = {}
      BY DEF Init
  <1>7. StateType
      BY <1>1, <1>3, <1>4, <1>5, <1>6 DEF StateType
  <1>8. LockHeld
      BY <1>6, ConstantsAssumption DEF Init, LockHeld, Idle, Critical
  <1> QED  BY <1>7, <1>8 DEF TypeOK

LEMMA InitInv ==
    ASSUME Init
    PROVE  SourcesInv
  <1>1. \A p \in Procs : proc[p].pc = "idle" /\ proc[p].sel = {} /\ proc[p].tag = "none"
      BY DEF Init, Idle
  <1>2. /\ \A i \in Ids : /\ db.snap[i] = NoSnap /\ db.conf[i] = NoConf
        /\ \A o \in Objs : db.bind[o] = 0
        /\ table = {} /\ ~report.ref /\ torn = {} /\ left.ops = MaxOps
      BY DEF Init
  <1>3. cfg.on => cfg.version > 0
      BY InitConfig
  <1>4. IdsDistinct
      BY <1>1 DEF IdsDistinct, Importing, Early, Building, Binding
  <1>5. UnbornClean
      BY <1>1, <1>2 DEF UnbornClean, NoSnap, Ids
  <1>6. StageInv
      BY <1>1 DEF StageInv, StageAt, Building, Binding
  <1>7. CreationInv
      BY <1>1, <1>3 DEF CreationInv
  <1>8. RemovalInv
      BY <1>1 DEF RemovalInv, RemovalAt
  <1>9. BoundIsUsable /\ TableHasRow
      BY <1>2 DEF BoundIsUsable, TableHasRow
  <1>10. ReceiptInv
      BY <1>1, <1>2 DEF ReceiptInv, ReceiptOnce, NoConf
  <1>11. ReportInv
      BY <1>1, <1>2 DEF ReportInv, BoundReportDownloadable, Saving
  <1>12. TypeOK
      BY InitTyped
  <1> QED  BY <1>4, <1>5, <1>6, <1>7, <1>8, <1>9, <1>10, <1>11, <1>12 DEF SourcesInv, SnapshotInv

LEMMA NextInv ==
    ASSUME SourcesInv, [Next]_vars
    PROVE  SourcesInv'
  <1>0. /\ TypeOK /\ SnapshotInv /\ ReceiptInv /\ ReportInv
        /\ StateType /\ IdsDistinct /\ UnbornClean /\ CreationInv
      BY DEF SourcesInv, SnapshotInv, TypeOK
  <1>1. CASE Next
    <2>1. PICK p \in Procs : StepOf(p)
        BY <1>1, NextSteps
    <2>2. TypeOK'
        BY <1>0, <2>1, LockStep DEF TypeOK, StepOf
    <2>3. IdsDistinct' /\ UnbornClean'
        BY <1>0, <2>1, IdsStep, UnbornStep
    <2>4. StageInv' /\ RemovalInv' /\ CreationInv'
        BY <1>0, <2>1, StageStep, RemovalStep, CreationStep
    <2>5. BoundIsUsable' /\ TableHasRow'
        BY <1>0, <2>1, BoundStep, TableStep
    <2>6. ReceiptInv' /\ ReportInv'
        BY <1>0, <2>1, ReceiptStep, ReportStep
    <2> QED  BY <2>2, <2>3, <2>4, <2>5, <2>6 DEF SourcesInv, SnapshotInv
  <1>2. CASE UNCHANGED vars
    <2>1. TypeOK'
        BY <1>0, <1>2 DEF vars, TypeOK, StateType, LockHeld
    <2>2. IdsDistinct' /\ UnbornClean'
        BY <1>0, <1>2 DEF vars, IdsDistinct, UnbornClean, Issued, Unborn
    <2>3. StageInv'
        BY <1>0, <1>2 DEF vars, SnapshotInv, StageInv, StageAt, FileStage, LiveStage
    <2>4. CreationInv' /\ RemovalInv'
        BY <1>0, <1>2 DEF vars, SnapshotInv, CreationInv, RemovalInv, RemovalAt
    <2>5. BoundIsUsable' /\ TableHasRow'
        BY <1>0, <1>2 DEF vars, SnapshotInv, BoundIsUsable, TableHasRow, Rows
    <2>6. ReceiptInv' /\ ReportInv'
        BY <1>0, <1>2 DEF vars, ReceiptInv, ReceiptOnce, ReportInv, BoundReportDownloadable
    <2> QED  BY <2>1, <2>2, <2>3, <2>4, <2>5, <2>6 DEF SourcesInv, SnapshotInv
  <1> QED  BY <1>1, <1>2

\* However uploads, imports, live binds, removals, deletions, confirmations and
\* reports overlap, and whichever of their calls fail, what the requests have
\* written and the lock they hold fit together.
THEOREM SourcesInvariant == Spec => []SourcesInv
  <1>1. Init => SourcesInv
      BY InitInv
  <1>2. SourcesInv /\ [Next]_vars => SourcesInv'
      BY NextInv
  <1> QED  BY <1>1, <1>2, PTL DEF Spec

\* The rows, tables and requests have their types, and the upload lock is held
\* exactly by the request between LockUpload and UnlockUpload (upload.go).
THEOREM SourcesTypeCorrect == Spec => []TypeOK
  <1>1. SourcesInv => TypeOK
      BY DEF SourcesInv
  <1> QED  BY <1>1, SourcesInvariant, PTL

\* A source the session is bound to, and that no removal is taking apart or has
\* left in pieces, has a ready snapshot, its profile and its table (data_source.go).
THEOREM BoundSourceIsUsable == Spec => []BoundIsUsable
  <1>1. SourcesInv => BoundIsUsable
      BY DEF SourcesInv, SnapshotInv
  <1> QED  BY <1>1, SourcesInvariant, PTL

\* No import, clean-up or removal leaves a table in the analysis database that
\* no snapshot row leads to (ingest, cleanupSupersededSnapshots).
THEOREM NoTableWithoutRow == Spec => []TableHasRow
  <1>1. SourcesInv => TableHasRow
      BY DEF SourcesInv, SnapshotInv
  <1> QED  BY <1>1, SourcesInvariant, PTL

\* A receipt confirms a profile once, however often its commit is repeated
\* (ConfirmProfile).
THEOREM ReceiptConfirmsOnce == Spec => []ReceiptOnce
  <1>1. SourcesInv => ReceiptOnce
      BY DEF SourcesInv, ReceiptInv
  <1> QED  BY <1>1, SourcesInvariant, PTL

\* A report the run refers to can be downloaded, whichever call of saving it
\* again or of undoing that failed (finalizeAndPersistReport).
THEOREM BoundReportHasFile == Spec => []BoundReportDownloadable
  <1>1. SourcesInv => BoundReportDownloadable
      BY DEF SourcesInv, ReportInv
  <1> QED  BY <1>1, SourcesInvariant, PTL

=============================================================================
