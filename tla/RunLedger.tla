----------------------------- MODULE RunLedger -----------------------------
(***************************************************************************)
(* The run records of one state directory: commands that create VMs and    *)
(* images (`run`, `agent-up`), that tear one VM down later (`terminate`)   *)
(* and that clean the records up (`ls --remote --prune`), as processes     *)
(* that share nothing but the files and the account, and of which the      *)
(* creating ones may be killed between any two steps.                      *)
(*                                                                         *)
(* A record is written whole, truncated first: a write that fails, or that *)
(* the process does not survive, leaves it torn, and nobody is told.  VM,  *)
(* image and build log group r are those run r creates; a launch under a   *)
(* client token already used returns the VM of the run that used it.       *)
(***************************************************************************)
EXTENDS Naturals, FiniteSets

CONSTANTS
  Run,      \* the runs, numbered in the order of their ids
  Kinds,    \* which commands create: "run", "agent" (agent-up)
  Overlap,  \* bound: how many of them are under way at once
  Torable,  \* whether a write may fail or be cut
  Cleaners, \* which commands clean up after them: "terminate", "prune"
  NoRun

ASSUME RunAssumption == Run \subseteq Nat /\ IsFiniteSet(Run)
ASSUME KindsAssumption == Kinds \subseteq {"run", "agent"}
ASSUME OverlapAssumption == Overlap \in Nat
ASSUME TorableAssumption == Torable \in BOOLEAN
ASSUME CleanersAssumption == Cleaners \subseteq {"terminate", "prune"}
ASSUME NoRunAssumption == NoRun \notin Run

VARIABLES
  vm,        \* vm[v]: none, live or gone
  image,     \* image[i]: none, live or gone
  file,      \* file[r]: what the directory holds under run r's id
  run,       \* run[r]: the command of run r
  term,      \* the terminate command
  prune,     \* the prune command
  overtaken  \* history: records pruned although they had changed since they were read

platform == <<vm, image>>
ledgerVars == <<vm, image, file, run, term, prune, overtaken>>

Id == [kind : {"vm", "image", "group"}, of : Run]
VmId(v) == [kind |-> "vm", of |-> v]
ImageId(i) == [kind |-> "image", of |-> i]
GroupId(i) == [kind |-> "group", of |-> i]

Record == [is : {"record"}, vm : Run \cup {NoRun}, image : Run \cup {NoRun}, leaked : SUBSET Id]
Blank == [is |-> "record", vm |-> NoRun, image |-> NoRun, leaked |-> {}]
Absent == [Blank EXCEPT !.is = "absent"]
Torn == [Blank EXCEPT !.is = "torn"]
Readable(f) == f.is = "record"

\* The identifiers in a record's fields.
Named(rec) ==
  (IF rec.vm = NoRun THEN {} ELSE {VmId(rec.vm)})
    \cup (IF rec.image = NoRun THEN {} ELSE {ImageId(rec.image)})

\* What a record says is outstanding: its list, or its fields while the list
\* is empty.
Outstanding(rec) == IF rec.leaked = {} THEN Named(rec) ELSE rec.leaked

Live(id) ==
  \/ id.kind = "vm" /\ vm[id.of] = "live"
  \/ id.kind = "image" /\ image[id.of] = "live"

RunStep == {"start", "built", "ready", "named", "launched", "provisioning", "over",
            "settled", "deleting", "deletingImage", "deleted", "clearing",
            "done", "crashed"}
Files == UNION {[rs -> Record \cup {Absent, Torn}] : rs \in SUBSET Run}
Nothing == [r \in {} |-> Absent]
Idle == [step |-> "idle", target |-> NoRun, image |-> NoRun, leaked |-> {}, opened |-> Nothing]
Unread == [step |-> "idle", seen |-> Nothing]

LedgerInit ==
  /\ vm = [v \in Run |-> "none"]
  /\ image = [i \in Run |-> "none"]
  /\ file = [r \in Run |-> Absent]
  /\ run \in [Run -> {[step |-> "start", kind |-> k, keep |-> b,
                       vm |-> NoRun, mem |-> Blank, still |-> {}] :
                      k \in Kinds, b \in BOOLEAN}]
  /\ term = Idle
  /\ prune = Unread
  /\ overtaken = {}

----------------------------------------------------------------------------
(* run and agent-up                                                        *)

Over(r) == run[r].step \in {"done", "crashed"}

\* A run starts after those with smaller ids.
Starts(r) ==
  /\ run[r].step = "start"
  /\ \A o \in Run : o < r => run[o].step # "start"
  /\ Cardinality({o \in Run : run[o].step # "start" /\ ~Over(o)}) < Overlap

Goes(r, step) == run' = [run EXCEPT ![r].step = step]

\* What a process held dies with it; which identifiers it had recorded is kept
\* as history.
Ends(r, step) ==
  run' = [run EXCEPT ![r].step = step, ![r].keep = FALSE, ![r].still = {}, ![r].mem.leaked = {}]

\* What a write of rec leaves.
Written(rec) == {rec} \cup (IF Torable THEN {Torn} ELSE {})

\* Ledger::flush: the record is in memory whatever becomes of the write.
Flush(r, rec, step) ==
  /\ run' = [run EXCEPT ![r].mem = rec, ![r].step = step]
  /\ \E f \in Written(rec) : file' = [file EXCEPT ![r] = f]

\* The image is created; build_image and ensure_image return after the build.
Build(r) ==
  /\ Starts(r)
  /\ image' = [image EXCEPT ![r] = "live"]
  /\ Goes(r, "built")
  /\ UNCHANGED <<vm, file, term, prune, overtaken>>

BuildFails(r) ==
  /\ run[r].step = "built"
  /\ run' = [run EXCEPT ![r].step = "over", ![r].keep = @ /\ run[r].kind = "run"]
  /\ UNCHANGED <<platform, file, term, prune, overtaken>>

RecordImage(r) ==
  /\ run[r].step = "built"
  /\ Flush(r, [run[r].mem EXCEPT !.image = r], "ready")
  /\ UNCHANGED <<platform, term, prune, overtaken>>

\* An image that is there, its own from before or another run's: run leaves
\* it out of its record, agent-up does not.
Reuse(r, i) ==
  /\ Starts(r)
  /\ \/ /\ run[r].kind = "run"
        /\ Goes(r, "ready")
        /\ UNCHANGED <<image, file>>
     \/ /\ run[r].kind = "agent"
        /\ i = r \/ image[i] = "live"
        /\ image' = [image EXCEPT ![i] = "live"]
        /\ Flush(r, [run[r].mem EXCEPT !.image = i], "ready")
  /\ UNCHANGED <<vm, term, prune, overtaken>>

\* --vm-log-group: a record that names nothing the listings could show.
RecordVmLogGroup(r) ==
  /\ run[r].step = "ready"
  /\ Flush(r, run[r].mem, "named")
  /\ UNCHANGED <<platform, term, prune, overtaken>>

\* RunMicrovm accepted: the handle knows the VM, the record does not.
Launch(r, v) ==
  /\ run[r].step \in {"ready", "named"}
  /\ IF v = r THEN vm[r] = "none" ELSE vm[v] = "live"
  /\ vm' = [vm EXCEPT ![v] = "live"]
  /\ run' = [run EXCEPT ![r].step = "launched", ![r].vm = v]
  /\ UNCHANGED <<image, file, term, prune, overtaken>>

\* A failure or an interrupt ends the body wherever it is.
BodyCut(r) ==
  /\ run[r].step \in {"ready", "named", "launched", "provisioning"}
  /\ run' = [run EXCEPT ![r].step = "over", ![r].keep = @ /\ run[r].kind = "run"]
  /\ UNCHANGED <<platform, file, term, prune, overtaken>>

\* After the RUNNING wait (and, in run, the exec and the download).
RecordLaunch(r) ==
  /\ run[r].step = "launched"
  /\ Flush(r, [run[r].mem EXCEPT !.vm = run[r].vm],
           IF run[r].kind = "run" THEN "over" ELSE "provisioning")
  /\ UNCHANGED <<platform, term, prune, overtaken>>

Provisioned(r) ==
  /\ run[r].step = "provisioning"
  /\ run' = [run EXCEPT ![r].step = "settled", ![r].keep = TRUE]
  /\ UNCHANGED <<platform, file, term, prune, overtaken>>

\* run reads the VM off the handle after the select, however the body ended.
AfterSelect(r) ==
  /\ run[r].step = "over"
  /\ run[r].kind = "run"
  /\ \/ /\ run[r].vm # NoRun \/ run[r].mem.image # NoRun
        /\ Flush(r, [run[r].mem EXCEPT !.vm = run[r].vm], "settled")
     \/ /\ run[r].vm = NoRun /\ run[r].mem.image = NoRun
        /\ Goes(r, "settled")
        /\ file' = file
  /\ UNCHANGED <<platform, term, prune, overtaken>>

\* agent-up has a teardown only if there is a VM.
AgentFailed(r) ==
  /\ run[r].step = "over"
  /\ run[r].kind = "agent"
  /\ Goes(r, IF run[r].vm = NoRun THEN "done" ELSE "settled")
  /\ UNCHANGED <<platform, file, term, prune, overtaken>>

MarkOutstanding(r) ==
  /\ run[r].step = "settled"
  /\ Flush(r, [run[r].mem EXCEPT !.leaked = Named(run[r].mem)],
           IF run[r].keep THEN "done" ELSE "deleting")
  /\ UNCHANGED <<platform, term, prune, overtaken>>

\* Sandbox::terminate: the VM, if there is one; the call may fail, also after
\* it took effect.
TerminateVm(r) ==
  LET v == run[r].vm IN
  /\ run[r].step = "deleting"
  /\ \/ /\ v = NoRun
        /\ vm' = vm
        /\ Goes(r, "deletingImage")
     \/ /\ v # NoRun
        /\ vm' = [vm EXCEPT ![v] = "gone"]
        /\ Goes(r, "deletingImage")
     \/ /\ v # NoRun
        /\ vm' \in {vm, [vm EXCEPT ![v] = "gone"]}
        /\ run' = [run EXCEPT ![r].step = "deletingImage", ![r].still = {VmId(v)}]
  /\ UNCHANGED <<image, file, term, prune, overtaken>>

\* Then the image a run built, whose log group is only named; agent-up leaves
\* its image.
DeleteImage(r) ==
  LET i == run[r].mem.image IN
  /\ run[r].step = "deletingImage"
  /\ \/ /\ run[r].kind = "agent" \/ i = NoRun
        /\ image' = image
        /\ Goes(r, "deleted")
     \/ /\ run[r].kind = "run" /\ i # NoRun
        /\ \E left \in {{}, {ImageId(i)}} :
             /\ image' = IF left = {} THEN [image EXCEPT ![i] = "gone"] ELSE image
             /\ run' = [run EXCEPT ![r].step = "deleted",
                                   ![r].still = @ \cup left \cup {GroupId(i)}]
  /\ UNCHANGED <<vm, file, term, prune, overtaken>>

\* Mutant of MarkDeleted: the list becomes the deletions, not the survivors.
MarkDeletedInverted(r) ==
  /\ run[r].step = "deleted"
  /\ Flush(r, [run[r].mem EXCEPT !.leaked = @ \ run[r].still], "clearing")
  /\ UNCHANGED <<platform, term, prune, overtaken>>

MarkDeleted(r) ==
  /\ run[r].step = "deleted"
  /\ Flush(r, [run[r].mem EXCEPT !.leaked = run[r].still], "clearing")
  /\ UNCHANGED <<platform, term, prune, overtaken>>

Clear(r) ==
  /\ run[r].step = "clearing"
  /\ file' = IF run[r].mem.leaked = {} THEN [file EXCEPT ![r] = Absent] ELSE file
  /\ Ends(r, "done")
  /\ UNCHANGED <<platform, term, prune, overtaken>>

\* SIGKILL, a panic, the machine.
Crash(r) ==
  /\ run[r].step # "start" /\ ~Over(r)
  /\ Ends(r, "crashed")
  /\ UNCHANGED <<platform, file, term, prune, overtaken>>

----------------------------------------------------------------------------
(* terminate                                                               *)

Newest(rs) == CHOOSE r \in rs : \A o \in rs : o <= r

\* Every readable record that names the VM is opened; --delete-image takes
\* the image of the newest and is refused without one.
OpenAllForVm(v, delete) ==
  LET named == {r \in Run : Readable(file[r]) /\ file[r].vm = v}
      newest == IF named = {} THEN NoRun ELSE file[Newest(named)].image IN
  /\ term.step = "idle"
  /\ vm[v] # "none"
  /\ delete => newest # NoRun
  /\ term' = [step |-> "terminating", target |-> v, leaked |-> {},
              image |-> IF delete THEN newest ELSE NoRun,
              opened |-> [r \in named |-> file[r]]]
  /\ UNCHANGED <<platform, file, run, prune, overtaken>>

TermCall ==
  /\ term.step = "terminating"
  /\ \/ /\ vm' = [vm EXCEPT ![term.target] = "gone"]
        /\ term' = [term EXCEPT !.step = "image"]
     \/ /\ vm' \in {vm, [vm EXCEPT ![term.target] = "gone"]}
        /\ term' = [term EXCEPT !.step = "image", !.leaked = {VmId(term.target)}]
  /\ UNCHANGED <<image, file, run, prune, overtaken>>

TermImage ==
  /\ term.step = "image"
  /\ \/ /\ term.image = NoRun
        /\ image' = image
        /\ term' = [term EXCEPT !.step = "narrowing"]
     \/ /\ term.image # NoRun
        /\ image' = [image EXCEPT ![term.image] = "gone"]
        /\ term' = [term EXCEPT !.step = "narrowing"]
     \/ /\ term.image # NoRun
        /\ image' = image
        /\ term' = [term EXCEPT !.step = "narrowing", !.leaked = @ \cup {ImageId(term.image)}]
  /\ UNCHANGED <<vm, file, run, prune, overtaken>>

\* What the record keeps: the VM if its call failed, its image unless it was
\* deleted here, and the log group this command has named.
StillThere(rec) ==
  (term.leaked \cap {VmId(term.target)})
    \cup (IF rec.image = NoRun \/ (rec.image = term.image /\ ImageId(rec.image) \notin term.leaked)
          THEN {} ELSE {ImageId(rec.image)})
    \cup (IF rec.image # NoRun /\ rec.image = term.image THEN {GroupId(rec.image)} ELSE {})

\* mark_deleted and clear of one record, newest first.
NarrowRecord ==
  LET r == Newest(DOMAIN term.opened)
      still == StillThere(term.opened[r]) IN
  /\ term.step = "narrowing"
  /\ DOMAIN term.opened # {}
  /\ \E f \in Written([term.opened[r] EXCEPT !.leaked = still]) :
       file' = [file EXCEPT ![r] = IF still = {} THEN Absent ELSE f]
  /\ term' = [term EXCEPT !.opened = [o \in DOMAIN @ \ {r} |-> @[o]]]
  /\ UNCHANGED <<platform, run, prune, overtaken>>

TermEnds ==
  /\ term.step # "idle"    \* done, or killed
  /\ term' = Idle
  /\ UNCHANGED <<platform, file, run, prune, overtaken>>

----------------------------------------------------------------------------
(* ls --remote --prune                                                     *)

ReadAll ==
  /\ prune.step = "idle"
  /\ prune' = [step |-> "listing", seen |-> file]
  /\ UNCHANGED <<platform, file, run, term, overtaken>>

\* Mutant of Gone: the fields are judged, never the list.
GoneByFields(rec) ==
  /\ Readable(rec)
  /\ \A id \in Named(rec) : ~Live(id)

\* A record is gone when nothing outstanding is listed as live and nothing in
\* it is beyond the listings; an unreadable one is not judged.
Gone(rec) ==
  /\ Readable(rec)
  /\ \A id \in Outstanding(rec) : id.kind # "group" /\ ~Live(id)

Reconcile ==
  /\ prune.step = "listing"
  /\ prune' = [step |-> "removing",
               seen |-> [r \in {o \in Run : Gone(prune.seen[o])} |-> prune.seen[r]]]
  /\ UNCHANGED <<platform, file, run, term, overtaken>>

Remove(r) ==
  /\ prune.step = "removing"
  /\ r \in DOMAIN prune.seen
  /\ prune' = [prune EXCEPT !.seen = [o \in DOMAIN @ \ {r} |-> @[o]]]
  /\ overtaken' = IF file[r] = prune.seen[r] THEN overtaken ELSE overtaken \cup {r}
  /\ file' = [file EXCEPT ![r] = Absent]
  /\ UNCHANGED <<platform, run, term>>

PruneEnds ==
  /\ prune.step = "removing"
  /\ DOMAIN prune.seen = {}
  /\ prune' = Unread
  /\ UNCHANGED <<platform, file, run, term, overtaken>>

----------------------------------------------------------------------------
\* The platform ends a VM (its maximum duration, another operator) and others
\* delete an image.
VmEnds(v) ==
  /\ vm[v] = "live"
  /\ vm' = [vm EXCEPT ![v] = "gone"]
  /\ UNCHANGED <<image, file, run, term, prune, overtaken>>

ImageEnds(i) ==
  /\ image[i] = "live"
  /\ image' = [image EXCEPT ![i] = "gone"]
  /\ UNCHANGED <<vm, file, run, term, prune, overtaken>>

Creates(r) ==
  \/ Build(r) \/ BuildFails(r) \/ RecordImage(r) \/ RecordVmLogGroup(r)
  \/ \E o \in Run : Reuse(r, o) \/ Launch(r, o)
  \/ BodyCut(r) \/ RecordLaunch(r) \/ Provisioned(r) \/ AfterSelect(r) \/ AgentFailed(r)

TearsDown(r) ==
  \/ MarkOutstanding(r) \/ TerminateVm(r) \/ DeleteImage(r) \/ MarkDeleted(r) \/ Clear(r)

Terminate ==
  \/ \E v \in Run, delete \in BOOLEAN : OpenAllForVm(v, delete)
  \/ TermCall \/ TermImage \/ NarrowRecord \/ TermEnds

Prune == ReadAll \/ Reconcile \/ PruneEnds \/ \E r \in Run : Remove(r)

LedgerNext ==
  \/ \E r \in Run : Creates(r) \/ TearsDown(r) \/ Crash(r) \/ VmEnds(r) \/ ImageEnds(r)
  \/ "terminate" \in Cleaners /\ Terminate
  \/ "prune" \in Cleaners /\ Prune

LedgerSpec == LedgerInit /\ [][LedgerNext]_ledgerVars

----------------------------------------------------------------------------
(* Properties                                                              *)

\* Every variable keeps its type.
LedgerTypeOK ==
  /\ vm \in [Run -> {"none", "live", "gone"}]
  /\ image \in [Run -> {"none", "live", "gone"}]
  /\ file \in [Run -> Record \cup {Absent, Torn}]
  /\ run \in [Run -> [step : RunStep, kind : Kinds, keep : BOOLEAN,
                      vm : Run \cup {NoRun}, mem : Record, still : SUBSET Id]]
  /\ term \in [step : {"idle", "terminating", "image", "narrowing"},
               target : Run \cup {NoRun}, image : Run \cup {NoRun},
               leaked : SUBSET Id, opened : Files]
  /\ prune \in [step : {"idle", "listing", "removing"}, seen : Files]
  /\ overtaken \in SUBSET Run

Shows(r, id) == file[r] = Torn \/ (Readable(file[r]) /\ id \in Outstanding(file[r]))

\* Every VM that still runs is in the hands of a command that is alive, or on
\* disk, whoever was killed where and whoever narrowed, cleared or pruned
\* meanwhile; except that its run died before it had recorded the VM, or that
\* a prune removed a record that had changed since it was read (ledger.rs:
\* "The identifiers are worthless to the operator if the process that held
\* them is the process that died").
LiveVmIsRecorded ==
  \A v \in Run : vm[v] = "live" =>
    \E r \in {o \in Run : run[o].vm = v} :
      \/ ~Over(r) \/ Shows(r, VmId(v)) \/ r \in overtaken
      \/ run[r].step = "crashed" /\ run[r].mem.vm = NoRun

\* The same of the images runs have built, with the build's own failure as
\* one more way not to have recorded it; agent-up's image is meant to stay.
LiveImageIsRecorded ==
  \A i \in Run : image[i] = "live" /\ run[i].kind = "run" =>
    ~Over(i) \/ Shows(i, ImageId(i)) \/ run[i].mem.image = NoRun \/ i \in overtaken

\* What still bills is in the hands of a command that is alive or on disk, but
\* for the exceptions above (Ledger, tear_down, terminate).
LiveIsRecorded == LiveVmIsRecorded /\ LiveImageIsRecorded

\* A prune that meets the record it had read removes the last word on nothing:
\* not on a VM or an image that is there, and not on a log group (reconcile;
\* "deleted the one pointer to a group that still existed").
PruneSparesOutstanding ==
  [][\A r \in Run : Remove(r) /\ Readable(file[r]) /\ file[r] = prune.seen[r] =>
       \A id \in Outstanding(file[r]) : id.kind # "group" /\ ~Live(id)]_ledgerVars

\* Not so for agent-up.  mark_outstanding "Marks everything this invocation
\* created as outstanding, before any delete": the VM a command is terminating is
\* in its list.
OutstandingBeforeDelete ==
  \A r \in Run : run[r].step = "deleting" /\ run[r].vm # NoRun =>
    VmId(run[r].vm) \in run[r].mem.leaked

\* Not so.  "a build log group this CLI could only name stays too": a terminate that
\* narrows a record keeps the log groups the record lists.
GroupStaysNamed ==
  [][NarrowRecord =>
       \A r \in Run :
         {id \in file[r].leaked : id.kind = "group"} \subseteq file'[r].leaked]_ledgerVars
=============================================================================
