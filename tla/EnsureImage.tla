---------------------------- MODULE EnsureImage ----------------------------
(***************************************************************************)
(* Sandbox::ensure_image (crates/microvms-app/src/control/ensure.rs): many *)
(* callers derive one content-addressed name from the same inputs, and     *)
(* each must come back with a usable image: the one that is built, the one *)
(* a sibling is building, or its own.                                      *)
(*                                                                         *)
(* The service keeps one image under the name and answers calls one at a   *)
(* time.  A caller is parked between two calls, so whatever it read is old *)
(* by the time it acts on it: siblings create and delete, teardowns delete *)
(* the image, builds settle and deletions finish in between.  gen numbers  *)
(* the images that have had the name, which no caller can see.  Nothing    *)
(* here updates an image: UPDATING, UPDATED and UPDATE_FAILED, which the   *)
(* code reads as it reads CREATING, CREATED and CREATE_FAILED              *)
(* (Found::from_state), are not states of their own.                       *)
(***************************************************************************)
EXTENDS Naturals

CONSTANTS
  Caller,         \* ensure_image calls
  Forced,         \* those that ask for a rebuild
  DeleteAttempts  \* attempts of a delete_image, 3 in ensure.rs

ASSUME EnsureAssumption ==
  /\ Forced \subseteq Caller
  /\ DeleteAttempts \in Nat \ {0}

VARIABLES
  image,     \* the image under the name: its state and its generation
  call,      \* call[c]: where the call is, and its Progress
  first,     \* first[c]: the generation c's first describe found
  stale,     \* stale[c]: the failed generation c's last describe found, or 0
  pulled     \* <<c, s, g>>: c, having described s, deleted g while it was ready

vars == <<image, call, first, stale, pulled>>
historyVars == <<first, stale, pulled>>

ImageState == {"none", "CREATING", "CREATED", "CREATE_FAILED", "DELETING",
               "DELETE_FAILED"}

Pc == {"describe", "settle", "settled", "delete", "awaitDeleted",
       "awaitAbsent", "upload", "create", "refused", "waitOwn", "waitJoined", "vanished",
       "returned", "error"}

Progress ==
  [pc : Pc, uploaded : BOOLEAN, deleted : BOOLEAN, redescribed : BOOLEAN,
   deleted_state : ImageState, tries : 0..DeleteAttempts,
   reused : BOOLEAN, gen : Nat]

Started ==
  [pc |-> "describe", uploaded |-> FALSE, deleted |-> FALSE,
   redescribed |-> FALSE, deleted_state |-> "none", tries |-> 0,
   reused |-> FALSE, gen |-> 0]

TypeOK ==
  /\ image \in [state : ImageState, gen : Nat]
  /\ call \in [Caller -> Progress]
  /\ first \in [Caller -> Nat]
  /\ stale \in [Caller -> Nat]
  /\ pulled \subseteq Caller \X Nat \X Nat

\* What the name holds when the first of these calls starts.
Init ==
  /\ \/ image = [state |-> "none", gen |-> 0]
     \/ \E s \in ImageState \ {"none"} : image = [state |-> s, gen |-> 1]
  /\ call = [c \in Caller |-> Started]
  /\ first = [c \in Caller |-> 0]
  /\ stale = [c \in Caller |-> 0]
  /\ pulled = {}

-----------------------------------------------------------------------------
(* The service.                                                            *)

BuildSettles ==
  /\ image.state = "CREATING"
  /\ \E s \in {"CREATED", "CREATE_FAILED"} : image' = [image EXCEPT !.state = s]
  /\ UNCHANGED <<call>> /\ UNCHANGED historyVars

DeletionSettles ==
  /\ image.state = "DELETING"
  /\ \E s \in {"none", "DELETE_FAILED"} : image' = [image EXCEPT !.state = s]
  /\ UNCHANGED <<call>> /\ UNCHANGED historyVars

Deletable == image.state \in {"CREATED", "CREATE_FAILED", "DELETE_FAILED"}

\* A sandbox's teardown, or a sweep, deletes the image it holds the name of.
TeardownDeletes ==
  /\ Deletable
  /\ image' = [image EXCEPT !.state = "DELETING"]
  /\ UNCHANGED <<call>> /\ UNCHANGED historyVars

-----------------------------------------------------------------------------
(* The decision table.                                                     *)

Found(s) ==
  CASE s = "none" -> "Absent"
    [] s = "CREATING" -> "Building"
    [] s = "CREATED" -> "Ready"
    [] s \in {"CREATE_FAILED", "DELETE_FAILED"} -> "Failed"
    [] s = "DELETING" -> "Deleting"

\* Mutant of Plan: a ready image is taken for stale.
PlanRebuilds(found, force) ==
  CASE found = "Absent" -> "Build"
    [] found \in {"Ready", "Failed"} -> "Delete"
    [] found = "Building" -> "Wait"
    [] found = "Deleting" -> "AwaitAbsent"

Plan(found, force) ==
  CASE found = "Absent" -> "Build"
    [] found = "Ready" /\ ~force -> "Reuse"
    [] found = "Ready" /\ force -> "Delete"
    [] found = "Failed" -> "Delete"
    [] found = "Building" -> "Wait"
    [] found = "Deleting" -> "AwaitAbsent"

-----------------------------------------------------------------------------
(* A caller.                                                               *)

Becomes(c, r) == call' = [call EXCEPT ![c] = r]
Goes(c, place) == Becomes(c, [call[c] EXCEPT !.pc = place])

\* A call that ends drops its Progress.
Fails(c) == Becomes(c, [Started EXCEPT !.pc = "error"])
Returns(c, reused) ==
  Becomes(c, [Started EXCEPT !.pc = "returned", !.reused = reused,
                             !.gen = image.gen])

\* Force is one-shot: a caller that has deleted joins what it finds after.
ForceLeft(c) == c \in Forced /\ ~call[c].deleted

\* delete_image against what a describe read.
StartDelete(c) ==
  Becomes(c, [call[c] EXCEPT !.pc = "delete", !.deleted_state = image.state,
                             !.tries = DeleteAttempts])

\* A describe that decides to delete saw this generation failed.
Saw(c) == stale' = [stale EXCEPT ![c] =
            IF Found(image.state) = "Failed" THEN image.gen ELSE 0]

\* The describe at the head of the loop, and the decision on what it found.
Describe(c) ==
  LET plan == Plan(Found(image.state), ForceLeft(c)) IN
  /\ call[c].pc = "describe"
  /\ \/ plan = "Reuse" /\ Returns(c, TRUE)
     \/ plan = "Wait" /\ ForceLeft(c) /\ Goes(c, "settle")
     \/ plan = "Wait" /\ ~ForceLeft(c) /\ Goes(c, "waitJoined")
     \/ plan = "Delete" /\ StartDelete(c)
     \/ plan = "AwaitAbsent" /\ Goes(c, "awaitAbsent")
     \/ plan = "Build" /\ Goes(c, "upload")
  /\ Saw(c)
  /\ first' = [first EXCEPT ![c] =
       IF ~call[c].redescribed /\ image.state # "none" THEN image.gen ELSE @]
  /\ UNCHANGED <<image, pulled>>

\* A forced caller lets a build settle, whose deletion would be refused: a
\* poll of await_settled that finds it settled.
Settle(c) ==
  /\ call[c].pc = "settle" /\ Found(image.state) # "Building"
  /\ IF Found(image.state) = "Absent"
       THEN Becomes(c, [call[c] EXCEPT !.pc = "upload", !.deleted = TRUE])
       ELSE Goes(c, "settled")
  /\ UNCHANGED image /\ UNCHANGED historyVars

\* It describes once more and deletes what it now finds, or nothing.
Settled(c) ==
  /\ call[c].pc = "settled"
  /\ StartDelete(c)
  /\ Saw(c)
  /\ UNCHANGED <<image, first, pulled>>

\* One attempt to delete whatever has the name by now: accepted, or refused (a
\* build, a deletion under way, no image, a VM that holds it, a throttle).
\* delete_and_await_absent waits for the name however the attempts end.
Delete(c) ==
  /\ call[c].pc = "delete"
  /\ \/ /\ Deletable
        /\ image' = [image EXCEPT !.state = "DELETING"]
        /\ pulled' = IF image.state = "CREATED"
                       THEN pulled \cup {<<c, stale[c], image.gen>>} ELSE pulled
        /\ Becomes(c, [call[c] EXCEPT !.pc = "awaitDeleted", !.tries = 0])
     \/ /\ Becomes(c, [call[c] EXCEPT !.tries = @ - 1,
              !.pc = IF call[c].tries = 1 THEN "awaitDeleted" ELSE "delete"])
        /\ UNCHANGED <<image, pulled>>
  /\ UNCHANGED <<first, stale>>

\* Mutant of AwaitAbsent: the state the delete was issued against is not
\* taken for a deletion still to come.
AwaitAbsentAtOnce(c) ==
  /\ call[c].pc \in {"awaitDeleted", "awaitAbsent"}
  /\ \/ image.state = "DELETE_FAILED" /\ Fails(c)
     \/ /\ image.state \notin {"DELETE_FAILED", "DELETING"}
        /\ Becomes(c, [call[c] EXCEPT !.pc = "upload", !.deleted_state = "none",
             !.deleted = @ \/ call[c].pc = "awaitDeleted"])
  /\ UNCHANGED image /\ UNCHANGED historyVars

\* A poll of await_absent that ends it: the name is free, the deletion failed,
\* or the image is no longer the one deleted, by the state it was deleted in.
AwaitAbsent(c) ==
  /\ call[c].pc \in {"awaitDeleted", "awaitAbsent"}
  /\ \/ image.state = "DELETE_FAILED" /\ Fails(c)
     \/ /\ image.state \notin {"DELETE_FAILED", "DELETING"}
        /\ image.state = "none" \/ image.state # call[c].deleted_state
        /\ Becomes(c, [call[c] EXCEPT !.pc = "upload", !.deleted_state = "none",
             !.deleted = @ \/ call[c].pc = "awaitDeleted"])
  /\ UNCHANGED image /\ UNCHANGED historyVars

\* put_object, once per call.
Upload(c) ==
  /\ call[c].pc = "upload"
  /\ Becomes(c, [call[c] EXCEPT !.pc = "create", !.uploaded = TRUE])
  /\ UNCHANGED image /\ UNCHANGED historyVars

CreateAccepted(c) ==
  /\ image.state = "none"
  /\ image' = [state |-> "CREATING", gen |-> image.gen + 1]

\* create_image: accepted, accepted with its answer lost, or refused, because
\* something has the name or for a reason of the service's own.
Create(c) ==
  /\ call[c].pc = "create"
  /\ \/ CreateAccepted(c) /\ Goes(c, "waitOwn")
     \/ CreateAccepted(c) /\ Fails(c)
     \/ Goes(c, "refused") /\ UNCHANGED image
  /\ UNCHANGED historyVars

\* Back to the describe, once.
Redescribes(c) ==
  IF call[c].redescribed
    THEN Fails(c)
    ELSE Becomes(c, [call[c] EXCEPT !.pc = "describe", !.redescribed = TRUE])

\* Mutant of Refused: the loser joins the winner without waiting for it.
RefusedReturnsEarly(c) ==
  /\ call[c].pc = "refused"
  /\ \/ Found(image.state) \in {"Ready", "Building"} /\ Returns(c, TRUE)
     \/ Found(image.state) = "Failed" /\ Goes(c, "waitJoined")
     \/ Found(image.state) \in {"Absent", "Deleting"} /\ Redescribes(c)
  /\ UNCHANGED image /\ UNCHANGED historyVars

\* IMAGE-11: the race is lost when something now has the name: join it.
Refused(c) ==
  /\ call[c].pc = "refused"
  /\ \/ Found(image.state) = "Ready" /\ Returns(c, TRUE)
     \/ Found(image.state) \in {"Building", "Failed"} /\ Goes(c, "waitJoined")
     \/ Found(image.state) \in {"Absent", "Deleting"} /\ Redescribes(c)
  /\ UNCHANGED image /\ UNCHANGED historyVars

\* A poll of wait_for_image that ends it.  It follows the name: an image that
\* is ready is the answer, whoever built it; a failed one and a 404 are errors.
WaitForImage(c) ==
  /\ call[c].pc \in {"waitOwn", "waitJoined"}
  /\ \/ image.state = "CREATED" /\ Returns(c, call[c].pc = "waitJoined")
     \/ /\ image.state \in {"CREATE_FAILED", "DELETE_FAILED", "none"}
        /\ Goes(c, "vanished")
  /\ UNCHANGED image /\ UNCHANGED historyVars

\* After a wait that failed: if the image has gone, or is going, look again.
Vanished(c) ==
  /\ call[c].pc = "vanished"
  /\ IF image.state \in {"none", "DELETING"} THEN Redescribes(c)
                                             ELSE Fails(c)
  /\ UNCHANGED image /\ UNCHANGED historyVars

\* Mutant of WaitFails: the wait for the name has no deadline.
WaitFailsNot(c) ==
  /\ call[c].pc \in {"waitOwn", "waitJoined"} /\ Goes(c, "vanished")
  /\ UNCHANGED image /\ UNCHANGED historyVars

\* A wait's deadline passes or one of its calls fails: wait_for_image looks
\* whether the image vanished, the other waits return the error.
WaitFails(c) ==
  /\ \/ call[c].pc \in {"waitOwn", "waitJoined"} /\ Goes(c, "vanished")
     \/ call[c].pc \in {"settle", "awaitDeleted", "awaitAbsent"} /\ Fails(c)
  /\ UNCHANGED image /\ UNCHANGED historyVars

\* A describe, an upload or a create fails: the call returns the error.
CallFails(c) ==
  /\ call[c].pc \in {"describe", "settled", "upload", "create", "refused",
                     "vanished"}
  /\ Fails(c)
  /\ UNCHANGED image /\ UNCHANGED historyVars

-----------------------------------------------------------------------------
Step(c) ==
  \/ Describe(c) \/ Settle(c) \/ Settled(c) \/ Delete(c) \/ AwaitAbsent(c)
  \/ Upload(c) \/ Create(c) \/ Refused(c) \/ WaitForImage(c) \/ Vanished(c)

Next ==
  \/ BuildSettles \/ DeletionSettles \/ TeardownDeletes
  \/ \E c \in Caller : Step(c) \/ WaitFails(c) \/ CallFails(c)

Spec == Init /\ [][Next]_vars

\* A caller goes on while it can, and every wait has a deadline.  Nothing is
\* assumed of the service: a build or a deletion may never settle.
FairSpec ==
  Spec /\ \A c \in Caller : WF_vars(Step(c)) /\ WF_vars(WaitFails(c))

-----------------------------------------------------------------------------
(* Properties.                                                             *)

\* IMAGE-10: a forced call never hands back the image it found, whether that
\* was ready, still building or being deleted, its delete refused or overtaken
\* by a sibling's, and although the wait for the name only compares states.
ForcedReturnsFresh ==
  \A c \in Forced : call[c].pc = "returned" => call[c].gen > first[c]

\* A call that did not force deletes a ready image only by mistake: it had
\* described a failed one, which a sibling replaced before the delete arrived.
UnforcedPullIsStale ==
  \A p \in pulled : p[1] \in Forced \/ (0 < p[2] /\ p[2] < p[3])

\* IMAGE-9 and IMAGE-11: what a call returned had been built when it returned:
\* a later generation exists, or this one is past CREATING.
ReturnedIsBuilt ==
  \A c \in Caller : call[c].pc = "returned" =>
    /\ call[c].gen > 0
    /\ image.gen > call[c].gen \/ image.state # "CREATING"

\* Every call ends, although builds and deletions may never settle and
\* siblings keep deleting what it waits for.
EnsureReturns ==
  \A c \in Caller : <>(call[c].pc \in {"returned", "error"})

\* Not so.  IMAGE-10, "deleting a ready image only under a forced rebuild"
\* (docs/TRACEABILITY.md).
ReadyDeletedOnlyForced == \A p \in pulled : p[1] \in Forced
============================================================================
