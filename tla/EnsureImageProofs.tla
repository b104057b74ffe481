------------------------- MODULE EnsureImageProofs -------------------------
(***************************************************************************)
(* Proofs about EnsureImage, for any number of callers, any of them        *)
(* forced, and any number of delete attempts.                              *)
(***************************************************************************)
EXTENDS EnsureImage, TLAPS

\* c's first image has been left behind: the name holds a later one, or
\* nothing, and what comes next is later.
Behind(c) ==
  \/ first[c] < image.gen
  \/ first[c] = image.gen /\ image.state = "none"

\* What c saw failed has not become ready, or is no longer what the name holds.
StillStale(c) ==
  /\ 0 < stale[c]
  /\ \/ stale[c] < image.gen
     \/ /\ stale[c] = image.gen
        /\ image.state \in {"CREATE_FAILED", "DELETE_FAILED", "DELETING", "none"}

\* The image c deletes, or waits to be gone, is the first it saw in the state
\* it saw it in, on its way out, or already behind.
OnItsWay(c) ==
  \/ first[c] < image.gen
  \/ /\ first[c] = image.gen /\ call[c].deleted_state # "CREATING"
     /\ image.state \in {call[c].deleted_state, "DELETING", "DELETE_FAILED", "none"}

\* What the place of a call says of its Progress.
Placed(c) ==
  /\ call[c].pc = "delete" => call[c].tries > 0
  /\ call[c].pc \in {"settle", "settled"} => c \in Forced
  /\ call[c].pc = "describe" /\ ~call[c].redescribed =>
       ~call[c].deleted /\ first[c] = 0
  /\ call[c].pc \notin {"delete", "awaitDeleted"} =>
       call[c].deleted_state = "none"

\* A delete without force is of an image that was seen failed.
Stale(c) == call[c].pc = "delete" /\ c \notin Forced => StillStale(c)

\* Where a forced call stands to the image it found first.
Fresh(c) ==
  c \in Forced =>
    /\ first[c] <= image.gen
    /\ \/ call[c].pc \in {"upload", "create", "refused", "waitOwn",
                          "waitJoined", "vanished"}
       \/ call[c].pc = "describe" /\ call[c].redescribed
       => Behind(c)
    /\ call[c].pc = "settled" => first[c] < image.gen \/ image.state # "CREATING"
    /\ call[c].pc \in {"delete", "awaitDeleted", "awaitAbsent"} => OnItsWay(c)
    /\ call[c].pc = "returned" => call[c].gen > first[c]

\* What a call returned is built.
Built(c) ==
  call[c].pc = "returned" =>
    /\ call[c].gen > 0 /\ call[c].gen <= image.gen
    /\ call[c].gen = image.gen => image.state # "CREATING"

CallerInv(c) == Placed(c) /\ Stale(c) /\ Fresh(c) /\ Built(c)

\* The inductive invariant.
Inv ==
  /\ TypeOK
  /\ image.state # "none" => image.gen > 0
  /\ \A c \in Caller : CallerInv(c)
  /\ UnforcedPullIsStale

(***************************************************************************)
(* The image.                                                              *)
(***************************************************************************)

\* The ways the image under the name changes.
ImageMoves ==
  \/ image' = image
  \/ /\ image.state = "CREATING" /\ image'.state \in {"CREATED", "CREATE_FAILED"}
     /\ image'.gen = image.gen
  \/ /\ image.state = "DELETING" /\ image'.state \in {"none", "DELETE_FAILED"}
     /\ image'.gen = image.gen
  \/ /\ image.state \in {"CREATED", "CREATE_FAILED", "DELETE_FAILED"}
     /\ image'.state = "DELETING" /\ image'.gen = image.gen
  \/ /\ image.state = "none" /\ image'.state = "CREATING"
     /\ image'.gen = image.gen + 1

\* A call that does not step keeps its invariant however the image changes.
LEMMA OthersKeep ==
  ASSUME TypeOK, NEW c \in Caller, CallerInv(c), ImageMoves,
         image' \in [state : ImageState, gen : Nat],
         call'[c] = call[c], first'[c] = first[c], stale'[c] = stale[c]
  PROVE  CallerInv(c)'
<1>1. /\ image.gen \in Nat /\ image'.gen \in Nat
      /\ first[c] \in Nat /\ stale[c] \in Nat /\ call[c].gen \in Nat
      /\ image.state \in ImageState /\ image'.state \in ImageState
  BY DEF TypeOK, Progress
<1>2. Placed(c)'
  BY DEF CallerInv, Placed
<1>3. Stale(c)'
  BY <1>1 DEF CallerInv, Stale, StillStale, ImageMoves
<1>4. Fresh(c)'
  BY <1>1 DEF CallerInv, Fresh, Behind, OnItsWay, ImageMoves
<1>5. Built(c)'
  BY <1>1 DEF CallerInv, Built, ImageMoves
<1> QED
  BY <1>2, <1>3, <1>4, <1>5 DEF CallerInv

\* A step of the service, or of one caller that leaves the histories of the
\* others alone, keeps the invariant if it keeps that caller's.
LEMMA ServiceKeeps ==
  ASSUME Inv, ImageMoves, image' \in [state : ImageState, gen : Nat],
         UNCHANGED <<call, first, stale, pulled>>
  PROVE  Inv'
<1>1. TypeOK'
  BY DEF Inv, TypeOK
<1>2. image'.state # "none" => image'.gen > 0
  BY DEF Inv, ImageMoves, TypeOK
<1>3. \A c \in Caller : CallerInv(c)'
  BY OthersKeep DEF Inv
<1> QED
  BY <1>1, <1>2, <1>3 DEF Inv, UnforcedPullIsStale

LEMMA CallerKeeps ==
  ASSUME Inv, ImageMoves, NEW c \in Caller,
         image' \in [state : ImageState, gen : Nat],
         NEW r \in Progress, call' = [call EXCEPT ![c] = r],
         NEW f \in Nat, first' = [first EXCEPT ![c] = f],
         NEW s \in Nat, stale' = [stale EXCEPT ![c] = s],
         pulled' = pulled, CallerInv(c)'
  PROVE  Inv'
<1>1. TypeOK'
  BY DEF Inv, TypeOK
<1>2. image'.state # "none" => image'.gen > 0
  BY DEF Inv, ImageMoves, TypeOK
<1>3. ASSUME NEW d \in Caller PROVE CallerInv(d)'
  <2>1. CASE d = c
    BY <2>1
  <2>2. CASE d # c
    <3>1. call'[d] = call[d] /\ first'[d] = first[d] /\ stale'[d] = stale[d]
      BY <2>2 DEF Inv, TypeOK
    <3> QED
      BY <3>1, OthersKeep DEF Inv
  <2> QED
    BY <2>1, <2>2
<1> QED
  BY <1>1, <1>2, <1>3 DEF Inv, UnforcedPullIsStale

LEMMA StartedType ==
  /\ Started \in Progress /\ Started.pc = "describe"
  /\ Started.deleted_state = "none" /\ Started.gen = 0
  /\ ~Started.redescribed /\ ~Started.deleted
  BY EnsureAssumption DEF Started, Progress, Pc, ImageState

LEMMA InitInv == Init => Inv
<1> SUFFICES ASSUME Init PROVE Inv
  OBVIOUS
<1>1. TypeOK
  BY StartedType DEF Init, TypeOK, ImageState
<1>2. image.state # "none" => image.gen > 0
  BY DEF Init
<1>3. ASSUME NEW c \in Caller PROVE CallerInv(c)
  <2>1. call[c] = Started /\ first[c] = 0 /\ image.gen \in Nat
    BY <1>1 DEF Init, TypeOK
  <2> QED
    BY <2>1, StartedType DEF CallerInv, Placed, Stale, Fresh, Built
<1> QED
  BY <1>1, <1>2, <1>3 DEF Inv, Init, UnforcedPullIsStale

(***************************************************************************)
(* The callers.                                                            *)
(***************************************************************************)

\* A caller that steps and leaves the image and the histories alone.
LEMMA QuietKeeps ==
  ASSUME Inv, NEW c \in Caller, NEW r \in Progress,
         call' = [call EXCEPT ![c] = r],
         UNCHANGED image, UNCHANGED historyVars,
         CallerInv(c)'
  PROVE  Inv'
<1>1. first' = [first EXCEPT ![c] = first[c]] /\ first[c] \in Nat
  BY DEF Inv, TypeOK, historyVars
<1>2. stale' = [stale EXCEPT ![c] = stale[c]] /\ stale[c] \in Nat
  BY DEF Inv, TypeOK, historyVars
<1>3. ImageMoves /\ image' \in [state : ImageState, gen : Nat]
  BY DEF Inv, TypeOK, ImageMoves
<1>4. pulled' = pulled
  BY DEF historyVars
<1> QED
  BY <1>1, <1>2, <1>3, <1>4, CallerKeeps

\* A call that fails asks for nothing more.
LEMMA FailsKeeps ==
  ASSUME Inv, NEW c \in Caller, Fails(c), UNCHANGED image, UNCHANGED historyVars
  PROVE  Inv'
<1> DEFINE r == [Started EXCEPT !.pc = "error"]
<1>1. r \in Progress /\ r.pc = "error" /\ r.deleted_state = "none"
  BY StartedType DEF Progress, Pc
<1>2. call' = [call EXCEPT ![c] = r] /\ call'[c] = r
  BY DEF Fails, Becomes, Inv, TypeOK
<1> HIDE DEF r
<1>3. first'[c] = first[c] /\ first[c] \in Nat /\ image' = image /\ image.gen \in Nat
  BY DEF Inv, TypeOK, historyVars
<1>4. CallerInv(c)'
  BY <1>1, <1>2, <1>3 DEF Inv, CallerInv, Placed, Stale, Fresh, Built
<1> QED
  BY <1>1, <1>2, <1>4, QuietKeeps

\* A call returns what the name holds, ready and past what it found first.
LEMMA ReturnsKeeps ==
  ASSUME Inv, NEW c \in Caller, NEW b \in BOOLEAN, Returns(c, b),
         image.state = "CREATED", c \in Forced => Behind(c),
         UNCHANGED image, UNCHANGED historyVars
  PROVE  Inv'
<1> DEFINE r == [Started EXCEPT !.pc = "returned", !.reused = b, !.gen = image.gen]
<1>1. /\ r \in Progress /\ r.pc = "returned" /\ r.deleted_state = "none"
      /\ r.gen = image.gen
  BY StartedType DEF Progress, Pc, Inv, TypeOK
<1>2. call' = [call EXCEPT ![c] = r] /\ call'[c] = r
  BY DEF Returns, Becomes, Inv, TypeOK
<1> HIDE DEF r
<1>3. /\ first'[c] = first[c] /\ first[c] \in Nat /\ image' = image
      /\ image.gen \in Nat /\ image.gen > 0
  BY DEF Inv, TypeOK, historyVars
<1>4. Placed(c)' /\ Stale(c)' /\ Built(c)'
  BY <1>1, <1>2, <1>3 DEF Placed, Stale, Built
<1>5. Fresh(c)'
  BY <1>1, <1>2, <1>3 DEF Fresh, Behind, Inv, CallerInv
<1> QED
  BY <1>1, <1>2, <1>4, <1>5, QuietKeeps DEF CallerInv

\* A call goes on from where its first image is behind it.
LEMMA BehindKeeps ==
  ASSUME Inv, NEW c \in Caller, NEW r \in Progress,
         call' = [call EXCEPT ![c] = r], r.deleted_state = "none",
         \/ r.pc \in {"upload", "create", "refused", "waitOwn", "waitJoined", "vanished"}
         \/ r.pc = "describe" /\ r.redescribed,
         c \in Forced => Behind(c),
         UNCHANGED image, UNCHANGED historyVars
  PROVE  Inv'
<1>1. call'[c] = r
  BY DEF Inv, TypeOK
<1>2. /\ first'[c] = first[c] /\ first[c] \in Nat /\ image' = image
      /\ image.gen \in Nat
  BY DEF Inv, TypeOK, historyVars
<1>3. Placed(c)' /\ Stale(c)' /\ Built(c)'
  BY <1>1, <1>2 DEF Placed, Stale, Built
<1>4. Fresh(c)'
  BY <1>1, <1>2 DEF Fresh, Behind, Inv, CallerInv
<1> QED
  BY <1>3, <1>4, QuietKeeps DEF CallerInv

\* The decision table, by the state of the image.
LEMMA PlanTable ==
  ASSUME NEW st \in ImageState, NEW force \in BOOLEAN
  PROVE  /\ Plan(Found(st), force) = "Reuse" <=> st = "CREATED" /\ ~force
         /\ Plan(Found(st), force) = "Wait" <=> st = "CREATING"
         /\ Plan(Found(st), force) = "Delete" <=>
              \/ st = "CREATED" /\ force
              \/ st \in {"CREATE_FAILED", "DELETE_FAILED"}
         /\ Plan(Found(st), force) = "AwaitAbsent" <=> st = "DELETING"
         /\ Plan(Found(st), force) = "Build" <=> st = "none"
         /\ Found(st) = "Ready" <=> st = "CREATED"
         /\ Found(st) = "Building" <=> st = "CREATING"
         /\ Found(st) = "Absent" <=> st = "none"
         /\ Found(st) = "Failed" <=> st \in {"CREATE_FAILED", "DELETE_FAILED"}
  BY DEF Plan, Found, ImageState

\* A describe that keeps a caller's invariant once its histories are updated.
LEMMA DescribeKeeps ==
  ASSUME Inv, NEW c \in Caller, Describe(c)
  PROVE  Inv'
<1> DEFINE st == image.state
           f == IF ~call[c].redescribed /\ st # "none" THEN image.gen ELSE first[c]
           s == IF Found(st) = "Failed" THEN image.gen ELSE 0
           force == ForceLeft(c)
<1>1. /\ st \in ImageState /\ image.gen \in Nat /\ call[c] \in Progress
      /\ first[c] \in Nat /\ f \in Nat /\ s \in Nat /\ force \in BOOLEAN
      /\ call[c].redescribed \in BOOLEAN /\ call[c].deleted \in BOOLEAN
      /\ call[c].pc = "describe" /\ call[c].deleted_state = "none"
      /\ st # "none" => image.gen > 0
  BY DEF Inv, TypeOK, Progress, CallerInv, Placed, ForceLeft, Describe
<1>2. /\ first' = [first EXCEPT ![c] = f] /\ stale' = [stale EXCEPT ![c] = s]
      /\ first'[c] = f /\ stale'[c] = s
      /\ image' = image /\ pulled' = pulled
  BY DEF Describe, Saw, Inv, TypeOK
<1>3. ImageMoves /\ image' \in [state : ImageState, gen : Nat]
  BY <1>2 DEF Inv, TypeOK, ImageMoves
<1>4. /\ c \in Forced /\ ~call[c].redescribed => force
      /\ force => c \in Forced
      /\ c \in Forced /\ call[c].redescribed => Behind(c)
      /\ c \in Forced => first[c] <= image.gen
      /\ ~call[c].redescribed => first[c] = 0
  BY <1>1 DEF Inv, CallerInv, Placed, Fresh, ForceLeft
<1>5. ASSUME NEW r \in Progress, call' = [call EXCEPT ![c] = r], CallerInv(c)'
      PROVE  Inv'
  BY <1>1, <1>2, <1>3, <1>5, CallerKeeps
<1> HIDE DEF f, s, force
<1>7. CASE Plan(Found(st), force) = "Reuse" /\ Returns(c, TRUE)
  <2> DEFINE r == [Started EXCEPT !.pc = "returned", !.reused = TRUE, !.gen = image.gen]
  <2>1. /\ r \in Progress /\ r.pc = "returned" /\ r.deleted_state = "none"
        /\ r.gen = image.gen
    BY <1>1, StartedType DEF Progress, Pc
  <2>2. call' = [call EXCEPT ![c] = r] /\ call'[c] = r
    BY <1>7 DEF Returns, Becomes, Inv, TypeOK
  <2> HIDE DEF r
  <2>3. st = "CREATED" /\ ~force
    BY <1>1, <1>7, PlanTable
  <2>4. c \in Forced => call[c].redescribed /\ f = first[c] /\ first[c] < image.gen
    BY <1>1, <1>4, <2>3 DEF f, Behind
  <2>5. Placed(c)' /\ Stale(c)' /\ Built(c)'
    BY <1>1, <1>2, <2>1, <2>2, <2>3 DEF Placed, Stale, Built
  <2>6. Fresh(c)'
    BY <1>1, <1>2, <2>1, <2>2, <2>4 DEF Fresh
  <2> QED
    BY <1>5, <2>1, <2>2, <2>5, <2>6 DEF CallerInv
<1>8. ASSUME NEW p \in Pc, Goes(c, p),
             \/ p = "settle" /\ c \in Forced
             \/ p = "waitJoined" /\ st = "CREATING" /\ ~force
             \/ p = "awaitAbsent" /\ st = "DELETING"
             \/ p = "upload" /\ st = "none"
      PROVE  Inv'
  <2> DEFINE r == [call[c] EXCEPT !.pc = p]
  <2>1. r \in Progress /\ r.pc = p /\ r.deleted_state = "none"
    BY <1>1 DEF Progress
  <2>2. call' = [call EXCEPT ![c] = r] /\ call'[c] = r
    BY <1>8 DEF Goes, Becomes, Inv, TypeOK
  <2> HIDE DEF r
  <2>3. Placed(c)' /\ Stale(c)' /\ Built(c)'
    BY <1>2, <1>8, <2>1, <2>2 DEF Placed, Stale, Built
  <2>4. c \in Forced =>
          /\ f <= image.gen
          /\ p = "waitJoined" => f < image.gen
          /\ p = "upload" => f = first[c]
    BY <1>1, <1>4, <1>8 DEF f, Behind
  <2>5. Fresh(c)'
    BY <1>1, <1>2, <1>4, <1>8, <2>1, <2>2, <2>4 DEF Fresh, Behind, OnItsWay
  <2> QED
    BY <1>5, <2>1, <2>2, <2>3, <2>5 DEF CallerInv
<1>9. CASE Plan(Found(st), force) = "Delete" /\ StartDelete(c)
  <2> DEFINE r == [call[c] EXCEPT !.pc = "delete", !.deleted_state = st,
                                  !.tries = DeleteAttempts]
  <2>1. /\ r \in Progress /\ r.pc = "delete" /\ r.deleted_state = st /\ r.tries > 0
    <3>1. DeleteAttempts \in 0..DeleteAttempts /\ DeleteAttempts > 0
      BY EnsureAssumption
    <3> QED
      BY <1>1, <3>1 DEF Progress, Pc
  <2>2. call' = [call EXCEPT ![c] = r] /\ call'[c] = r
    BY <1>9 DEF StartDelete, Becomes, Inv, TypeOK
  <2> HIDE DEF r
  <2>3. /\ st \in {"CREATED", "CREATE_FAILED", "DELETE_FAILED"}
        /\ ~force => st \in {"CREATE_FAILED", "DELETE_FAILED"} /\ Found(st) = "Failed"
    BY <1>1, <1>9, PlanTable
  <2>4. Placed(c)' /\ Built(c)'
    BY <1>2, <2>1, <2>2 DEF Placed, Built
  <2>5. Stale(c)'
    BY <1>1, <1>2, <1>4, <2>1, <2>2, <2>3 DEF Stale, StillStale, s
  <2>6. c \in Forced => f <= image.gen
    BY <1>1, <1>4 DEF f
  <2>7. Fresh(c)'
    BY <1>1, <1>2, <2>1, <2>2, <2>3, <2>6 DEF Fresh, OnItsWay
  <2> QED
    BY <1>5, <2>1, <2>2, <2>4, <2>5, <2>7 DEF CallerInv
<1> QED
  <2>1. \/ Plan(Found(st), force) = "Reuse" /\ Returns(c, TRUE)
        \/ Plan(Found(st), force) = "Wait" /\ force /\ Goes(c, "settle")
        \/ Plan(Found(st), force) = "Wait" /\ ~force /\ Goes(c, "waitJoined")
        \/ Plan(Found(st), force) = "Delete" /\ StartDelete(c)
        \/ Plan(Found(st), force) = "AwaitAbsent" /\ Goes(c, "awaitAbsent")
        \/ Plan(Found(st), force) = "Build" /\ Goes(c, "upload")
    BY DEF Describe, force
  <2>2. \A p \in {"settle", "waitJoined", "awaitAbsent", "upload"} : p \in Pc
    BY DEF Pc
  <2>3. Plan(Found(st), force) \in {"Wait", "AwaitAbsent", "Build"} =>
          /\ Plan(Found(st), force) = "Wait" => st = "CREATING"
          /\ Plan(Found(st), force) = "AwaitAbsent" => st = "DELETING"
          /\ Plan(Found(st), force) = "Build" => st = "none"
    BY <1>1, PlanTable
  <2>4. CASE Plan(Found(st), force) = "Wait" /\ force /\ Goes(c, "settle")
    BY <1>4, <1>8, <2>2, <2>4
  <2>5. CASE Plan(Found(st), force) = "Wait" /\ ~force /\ Goes(c, "waitJoined")
    BY <1>8, <2>2, <2>3, <2>5
  <2>6. CASE Plan(Found(st), force) = "AwaitAbsent" /\ Goes(c, "awaitAbsent")
    BY <1>8, <2>2, <2>3, <2>6
  <2>7. CASE Plan(Found(st), force) = "Build" /\ Goes(c, "upload")
    BY <1>8, <2>2, <2>3, <2>7
  <2> QED
    BY <1>7, <1>9, <2>1, <2>4, <2>5, <2>6, <2>7

LEMMA SettleKeeps ==
  ASSUME Inv, NEW c \in Caller, Settle(c)
  PROVE  Inv'
<1>1. /\ call[c] \in Progress /\ call[c].pc = "settle" /\ c \in Forced
      /\ call[c].deleted_state = "none" /\ image.state \in ImageState
      /\ first[c] \in Nat /\ image.gen \in Nat /\ first[c] <= image.gen
      /\ UNCHANGED image /\ UNCHANGED historyVars
  BY DEF Settle, Inv, TypeOK, CallerInv, Placed, Fresh
<1>2. CASE Found(image.state) = "Absent"
  <2> DEFINE r == [call[c] EXCEPT !.pc = "upload", !.deleted = TRUE]
  <2>1. r \in Progress /\ r.pc = "upload" /\ r.deleted_state = "none"
    BY <1>1 DEF Progress, Pc
  <2>2. call' = [call EXCEPT ![c] = r]
    BY <1>2 DEF Settle, Becomes
  <2>3. Behind(c)
    BY <1>1, <1>2 DEF Behind, Found, ImageState
  <2> HIDE DEF r
  <2> QED
    BY <1>1, <2>1, <2>2, <2>3, BehindKeeps
<1>3. CASE Found(image.state) # "Absent"
  <2> DEFINE r == [call[c] EXCEPT !.pc = "settled"]
  <2>1. r \in Progress /\ r.pc = "settled" /\ r.deleted_state = "none"
    BY <1>1 DEF Progress, Pc
  <2>2. call' = [call EXCEPT ![c] = r] /\ call'[c] = r
    BY <1>3 DEF Settle, Goes, Becomes, Inv, TypeOK
  <2>3. image.state # "CREATING" /\ image' = image /\ first'[c] = first[c]
    BY <1>1, PlanTable DEF Settle, historyVars
  <2> HIDE DEF r
  <2>4. Placed(c)' /\ Stale(c)' /\ Built(c)'
    BY <1>1, <2>1, <2>2 DEF Placed, Stale, Built
  <2>5. Fresh(c)'
    BY <1>1, <2>1, <2>2, <2>3 DEF Fresh
  <2> QED
    BY <1>1, <2>1, <2>2, <2>4, <2>5, QuietKeeps DEF CallerInv
<1> QED
  BY <1>2, <1>3

LEMMA SettledKeeps ==
  ASSUME Inv, NEW c \in Caller, Settled(c)
  PROVE  Inv'
<1> DEFINE r == [call[c] EXCEPT !.pc = "delete", !.deleted_state = image.state,
                                !.tries = DeleteAttempts]
           s == IF Found(image.state) = "Failed" THEN image.gen ELSE 0
<1>1. /\ call[c] \in Progress /\ call[c].pc = "settled" /\ c \in Forced
      /\ first[c] \in Nat /\ image.gen \in Nat /\ first[c] <= image.gen
      /\ first[c] < image.gen \/ image.state # "CREATING"
      /\ image.state \in ImageState /\ s \in Nat
  BY DEF Settled, Inv, TypeOK, CallerInv, Placed, Fresh
<1>2. DeleteAttempts \in 0..DeleteAttempts /\ DeleteAttempts > 0
  BY EnsureAssumption
<1>3. r \in Progress /\ r.pc = "delete" /\ r.deleted_state = image.state /\ r.tries > 0
  BY <1>1, <1>2 DEF Progress, Pc
<1>4. /\ call' = [call EXCEPT ![c] = r] /\ call'[c] = r
      /\ stale' = [stale EXCEPT ![c] = s] /\ image' = image /\ pulled' = pulled
      /\ first' = [first EXCEPT ![c] = first[c]] /\ first'[c] = first[c]
  BY DEF Settled, StartDelete, Becomes, Saw, Inv, TypeOK
<1> HIDE DEF r, s
<1>5. ImageMoves /\ image' \in [state : ImageState, gen : Nat]
  BY <1>4 DEF Inv, TypeOK, ImageMoves
<1>6. Placed(c)' /\ Stale(c)' /\ Built(c)'
  BY <1>1, <1>3, <1>4 DEF Placed, Stale, Built
<1>7. Fresh(c)'
  BY <1>1, <1>3, <1>4 DEF Fresh, OnItsWay
<1> QED
  BY <1>1, <1>3, <1>4, <1>5, <1>6, <1>7, CallerKeeps DEF CallerInv

\* A delete that is accepted of a ready image pulls it; without force, what c
\* saw failed was an earlier one.
LEMMA DeleteKeeps ==
  ASSUME Inv, NEW c \in Caller, Delete(c)
  PROVE  Inv'
<1>1. /\ call[c] \in Progress /\ call[c].pc = "delete" /\ call[c].tries > 0
      /\ call[c].tries \in 0..DeleteAttempts
      /\ first[c] \in Nat /\ stale[c] \in Nat /\ image.gen \in Nat
      /\ image \in [state : ImageState, gen : Nat]
      /\ c \in Forced => first[c] <= image.gen /\ OnItsWay(c)
      /\ c \notin Forced => StillStale(c)
      /\ first' = first /\ stale' = stale
  BY DEF Delete, Inv, TypeOK, Progress, CallerInv, Placed, Stale, Fresh
<1>2. /\ first' = [first EXCEPT ![c] = first[c]]
      /\ stale' = [stale EXCEPT ![c] = stale[c]]
  BY <1>1 DEF Inv, TypeOK
<1>3. CASE /\ Deletable
           /\ image' = [image EXCEPT !.state = "DELETING"]
           /\ pulled' = IF image.state = "CREATED"
                          THEN pulled \cup {<<c, stale[c], image.gen>>} ELSE pulled
           /\ Becomes(c, [call[c] EXCEPT !.pc = "awaitDeleted", !.tries = 0])
  <2> DEFINE r == [call[c] EXCEPT !.pc = "awaitDeleted", !.tries = 0]
  <2>1. r \in Progress /\ r.pc = "awaitDeleted" /\ r.deleted_state = call[c].deleted_state
    <3>1. 0 \in 0..DeleteAttempts
      BY EnsureAssumption
    <3> QED
      BY <1>1, <3>1 DEF Progress, Pc
  <2>2. call' = [call EXCEPT ![c] = r] /\ call'[c] = r
    BY <1>3 DEF Becomes, Inv, TypeOK
  <2> HIDE DEF r
  <2>3. /\ image' \in [state : ImageState, gen : Nat]
        /\ image'.state = "DELETING" /\ image'.gen = image.gen
        /\ image.state \in {"CREATED", "CREATE_FAILED", "DELETE_FAILED"}
    BY <1>1, <1>3 DEF Deletable, ImageState
  <2>4. ImageMoves
    BY <2>3 DEF ImageMoves
  <2>5. Placed(c)' /\ Stale(c)' /\ Built(c)'
    BY <2>1, <2>2 DEF Placed, Stale, Built
  <2>6. Fresh(c)'
    BY <1>1, <2>1, <2>2, <2>3 DEF Fresh, OnItsWay
  <2>7. pulled' \subseteq Caller \X Nat \X Nat /\ UnforcedPullIsStale'
    <3>1. CASE image.state = "CREATED"
      <4>1. pulled' = pulled \cup {<<c, stale[c], image.gen>>}
        BY <1>3, <3>1
      <4>2. c \in Forced \/ (0 < stale[c] /\ stale[c] < image.gen)
        BY <1>1, <3>1 DEF StillStale
      <4> QED
        BY <1>1, <4>1, <4>2 DEF Inv, TypeOK, UnforcedPullIsStale
    <3>2. CASE image.state # "CREATED"
      BY <1>3, <3>2 DEF Inv, TypeOK, UnforcedPullIsStale
    <3> QED
      BY <3>1, <3>2
  <2>8. TypeOK'
    BY <1>1, <2>1, <2>2, <2>3, <2>7 DEF Inv, TypeOK
  <2>9. \A d \in Caller : d # c => CallerInv(d)'
    BY <1>1, <2>2, <2>3, <2>4, OthersKeep DEF Inv, TypeOK
  <2> QED
    BY <2>3, <2>5, <2>6, <2>7, <2>8, <2>9 DEF Inv, CallerInv
<1>4. CASE /\ Becomes(c, [call[c] EXCEPT !.tries = @ - 1,
                !.pc = IF call[c].tries = 1 THEN "awaitDeleted" ELSE "delete"])
           /\ UNCHANGED <<image, pulled>>
  <2> DEFINE p == IF call[c].tries = 1 THEN "awaitDeleted" ELSE "delete"
             r == [call[c] EXCEPT !.tries = call[c].tries - 1, !.pc = p]
  <2>1. call[c].tries - 1 \in 0..DeleteAttempts /\ p \in Pc
    BY <1>1, EnsureAssumption DEF Pc
  <2>2. /\ r \in Progress /\ r.pc = p /\ r.deleted_state = call[c].deleted_state
        /\ r.tries = call[c].tries - 1
    BY <1>1, <2>1 DEF Progress
  <2>3. call' = [call EXCEPT ![c] = r] /\ call'[c] = r
    BY <1>4 DEF Becomes, Inv, TypeOK
  <2>4. p \in {"awaitDeleted", "delete"} /\ (p = "delete" => call[c].tries - 1 > 0)
    BY <1>1
  <2> HIDE DEF r, p
  <2>5. Placed(c)' /\ Stale(c)' /\ Built(c)'
    BY <1>1, <1>4, <2>2, <2>3, <2>4 DEF Placed, Stale, StillStale, Built
  <2>6. Fresh(c)'
    BY <1>1, <1>4, <2>2, <2>3, <2>4 DEF Fresh, OnItsWay
  <2> QED
    BY <1>1, <1>4, <2>2, <2>3, <2>5, <2>6, QuietKeeps DEF CallerInv, historyVars
<1> QED
  BY <1>3, <1>4 DEF Delete

LEMMA AwaitAbsentKeeps ==
  ASSUME Inv, NEW c \in Caller, AwaitAbsent(c)
  PROVE  Inv'
<1>1. /\ call[c] \in Progress /\ call[c].pc \in {"awaitDeleted", "awaitAbsent"}
      /\ call[c].deleted \in BOOLEAN
      /\ image.state \in ImageState /\ first[c] \in Nat /\ image.gen \in Nat
      /\ c \in Forced => OnItsWay(c)
      /\ UNCHANGED image /\ UNCHANGED historyVars
  BY DEF AwaitAbsent, Inv, TypeOK, Progress, CallerInv, Fresh
<1>2. CASE Fails(c)
  BY <1>1, <1>2, FailsKeeps
<1>3. CASE /\ image.state \notin {"DELETE_FAILED", "DELETING"}
           /\ image.state = "none" \/ image.state # call[c].deleted_state
           /\ Becomes(c, [call[c] EXCEPT !.pc = "upload", !.deleted_state = "none",
                !.deleted = @ \/ call[c].pc = "awaitDeleted"])
  <2> DEFINE b == call[c].deleted \/ call[c].pc = "awaitDeleted"
             r == [call[c] EXCEPT !.pc = "upload", !.deleted_state = "none",
                                  !.deleted = b]
  <2>1. r \in Progress /\ r.pc = "upload" /\ r.deleted_state = "none"
    BY <1>1 DEF Progress, Pc, ImageState
  <2>2. call' = [call EXCEPT ![c] = r]
    BY <1>3 DEF Becomes
  <2>3. c \in Forced => Behind(c)
    BY <1>1, <1>3 DEF Behind, OnItsWay
  <2> HIDE DEF r
  <2> QED
    BY <1>1, <2>1, <2>2, <2>3, BehindKeeps
<1> QED
  BY <1>2, <1>3 DEF AwaitAbsent

\* Where a forced call that is past its deletion stands.
LEMMA PastDeletion ==
  ASSUME Inv, NEW c \in Caller,
         call[c].pc \in {"upload", "create", "refused", "waitOwn",
                         "waitJoined", "vanished"}
  PROVE  /\ call[c] \in Progress /\ call[c].deleted_state = "none"
         /\ c \in Forced => Behind(c)
         /\ image.state \in ImageState
  BY DEF Inv, TypeOK, CallerInv, Placed, Fresh

\* A call that moves on, its Progress as it was.
LEMMA GoesKeeps ==
  ASSUME Inv, NEW c \in Caller,
         call[c].pc \in {"upload", "create", "refused", "waitOwn",
                         "waitJoined", "vanished"},
         NEW p \in {"refused", "waitOwn", "waitJoined", "vanished"}, Goes(c, p),
         UNCHANGED image, UNCHANGED historyVars
  PROVE  Inv'
<1> DEFINE r == [call[c] EXCEPT !.pc = p]
<1>1. r \in Progress /\ r.pc = p /\ r.deleted_state = "none"
  BY PastDeletion DEF Progress, Pc
<1>2. call' = [call EXCEPT ![c] = r]
  BY DEF Goes, Becomes
<1>3. c \in Forced => Behind(c)
  BY PastDeletion
<1> HIDE DEF r
<1> QED
  BY <1>1, <1>2, <1>3, BehindKeeps

LEMMA RedescribesKeeps ==
  ASSUME Inv, NEW c \in Caller, call[c].pc \in {"refused", "vanished"},
         Redescribes(c), UNCHANGED image, UNCHANGED historyVars
  PROVE  Inv'
<1>1. CASE call[c].redescribed
  BY <1>1, FailsKeeps DEF Redescribes
<1>2. CASE ~call[c].redescribed
  <2> DEFINE r == [call[c] EXCEPT !.pc = "describe", !.redescribed = TRUE]
  <2>1. /\ r \in Progress /\ r.pc = "describe" /\ r.redescribed
        /\ r.deleted_state = "none"
    BY PastDeletion DEF Progress, Pc
  <2>2. call' = [call EXCEPT ![c] = r]
    BY <1>2 DEF Redescribes, Becomes
  <2>3. c \in Forced => Behind(c)
    BY PastDeletion
  <2> HIDE DEF r
  <2> QED
    BY <2>1, <2>2, <2>3, BehindKeeps
<1> QED
  BY <1>1, <1>2

LEMMA UploadKeeps ==
  ASSUME Inv, NEW c \in Caller, Upload(c)
  PROVE  Inv'
<1> DEFINE r == [call[c] EXCEPT !.pc = "create", !.uploaded = TRUE]
<1>1. r \in Progress /\ r.pc = "create" /\ r.deleted_state = "none"
  BY PastDeletion DEF Upload, Progress, Pc
<1>2. /\ call' = [call EXCEPT ![c] = r]
      /\ c \in Forced => Behind(c)
      /\ UNCHANGED image /\ UNCHANGED historyVars
  BY PastDeletion DEF Upload, Becomes
<1> HIDE DEF r
<1> QED
  BY <1>1, <1>2, BehindKeeps

\* An accepted create: whatever the caller goes on to, the image is a new one.
LEMMA CreateKeeps ==
  ASSUME Inv, NEW c \in Caller, Create(c)
  PROVE  Inv'
<1>1. /\ call[c].pc = "create" /\ UNCHANGED historyVars
      /\ call[c] \in Progress /\ call[c].deleted_state = "none"
      /\ image.gen \in Nat /\ first[c] \in Nat /\ stale[c] \in Nat
      /\ c \in Forced => first[c] <= image.gen
  BY PastDeletion DEF Create, Inv, TypeOK, CallerInv, Fresh
<1>2. ASSUME CreateAccepted(c), NEW r \in Progress, call' = [call EXCEPT ![c] = r],
             r.pc \in {"waitOwn", "error"}, r.deleted_state = "none"
      PROVE  Inv'
  <2>1. /\ image' \in [state : ImageState, gen : Nat]
        /\ image.state = "none" /\ image'.state = "CREATING"
        /\ image'.gen = image.gen + 1
    BY <1>1, <1>2 DEF CreateAccepted, ImageState
  <2>2. ImageMoves
    BY <2>1 DEF ImageMoves
  <2>3. /\ first' = [first EXCEPT ![c] = first[c]] /\ first'[c] = first[c]
        /\ stale' = [stale EXCEPT ![c] = stale[c]]
        /\ pulled' = pulled /\ call'[c] = r
    BY <1>1, <1>2 DEF historyVars, Inv, TypeOK
  <2>4. Placed(c)' /\ Stale(c)' /\ Built(c)'
    BY <1>2, <2>3 DEF Placed, Stale, Built
  <2>5. Fresh(c)'
    BY <1>1, <1>2, <2>1, <2>3 DEF Fresh, Behind
  <2> QED
    BY <1>1, <1>2, <2>1, <2>2, <2>3, <2>4, <2>5, CallerKeeps DEF CallerInv
<1>3. CASE CreateAccepted(c) /\ Goes(c, "waitOwn")
  <2> DEFINE r == [call[c] EXCEPT !.pc = "waitOwn"]
  <2>1. r \in Progress /\ r.pc = "waitOwn" /\ r.deleted_state = "none"
    BY <1>1 DEF Progress, Pc
  <2>2. call' = [call EXCEPT ![c] = r]
    BY <1>3 DEF Goes, Becomes
  <2> HIDE DEF r
  <2> QED
    BY <1>2, <1>3, <2>1, <2>2
<1>4. CASE CreateAccepted(c) /\ Fails(c)
  <2> DEFINE r == [Started EXCEPT !.pc = "error"]
  <2>1. r \in Progress /\ r.pc = "error" /\ r.deleted_state = "none"
    BY StartedType DEF Progress, Pc
  <2>2. call' = [call EXCEPT ![c] = r]
    BY <1>4 DEF Fails, Becomes
  <2> HIDE DEF r
  <2> QED
    BY <1>2, <1>4, <2>1, <2>2
<1>5. CASE Goes(c, "refused") /\ UNCHANGED image
  BY <1>1, <1>5, GoesKeeps
<1> QED
  BY <1>3, <1>4, <1>5 DEF Create

LEMMA RefusedKeeps ==
  ASSUME Inv, NEW c \in Caller, Refused(c)
  PROVE  Inv'
<1>1. /\ call[c].pc = "refused" /\ UNCHANGED image /\ UNCHANGED historyVars
      /\ image.state \in ImageState
      /\ c \in Forced => Behind(c)
  BY PastDeletion DEF Refused
<1>2. CASE Found(image.state) = "Ready" /\ Returns(c, TRUE)
  <2>1. image.state = "CREATED"
    BY <1>1, <1>2 DEF Found, ImageState
  <2> QED
    BY <1>1, <1>2, <2>1, ReturnsKeeps
<1>3. CASE Goes(c, "waitJoined")
  BY <1>1, <1>3, GoesKeeps
<1>4. CASE Redescribes(c)
  BY <1>1, <1>4, RedescribesKeeps
<1> QED
  BY <1>2, <1>3, <1>4 DEF Refused

LEMMA WaitForImageKeeps ==
  ASSUME Inv, NEW c \in Caller, WaitForImage(c)
  PROVE  Inv'
<1>1. /\ call[c].pc \in {"waitOwn", "waitJoined"}
      /\ UNCHANGED image /\ UNCHANGED historyVars
      /\ c \in Forced => Behind(c)
  BY PastDeletion DEF WaitForImage
<1>2. CASE image.state = "CREATED" /\ Returns(c, call[c].pc = "waitJoined")
  <2>1. (call[c].pc = "waitJoined") \in BOOLEAN
    OBVIOUS
  <2> QED
    BY <1>1, <1>2, <2>1, ReturnsKeeps
<1>3. CASE Goes(c, "vanished")
  BY <1>1, <1>3, GoesKeeps
<1> QED
  BY <1>2, <1>3 DEF WaitForImage

LEMMA VanishedKeeps ==
  ASSUME Inv, NEW c \in Caller, Vanished(c)
  PROVE  Inv'
<1>1. call[c].pc = "vanished" /\ UNCHANGED image /\ UNCHANGED historyVars
  BY DEF Vanished
<1>2. Redescribes(c) \/ Fails(c)
  BY DEF Vanished
<1> QED
  BY <1>1, <1>2, RedescribesKeeps, FailsKeeps

LEMMA FailuresKeep ==
  ASSUME Inv, NEW c \in Caller, WaitFails(c) \/ CallFails(c)
  PROVE  Inv'
<1>1. UNCHANGED image /\ UNCHANGED historyVars
  BY DEF WaitFails, CallFails
<1>2. CASE call[c].pc \in {"waitOwn", "waitJoined"} /\ Goes(c, "vanished")
  BY <1>1, <1>2, GoesKeeps
<1>3. CASE Fails(c)
  BY <1>1, <1>3, FailsKeeps
<1> QED
  BY <1>2, <1>3 DEF WaitFails, CallFails

LEMMA ServiceStepKeeps ==
  ASSUME Inv, BuildSettles \/ DeletionSettles \/ TeardownDeletes
  PROVE  Inv'
<1>1. image' \in [state : ImageState, gen : Nat] /\ ImageMoves
  BY DEF Inv, TypeOK, ImageState, ImageMoves, BuildSettles, DeletionSettles,
         TeardownDeletes, Deletable
<1>2. UNCHANGED <<call, first, stale, pulled>>
  BY DEF BuildSettles, DeletionSettles, TeardownDeletes, historyVars
<1> QED
  BY <1>1, <1>2, ServiceKeeps

LEMMA NextInv == Inv /\ [Next]_vars => Inv'
<1> SUFFICES ASSUME Inv, [Next]_vars PROVE Inv'
  OBVIOUS
<1>1. CASE BuildSettles \/ DeletionSettles \/ TeardownDeletes
  BY <1>1, ServiceStepKeeps
<1>2. ASSUME NEW c \in Caller, Step(c) PROVE Inv'
  BY <1>2, DescribeKeeps, SettleKeeps, SettledKeeps, DeleteKeeps, AwaitAbsentKeeps,
     UploadKeeps, CreateKeeps, RefusedKeeps, WaitForImageKeeps, VanishedKeeps DEF Step
<1>3. ASSUME NEW c \in Caller, WaitFails(c) \/ CallFails(c) PROVE Inv'
  BY <1>3, FailuresKeep
<1>4. CASE UNCHANGED vars
  <2>1. ImageMoves /\ image' \in [state : ImageState, gen : Nat]
    BY <1>4 DEF vars, ImageMoves, Inv, TypeOK
  <2>2. UNCHANGED <<call, first, stale, pulled>>
    BY <1>4 DEF vars
  <2> QED
    BY <2>1, <2>2, ServiceKeeps
<1> QED
  BY <1>1, <1>2, <1>3, <1>4 DEF Next

\* The inductive invariant of ensure: where each call stands to the images
\* that have had the name, whatever siblings, teardowns and the service do
\* between two of its calls (ensure.rs).
THEOREM EnsureInvariant == Spec => []Inv
<1>1. Init => Inv
  BY InitInv
<1>2. Inv /\ [Next]_vars => Inv'
  BY NextInv
<1> QED
  BY <1>1, <1>2, PTL DEF Spec

\* The variables of ensure_image keep their types: no delete is attempted more
\* often than DeleteAttempts (delete_image).
THEOREM TypeCorrect == Spec => []TypeOK
<1>1. Inv => TypeOK
  BY DEF Inv
<1> QED
  BY <1>1, EnsureInvariant, PTL

\* A forced ensure never returns the image it found (IMAGE-10; await_absent
\* and the one-shot force of Progress::deleted).
THEOREM ForcedIsFresh == Spec => []ForcedReturnsFresh
<1>1. Inv => ForcedReturnsFresh
  BY EnsureAssumption DEF Inv, CallerInv, Fresh, ForcedReturnsFresh
<1> QED
  BY <1>1, EnsureInvariant, PTL

\* Without force, a ready image is deleted only in mistake for an earlier one
\* that had failed (delete_and_await_absent).
THEOREM PullsAreStale == Spec => []UnforcedPullIsStale
<1>1. Inv => UnforcedPullIsStale
  BY DEF Inv
<1> QED
  BY <1>1, EnsureInvariant, PTL

\* Every call that returned, returned an image that had been built (IMAGE-9,
\* IMAGE-11; wait_for_image and the refused create).
THEOREM ReturnsBuilt == Spec => []ReturnedIsBuilt
<1>1. Inv => ReturnedIsBuilt
  <2> SUFFICES ASSUME Inv, NEW c \in Caller, call[c].pc = "returned"
               PROVE  /\ call[c].gen > 0
                      /\ image.gen > call[c].gen \/ image.state # "CREATING"
    BY DEF ReturnedIsBuilt
  <2>1. image.gen \in Nat /\ call[c].gen \in Nat
    BY DEF Inv, TypeOK, Progress
  <2> QED
    BY <2>1 DEF Inv, CallerInv, Built
<1> QED
  BY <1>1, EnsureInvariant, PTL
=============================================================================
