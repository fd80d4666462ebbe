-------------------------- MODULE WinLaunchProofs --------------------------
(***************************************************************************)
(* Proofs about WinLaunch and the staging it calls, for any number of      *)
(* threads, processes, edits and crashes.                                  *)
(*                                                                         *)
(* What is said of the staged trees holds where all threads belong to one  *)
(* process (OneProcess): with two, PublishedIsWhole is refuted by a run.   *)
(* IInv has three layers: types and who holds the lock (LockHeld); how far *)
(* the tree under construction is, for the one thread that may touch it    *)
(* (StagingInv); what a run knows of the worker it holds (RunInv).         *)
(***************************************************************************)
EXTENDS WinLaunch, TLAPS

OneProcess == \A t, u \in Threads : Owner[t] = Owner[u]

-----------------------------------------------------------------------------
(* Types of the staging *)

\* The part of TypeOK that the staging changes.
StagingType ==
  /\ source \in Versions
  /\ dest \in [Versions -> TreeType] /\ staging \in [Versions -> TreeType]
  /\ aclDone \subseteq Versions
  /\ hasSid \in [Procs -> BOOLEAN]
  /\ lock \in [Procs -> Threads \cup {NoThread}]
  /\ failed \in [Procs -> BOOLEAN]
  /\ call \in [Threads -> CallType]

LaunchTyping ==
  /\ run \in [Threads -> RunType]
  /\ worker \in [Threads -> WorkerType]
  /\ orphan \in [Threads -> BOOLEAN]
  /\ crashes \in 0 .. MaxCrashes

AfterExe == CopySteps \ {"exe"}

\* A call whose step needs a key has one, of the package as it was; only a call that
\* is copying has copied anything.
KeyKnown ==
  \A t \in Threads :
    /\ call[t].at \in LockedSteps \cup {"check", "lock", "returned", "raised"} =>
         call[t].key \in Versions
    /\ call[t].at \in CopySteps \cup {"clear", "grant"} =>
         call[t].fp \in Versions /\ call[t].fp <= source
    /\ call[t].at = "lock" => call[t].fp \in Versions
    /\ call[t].at \notin AfterExe => call[t].copied = {}

LEMMA VersionsAreNumbers == Versions \in SUBSET (Nat \ {0}) /\ None \notin Versions /\ 1 \in Versions
BY EditsAssumption DEF Versions, None

LEMMA TreesTyped == NoTree \in TreeType /\ EmptyTree \in TreeType
BY DEF NoTree, EmptyTree, TreeType

\* What rmtree leaves is a tree that has no more than there was, and its ACE.
LEMMA RemainsTyped ==
  ASSUME NEW tree \in TreeType, NEW left \in Remains(tree)
  PROVE  /\ left \in TreeType /\ [left EXCEPT !.exists = TRUE] \in TreeType
         /\ left.parts \subseteq tree.parts
         /\ left.acl => tree.acl /\ left.ace = tree.ace
         /\ "exe" \in left.parts => left.ace = tree.ace
<1>1. CASE left = NoTree
  BY <1>1, TreesTyped DEF NoTree, TreeType
<1>2. ASSUME NEW kept \in Leftovers,
             left = [tree EXCEPT !.parts = @ \cap kept, !.app = IF "app" \in kept THEN @ ELSE None,
                       !.mark = IF "mark" \in kept THEN @ ELSE None, !.acl = @ /\ "acl" \in kept]
      PROVE  /\ left \in TreeType /\ left.ace = tree.ace
             /\ left.parts \subseteq tree.parts /\ (left.acl => tree.acl)
  BY <1>2 DEF TreeType
<1>3. [left EXCEPT !.exists = TRUE] \in TreeType
  BY <1>1, <1>2, TreesTyped DEF TreeType, Remains
<1> QED BY <1>1, <1>2, <1>3 DEF Remains

\* A thread's call goes to another step, or is over.
LEMMA GotoTyped ==
  ASSUME call \in [Threads -> CallType], NEW t \in Threads,
         NEW at \in LockedSteps \cup {"none", "root", "check", "lock", "returned", "raised"},
         Goto(t, at) \/ Result(t, at)
  PROVE  /\ call' \in [Threads -> CallType]
         /\ call'[t].at = at /\ call'[t].key = call[t].key
         /\ Goto(t, at) => call'[t].fp = call[t].fp /\ call'[t].copied = call[t].copied
         /\ Result(t, at) => call'[t].fp = None /\ call'[t].copied = {}
         /\ \A u \in Threads \ {t} : call'[u] = call[u]
BY DEF Goto, Result, CallType

LEMMA ReleaseTyped ==
  ASSUME lock \in [Procs -> Threads \cup {NoThread}], NEW t \in Threads, Release(t)
  PROVE  lock' \in [Procs -> Threads \cup {NoThread}]
BY OwnerAssumption DEF Release

LEMMA TreeChangeTyped ==
  ASSUME dest \in [Versions -> TreeType], staging \in [Versions -> TreeType],
         NEW t \in Threads, NEW tree \in TreeType
  PROVE  /\ SetStaging(t, tree) => staging' \in [Versions -> TreeType]
         /\ SetDest(t, tree) => dest' \in [Versions -> TreeType]
BY DEF SetStaging, SetDest

\* What the steps do to a tree makes a tree.
LEMMA TreeStepsTyped ==
  ASSUME NEW tree \in TreeType
  PROVE  /\ [tree EXCEPT !.ace = TRUE] \in TreeType
         /\ \A part \in Parts : Copied(tree, part) \in TreeType
         /\ \A v \in Versions : [tree EXCEPT !.app = v] \in TreeType
         /\ \A v \in Versions, b \in BOOLEAN : [tree EXCEPT !.mark = v, !.acl = b] \in TreeType
BY DEF TreeType, Copied

\* Where nothing but the call moves.
LEMMA MoveTyped ==
  ASSUME StagingType, KeyKnown, NEW t \in Threads,
         FindRoot(t) \/ FastCheck(t)
  PROVE  StagingType' /\ KeyKnown'
<1>1. /\ source' = source /\ dest' = dest /\ staging' = staging /\ aclDone' = aclDone
      /\ hasSid' = hasSid /\ lock' = lock /\ failed' = failed
  BY DEF FindRoot, FastCheck, files, memory
<1>2. call' \in [Threads -> CallType] /\ KeyKnown'
  <2>1. CASE FindRoot(t)
    <3>1. call' = [call EXCEPT ![t] = [NoCall EXCEPT !.at = "check", !.key = source]]
      BY <2>1 DEF FindRoot
    <3>2. /\ [NoCall EXCEPT !.at = "check", !.key = source] \in CallType
          /\ [NoCall EXCEPT !.at = "check", !.key = source].at = "check"
          /\ [NoCall EXCEPT !.at = "check", !.key = source].key = source
          /\ [NoCall EXCEPT !.at = "check", !.key = source].copied = {}
      BY DEF NoCall, CallType, StagingType
    <3> QED BY <1>1, <3>1, <3>2 DEF StagingType, KeyKnown, AfterExe, LockedSteps, CopySteps
  <2>2. CASE FastCheck(t)
    <3>1. call[t].at = "check" /\ call[t].key \in Versions
      BY <2>2 DEF FastCheck, KeyKnown
    <3>2. CASE Result(t, "returned")
      BY <1>1, <3>1, <3>2, GotoTyped DEF StagingType, KeyKnown, AfterExe, LockedSteps, CopySteps
    <3>3. CASE call' = [call EXCEPT ![t].at = "lock", ![t].fp = source]
      <4>1. call' = [call EXCEPT ![t] = [call[t] EXCEPT !.at = "lock", !.fp = source]]
        BY <3>3 DEF StagingType, CallType
      <4>2. [call[t] EXCEPT !.at = "lock", !.fp = source] \in CallType
        BY DEF StagingType, CallType
      <4> QED BY <1>1, <3>1, <4>1, <4>2 DEF StagingType, KeyKnown, AfterExe, LockedSteps, CopySteps, CallType
    <3> QED BY <2>2, <3>2, <3>3 DEF FastCheck
  <2> QED BY <2>1, <2>2
<1> QED BY <1>1, <1>2 DEF StagingType

LEMMA LockTyped ==
  ASSUME StagingType, KeyKnown, NEW t \in Threads, TakeLock(t) \/ Stage(t)
  PROVE  StagingType' /\ KeyKnown'
<1>1. /\ source' = source /\ dest' = dest /\ staging' = staging /\ aclDone' = aclDone
      /\ hasSid' = hasSid /\ failed' = failed
  BY DEF TakeLock, Stage, files
<1>2. lock' \in [Procs -> Threads \cup {NoThread}]
  BY OwnerAssumption, ReleaseTyped DEF TakeLock, Stage, StagingType
<1>3. call' \in [Threads -> CallType] /\ KeyKnown'
  <2>1. call[t].at \in {"lock", "stage"} /\ call[t].key \in Versions
    BY DEF TakeLock, Stage, KeyKnown, AfterExe, LockedSteps, CopySteps
  <2>2. CASE Result(t, "returned") \/ Result(t, "raised")
    BY <1>1, <2>1, <2>2, GotoTyped DEF StagingType, KeyKnown, AfterExe, LockedSteps, CopySteps
  <2>3. CASE Goto(t, "stage")
    BY <1>1, <2>1, <2>3, GotoTyped DEF StagingType, KeyKnown, AfterExe, LockedSteps, CopySteps
  <2>4. CASE call' = [call EXCEPT ![t].at = "clear", ![t].fp = source]
    <3>1. call' = [call EXCEPT ![t] = [call[t] EXCEPT !.at = "clear", !.fp = source]]
      BY <2>4 DEF StagingType, CallType
    <3>2. [call[t] EXCEPT !.at = "clear", !.fp = source] \in CallType
      BY DEF StagingType, CallType, LockedSteps
    <3> QED BY <1>1, <2>1, <3>1, <3>2, VersionsAreNumbers
            DEF StagingType, KeyKnown, AfterExe, LockedSteps, CopySteps, CallType
  <2> QED BY <2>2, <2>3, <2>4 DEF TakeLock, Stage
<1> QED BY <1>1, <1>2, <1>3 DEF StagingType

\* A copy that fails, or is refused access.
LEMMA AbandonTyped ==
  ASSUME StagingType, KeyKnown, NEW t \in Threads, NEW remembered \in BOOLEAN,
         call[t].at \in LockedSteps, Abandon(t, remembered)
  PROVE  StagingType' /\ KeyKnown'
<1>1. staging' \in [Versions -> TreeType] /\ lock' \in [Procs -> Threads \cup {NoThread}]
  <2>1. staging[call[t].key] \in TreeType
    BY DEF KeyKnown, StagingType
  <2>2. staging' \in [Versions -> TreeType]
    BY <2>1, RemainsTyped, TreeChangeTyped DEF Abandon, StagingType
  <2> QED BY <2>2, ReleaseTyped DEF Abandon, Raise, StagingType
<1>2. failed' \in [Procs -> BOOLEAN]
  BY DEF Abandon, Raise, StagingType
<1>3. /\ source' = source /\ dest' = dest /\ aclDone' = aclDone /\ hasSid' = hasSid
      /\ Result(t, "raised")
  BY DEF Abandon, Raise
<1>4. call[t].key \in Versions
  BY DEF KeyKnown
<1>5. call' \in [Threads -> CallType] /\ KeyKnown'
  BY <1>3, <1>4, GotoTyped DEF StagingType, KeyKnown, AfterExe, LockedSteps, CopySteps
<1> QED BY <1>1, <1>2, <1>3, <1>5 DEF StagingType

LEMMA DidTyped ==
  ASSUME call \in [Threads -> CallType], NEW t \in Threads, NEW part \in Copies,
         NEW at \in CopySteps, Did(t, part, at)
  PROVE  /\ call' \in [Threads -> CallType]
         /\ call'[t].at = at /\ call'[t].key = call[t].key /\ call'[t].fp = call[t].fp
         /\ call'[t].copied = call[t].copied \cup {part}
         /\ \A u \in Threads \ {t} : call'[u] = call[u]
<1>1. call' = [call EXCEPT ![t] = [call[t] EXCEPT !.at = at, !.copied = @ \cup {part}]]
  BY DEF Did, CallType
<1>2. [call[t] EXCEPT !.at = at, !.copied = @ \cup {part}] \in CallType
  BY DEF CallType, LockedSteps
<1> QED BY <1>1, <1>2 DEF CallType

\* A step of the one thread that has the lock, which goes on to another.
LEMMA GoOnTyped ==
  ASSUME StagingType, KeyKnown, NEW t \in Threads, NEW at \in CopySteps \cup {"grant"},
         call[t].at \in CopySteps \cup {"clear", "grant"}, source' = source,
         \/ Goto(t, at) /\ (call[t].at \in CopySteps => at \in AfterExe)
         \/ at \in AfterExe /\ \E part \in Copies : Did(t, part, at)
  PROVE  call' \in [Threads -> CallType] /\ KeyKnown'
<1>1. CASE Goto(t, at)
  BY <1>1, GotoTyped DEF StagingType, KeyKnown, AfterExe, LockedSteps, CopySteps
<1>2. ASSUME NEW part \in Copies, Did(t, part, at), at \in AfterExe
      PROVE  call' \in [Threads -> CallType] /\ KeyKnown'
  BY <1>2, DidTyped DEF StagingType, KeyKnown, AfterExe, LockedSteps, CopySteps
<1> QED BY <1>1, <1>2

LEMMA CopyTyped ==
  ASSUME StagingType, KeyKnown, NEW t \in Threads,
         Clear(t) \/ Grant(t) \/ CopyRoot(t) \/ CopyLibraries(t)
           \/ CopyPackage(t) \/ Mark(t)
  PROVE  StagingType' /\ KeyKnown'
<1>1. CASE Grant(t) /\ Abandon(t, TRUE)
  BY <1>1, AbandonTyped DEF Grant, LockedSteps
<1>2. CASE ~(Grant(t) /\ Abandon(t, TRUE))
  <2>1. /\ call[t].at \in CopySteps \cup {"clear", "grant"}
        /\ call[t].key \in Versions /\ call[t].fp \in Versions
    BY <1>2 DEF Clear, Grant, CopyRoot, CopyLibraries, CopyPackage, Mark, KeyKnown,
       LockedSteps, CopySteps
  <2> DEFINE tree == staging[call[t].key]
  <2>2. tree \in TreeType
    BY <2>1 DEF StagingType
  <2>3. /\ source' = source /\ dest' = dest /\ aclDone' = aclDone
        /\ hasSid' = hasSid /\ lock' = lock /\ failed' = failed
    BY <1>2 DEF Clear, Grant, CopyRoot, CopyLibraries, CopyPackage, Mark, memory
  <2>4. \E at \in CopySteps \cup {"grant"} :
          \/ Goto(t, at) /\ (call[t].at \in CopySteps => at \in AfterExe)
          \/ at \in AfterExe /\ \E part \in Copies : Did(t, part, at)
    <3>1. CASE Clear(t) \/ Grant(t)
      BY <1>2, <3>1 DEF Clear, Grant, CopySteps, AfterExe
    <3>2. CASE CopyRoot(t) \/ CopyLibraries(t)
      BY <3>2 DEF CopyRoot, CopyLibraries, PassOver, CopySteps, AfterExe, Copies, Parts
    <3>3. CASE CopyPackage(t) \/ Mark(t)
      BY <3>3 DEF CopyPackage, Mark, PassOver, CopySteps, AfterExe, Copies, Parts
    <3> QED BY <3>1, <3>2, <3>3
  <2>5. staging' \in [Versions -> TreeType]
    <3>1. CASE Clear(t)
      <4>1. PICK left \in Remains(tree) : SetStaging(t, [left EXCEPT !.exists = TRUE])
        BY <3>1 DEF Clear
      <4> QED BY <2>2, <4>1, RemainsTyped, TreeChangeTyped DEF StagingType
    <3>2. CASE Grant(t)
      BY <1>2, <2>2, <3>2, TreeStepsTyped, TreeChangeTyped DEF Grant, StagingType
    <3>3. CASE CopyRoot(t)
      BY <2>2, <3>3, TreeStepsTyped, TreeChangeTyped DEF CopyRoot, StagingType, Parts
    <3>4. CASE CopyLibraries(t)
      BY <2>2, <3>4, TreeStepsTyped, TreeChangeTyped DEF CopyLibraries, PassOver, StagingType, Parts
    <3>5. CASE CopyPackage(t)
      BY <2>2, <3>5, TreeStepsTyped, TreeChangeTyped DEF CopyPackage, PassOver, StagingType
    <3>6. CASE Mark(t)
      <4> DEFINE acl == tree.acl \/ hasSid[Owner[t]]
      <4>1. acl \in BOOLEAN
        OBVIOUS
      <4>2. SetStaging(t, [tree EXCEPT !.mark = call[t].fp, !.acl = acl])
        BY <2>2, <3>6 DEF Mark, SetStaging, TreeType
      <4> HIDE DEF acl
      <4> QED BY <2>1, <2>2, <4>1, <4>2, TreeStepsTyped, TreeChangeTyped DEF StagingType
    <3> QED BY <1>2, <3>1, <3>2, <3>3, <3>4, <3>5, <3>6
  <2>6. call' \in [Threads -> CallType] /\ KeyKnown'
    BY <2>1, <2>3, <2>4, GoOnTyped
  <2> QED BY <2>3, <2>5, <2>6 DEF StagingType
<1> QED BY <1>1, <1>2

LEMMA PublishTyped ==
  ASSUME StagingType, KeyKnown, NEW t \in Threads,
         Remove(t) \/ Publish(t) \/ CopyFails(t)
  PROVE  StagingType' /\ KeyKnown'
<1>1. call[t].at \in CopySteps /\ call[t].key \in Versions
  BY DEF Remove, Publish, CopyFails, CopySteps, LockedSteps, KeyKnown
<1>2. dest[call[t].key] \in TreeType /\ staging[call[t].key] \in TreeType
  BY <1>1 DEF StagingType
<1>3. CASE Remove(t)
  <2>1. dest' \in [Versions -> TreeType]
    BY <1>2, <1>3, RemainsTyped, TreeChangeTyped DEF Remove, StagingType
  <2>2. call' \in [Threads -> CallType] /\ KeyKnown'
    <3>1. CASE Goto(t, "publish")
      BY <1>1, <1>3, <3>1, GoOnTyped DEF Remove, CopySteps, AfterExe
    <3>2. CASE call' = call
      BY <1>3, <3>2 DEF Remove, KeyKnown, StagingType
    <3> QED BY <1>3, <3>1, <3>2 DEF Remove
  <2> QED BY <1>3, <2>1, <2>2 DEF Remove, memory, StagingType
<1>4. CASE Publish(t)
  <2>1. dest' \in [Versions -> TreeType] /\ staging' \in [Versions -> TreeType]
    BY <1>2, <1>4, TreesTyped, TreeChangeTyped DEF Publish, StagingType
  <2>2. lock' \in [Procs -> Threads \cup {NoThread}]
    BY <1>4, ReleaseTyped DEF Publish, Return, StagingType
  <2>3. call' \in [Threads -> CallType] /\ KeyKnown'
    BY <1>1, <1>4, GotoTyped DEF Publish, Return, StagingType, KeyKnown, AfterExe, LockedSteps, CopySteps
  <2> QED BY <1>4, <2>1, <2>2, <2>3 DEF Publish, Return, StagingType
<1>5. CASE CopyFails(t)
  BY <1>5, AbandonTyped DEF CopyFails, LockedSteps
<1> QED BY <1>3, <1>4, <1>5

LEMMA EnsureTyped ==
  ASSUME StagingType, KeyKnown, NEW t \in Threads, EnsureStep(t)
  PROVE  StagingType' /\ KeyKnown'
BY MoveTyped, LockTyped, CopyTyped, PublishTyped DEF EnsureStep

-----------------------------------------------------------------------------
(* Types of the launch *)

RunStates ==
  {"idle", "env", "command", "appcontainer", "prepare", "grant", "create", "restricted", "fallback",
   "assign", "policy", "wait", "close", "over", "failed"}

\* A thread is in a call only where its run made one; the tree is granted after
\* a call that returned.
CallInRun ==
  \A t \in Threads :
    /\ call[t].at # "none" => run[t].at \in {"env", "command", "prepare", "grant"}
    /\ run[t].at = "grant" => call[t].at = "returned"

LEMMA NothingTyped == NoRun \in RunType /\ NoWorker \in WorkerType /\ NoCall \in CallType
BY DEF NoRun, RunType, Mechanisms, NoClaims, ClaimsType, Claim, NoWorker, WorkerType, NoCall, CallType

LEMMA StepTyped ==
  ASSUME run \in [Threads -> RunType], NEW t \in Threads, NEW at \in RunStates, Step(t, at)
  PROVE  /\ run' \in [Threads -> RunType]
         /\ run'[t] = [run[t] EXCEPT !.at = at]
         /\ run'[t].at = at
         /\ \A u \in Threads \ {t} : run'[u] = run[u]
BY DEF Step, RunType, RunStates

LEMMA CallTyped ==
  ASSUME StagingType, KeyKnown, NEW t \in Threads,
         Call(t) \/ call' = [call EXCEPT ![t] = NoCall] \/ call' = call, source' = source
  PROVE  call' \in [Threads -> CallType] /\ KeyKnown'
<1>1. [NoCall EXCEPT !.at = "root"] \in CallType /\ NoCall \in CallType
  BY DEF NoCall, CallType
<1>2. \A u \in Threads : call'[u] \in {call[u], [NoCall EXCEPT !.at = "root"], NoCall}
  BY DEF Call, StagingType
<1>3. call' \in [Threads -> CallType]
  BY <1>1 DEF Call, StagingType
<1>4. KeyKnown'
  BY <1>2 DEF KeyKnown, NoCall, LockedSteps, CopySteps
<1> QED BY <1>3, <1>4

LEMMA PreparationTyped ==
  ASSUME StagingType, LaunchTyping, NEW t \in Threads, PreparationFails(t)
  PROVE  /\ failed' \in [Procs -> BOOLEAN] /\ hasSid' = hasSid /\ lock' = lock
         /\ run' \in [Threads -> RunType]
BY StepTyped DEF PreparationFails, StagingType, LaunchTyping, RunStates

\* The steps up to the creation of a process.
LEMMA PrepareTyped ==
  ASSUME StagingType, KeyKnown, LaunchTyping, CallInRun, NEW t \in Threads,
         Begin(t) \/ EnvReady(t) \/ CommandReady(t) \/ StartContained(t) \/ Staged(t) \/ GrantTree(t)
  PROVE  StagingType' /\ KeyKnown' /\ LaunchTyping'
<1>1. source' = source /\ staging' = staging /\ worker' = worker /\ orphan' = orphan /\ crashes' = crashes
  BY DEF Begin, EnvReady, CommandReady, StartContained, Staged, GrantTree, files
<1>2. call' \in [Threads -> CallType] /\ KeyKnown'
  BY <1>1, CallTyped DEF Begin, EnvReady, CommandReady, StartContained, Staged, GrantTree
<1>3. dest' \in [Versions -> TreeType] /\ aclDone' \subseteq Versions
  <2>1. CASE GrantTree(t)
    <3>1. call[t].key \in Versions
      BY <2>1 DEF GrantTree, CallInRun, KeyKnown
    <3>2. [dest EXCEPT ![call[t].key].ace = TRUE] \in [Versions -> TreeType]
      BY <3>1 DEF StagingType, TreeType
    <3>3. dest' \in {dest, [dest EXCEPT ![call[t].key].ace = TRUE]}
      BY <2>1 DEF GrantTree
    <3>4. aclDone' \in {aclDone, aclDone \cup {call[t].key}}
      BY <2>1 DEF GrantTree
    <3> QED BY <3>1, <3>2, <3>3, <3>4 DEF StagingType
  <2>2. CASE ~GrantTree(t)
    BY <2>2 DEF Begin, EnvReady, CommandReady, StartContained, Staged, files, StagingType
  <2> QED BY <2>1, <2>2
<1>4. /\ failed' \in [Procs -> BOOLEAN] /\ hasSid' = hasSid /\ lock' = lock
  <2>1. CASE PreparationFails(t)
    BY <2>1, PreparationTyped
  <2>2. CASE ~(PreparationFails(t))
    BY <2>2 DEF Begin, EnvReady, CommandReady, StartContained, Staged, GrantTree, memory, StagingType
  <2> QED BY <2>1, <2>2
<1>5. run' \in [Threads -> RunType]
  <2>1. CASE PreparationFails(t)
    BY <2>1, PreparationTyped
  <2>2. CASE Begin(t)
    <3>1. [NoRun EXCEPT !.at = "env", !.path = source] \in RunType
      BY NothingTyped DEF RunType, StagingType
    <3> QED BY <2>2, <3>1 DEF Begin, LaunchTyping
  <2>3. CASE EnvReady(t)
    BY <2>3 DEF EnvReady, LaunchTyping, RunType
  <2>4. CASE CommandReady(t)
    <3>1. Executable(t) \in Versions \cup {None}
      BY DEF Executable, KeyKnown
    <3>2. [run[t] EXCEPT !.at = "appcontainer", !.exe = Executable(t)] \in RunType
      BY <3>1 DEF LaunchTyping, RunType
    <3>3. run' = [run EXCEPT ![t] = [run[t] EXCEPT !.at = "appcontainer", !.exe = Executable(t)]]
      BY <2>4 DEF CommandReady, LaunchTyping, RunType
    <3> QED BY <3>2, <3>3 DEF LaunchTyping
  <2>5. CASE \E at \in {"prepare", "restricted", "grant", "create"} : Step(t, at)
    BY <2>5, StepTyped DEF LaunchTyping, RunStates
  <2> QED BY <2>1, <2>2, <2>3, <2>4, <2>5 DEF StartContained, Staged, GrantTree
<1> QED BY <1>1, <1>2, <1>3, <1>4, <1>5 DEF StagingType, LaunchTyping

\* A process was created, or the next way is tried.
LEMMA CreatedTyped ==
  ASSUME StagingType, LaunchTyping, NEW t \in Threads,
         NEW mech \in {"appcontainer", "restricted_token", "job-only"}, Created(t, mech)
  PROVE  /\ run' = [run EXCEPT ![t] = [run[t] EXCEPT !.at = "assign", !.mech = mech]]
         /\ run' \in [Threads -> RunType] /\ worker' \in [Threads -> WorkerType]
         /\ worker'[t].mech = mech /\ worker'[t].is = "suspended"
         /\ worker'[t].readable = IF run[t].exe = None THEN TRUE ELSE dest[run[t].exe].ace
         /\ run[t].exe # None => "exe" \in dest[run[t].exe].parts
<1> DEFINE readable == IF run[t].exe = None THEN TRUE ELSE dest[run[t].exe].ace
           w == [NoWorker EXCEPT !.is = "suspended", !.mech = mech, !.readable = readable]
<1>1. readable \in BOOLEAN
  BY DEF StagingType, LaunchTyping, RunType, TreeType
<1>2. run' = [run EXCEPT ![t] = [run[t] EXCEPT !.at = "assign", !.mech = mech]]
  BY DEF Created, LaunchTyping, RunType
<1>3. [run[t] EXCEPT !.at = "assign", !.mech = mech] \in RunType
  BY DEF LaunchTyping, RunType, Mechanisms
<1>4. worker' = [worker EXCEPT ![t] = w]
  BY DEF Created
<1> HIDE DEF readable
<1>5. w \in WorkerType /\ w.mech = mech /\ w.is = "suspended" /\ w.readable = readable
  BY <1>1, NothingTyped DEF WorkerType, NoWorker, Mechanisms
<1>6. run[t].exe # None => "exe" \in dest[run[t].exe].parts
  BY DEF Created, HasImage
<1> QED BY <1>2, <1>3, <1>4, <1>5, <1>6 DEF LaunchTyping, readable

LEMMA ProcessTyped ==
  ASSUME StagingType, KeyKnown, LaunchTyping, NEW t \in Threads,
         CreateContained(t) \/ CreateRestricted(t) \/ CreateFallback(t)
  PROVE  LaunchTyping'
<1>1. orphan' = orphan /\ crashes' = crashes
  BY DEF CreateContained, CreateRestricted, CreateFallback
<1>2. CASE \E mech \in {"appcontainer", "restricted_token", "job-only"} : Created(t, mech)
  BY <1>1, <1>2, CreatedTyped DEF LaunchTyping
<1>3. CASE \E at \in RunStates : Step(t, at) /\ worker' = worker
  BY <1>1, <1>3, StepTyped DEF LaunchTyping
<1>4. CASE worker' = worker /\ run' = [run EXCEPT ![t] = [NoRun EXCEPT !.at = "failed"]]
  <2>1. [NoRun EXCEPT !.at = "failed"] \in RunType
    BY NothingTyped DEF RunType
  <2> QED BY <1>1, <1>4, <2>1 DEF LaunchTyping
<1> QED BY <1>2, <1>3, <1>4 DEF CreateContained, CreateRestricted, CreateFallback, RunStates

LEMMA AssignFacts ==
  ASSUME LaunchTyping, NEW t \in Threads, Assign(t)
  PROVE  /\ LaunchTyping'
         /\ run'[t].at = "policy" /\ run'[t].mech = run[t].mech /\ run'[t].exe = run[t].exe
         /\ run'[t].claims = run[t].claims
         /\ run'[t].assigned = worker'[t].inJob
         /\ worker'[t].mech = worker[t].mech /\ worker'[t].readable = worker[t].readable
         /\ \A u \in Threads \ {t} : run'[u] = run[u] /\ worker'[u] = worker[u]
         /\ orphan' = orphan /\ run[t].at = "assign"
<1>1. PICK r \in JobsOf(run[t]), ok \in BOOLEAN :
        /\ run' = [run EXCEPT ![t] = [r EXCEPT !.assigned = ok, !.at = "policy"]]
        /\ worker' = [worker EXCEPT ![t].is = "running", ![t].inJob = ok]
  BY DEF Assign
<1>2. r \in RunType /\ r.mech = run[t].mech /\ r.claims = run[t].claims /\ r.exe = run[t].exe
  BY DEF JobsOf, LaunchTyping, RunType
<1>3. worker' = [worker EXCEPT ![t] = [worker[t] EXCEPT !.is = "running", !.inJob = ok]]
  BY <1>1 DEF LaunchTyping, WorkerType
<1>4. [worker[t] EXCEPT !.is = "running", !.inJob = ok] \in WorkerType
  BY DEF LaunchTyping, WorkerType
<1>5. [r EXCEPT !.assigned = ok, !.at = "policy"] \in RunType
  BY <1>2 DEF RunType
<1>6. orphan' = orphan /\ crashes' = crashes /\ run[t].at = "assign"
  BY DEF Assign
<1>7. LaunchTyping'
  BY <1>1, <1>3, <1>4, <1>5, <1>6 DEF LaunchTyping
<1>8. run'[t] = [r EXCEPT !.assigned = ok, !.at = "policy"]
  BY <1>1 DEF LaunchTyping
<1>9. worker'[t] = [worker[t] EXCEPT !.is = "running", !.inJob = ok]
  BY <1>3 DEF LaunchTyping
<1>10. \A u \in Threads \ {t} : run'[u] = run[u] /\ worker'[u] = worker[u]
  BY <1>1, <1>3 DEF LaunchTyping
<1> QED BY <1>2, <1>6, <1>7, <1>8, <1>9, <1>10 DEF LaunchTyping, RunType, WorkerType

LEMMA ClaimsTyped ==
  ASSUME NEW r \in RunType
  PROVE  Claims(r) \in ClaimsType
BY DEF Claims, JobClaims, NoClaims, ClaimsType, Claim

LEMMA ApplyPolicyFacts ==
  ASSUME LaunchTyping, NEW t \in Threads, ApplyPolicy(t)
  PROVE  /\ LaunchTyping'
         /\ run'[t].at = "wait" /\ run'[t].mech = run[t].mech /\ run'[t].exe = run[t].exe
         /\ run'[t].assigned = run[t].assigned
         /\ run'[t].claims = Claims(run'[t])
         /\ \A u \in Threads \ {t} : run'[u] = run[u]
         /\ worker' = worker /\ orphan' = orphan /\ run[t].at = "policy"
<1>1. PICK confirmed \in BOOLEAN :
        run' = [run EXCEPT ![t] = [[run[t] EXCEPT !.at = "wait", !.token = confirmed] EXCEPT
                                     !.claims = Claims([run[t] EXCEPT !.at = "wait", !.token = confirmed])]]
  BY DEF ApplyPolicy
<1> DEFINE r == [run[t] EXCEPT !.at = "wait", !.token = confirmed]
<1>2. r \in RunType /\ r.at = "wait" /\ r.mech = run[t].mech /\ r.exe = run[t].exe
      /\ r.assigned = run[t].assigned
  BY DEF LaunchTyping, RunType
<1>3. run' = [run EXCEPT ![t] = [r EXCEPT !.claims = Claims(r)]]
  BY <1>1
<1> HIDE DEF r
<1>4. Claims(r) \in ClaimsType
  BY <1>2, ClaimsTyped
<1>5. [r EXCEPT !.claims = Claims(r)] \in RunType
  BY <1>2, <1>4 DEF RunType
<1>6. Claims([r EXCEPT !.claims = Claims(r)]) = Claims(r)
  BY <1>2 DEF Claims, JobClaims, RunType
<1>7. worker' = worker /\ orphan' = orphan /\ crashes' = crashes /\ run[t].at = "policy"
  BY DEF ApplyPolicy
<1>8. run'[t] = [r EXCEPT !.claims = Claims(r)] /\ \A u \in Threads \ {t} : run'[u] = run[u]
  BY <1>3 DEF LaunchTyping
<1>9. LaunchTyping'
  BY <1>3, <1>5, <1>7 DEF LaunchTyping
<1> QED BY <1>2, <1>6, <1>7, <1>8, <1>9 DEF RunType

LEMMA KilledTyped ==
  ASSUME NEW w \in WorkerType
  PROVE  /\ Killed(w) \in WorkerType /\ KilledWithJob(w) \in WorkerType
         /\ Killed(w).mech = w.mech /\ Killed(w).readable = w.readable /\ Killed(w).inJob = w.inJob
         /\ KilledWithJob(w).mech = w.mech /\ KilledWithJob(w).readable = w.readable
         /\ KilledWithJob(w).inJob = w.inJob
         /\ ~Alive(Killed(w)) /\ ~InJobAlive(KilledWithJob(w))
         /\ Left(KilledWithJob(w)) = NoWorker
BY DEF Killed, KilledWithJob, Alive, InJobAlive, Left, WorkerType

\* The worker's end changes nothing but whether it runs.
LEMMA EndingFacts ==
  ASSUME LaunchTyping, NEW t \in Threads,
         UserUnknown(t) \/ WorkerEnds(t) \/ WaitReturns(t) \/ TerminateTree(t) \/ CloseJob(t)
  PROVE  /\ LaunchTyping'
         /\ \A u \in Threads \ {t} :
              run'[u] = run[u] /\ worker'[u] = worker[u] /\ orphan'[u] = orphan[u]
<1>1. crashes' = crashes
  BY DEF UserUnknown, WorkerEnds, WaitReturns, TerminateTree, CloseJob
<1>2. /\ orphan' \in [Threads -> BOOLEAN]
      /\ \A u \in Threads \ {t} : orphan'[u] = orphan[u]
  <2>1. InJobAlive(worker[t]) \in BOOLEAN
    BY DEF InJobAlive, Alive, LaunchTyping, WorkerType
  <2> QED BY <2>1 DEF LaunchTyping, UserUnknown, WorkerEnds, WaitReturns, TerminateTree, CloseJob
<1>3. /\ worker' \in [Threads -> WorkerType]
      /\ \A u \in Threads \ {t} : worker'[u] = worker[u]
  <2>1. /\ worker[t] \in WorkerType /\ Killed(worker[t]) \in WorkerType
        /\ KilledWithJob(worker[t]) \in WorkerType
        /\ Left(KilledWithJob(worker[t])) \in WorkerType /\ NoWorker \in WorkerType
    BY KilledTyped, NothingTyped DEF LaunchTyping
  <2> QED BY <2>1 DEF LaunchTyping, UserUnknown, WorkerEnds, WaitReturns, TerminateTree, CloseJob
<1>4. /\ run' \in [Threads -> RunType]
      /\ \A u \in Threads \ {t} : run'[u] = run[u]
  <2>1. CASE \E at \in RunStates : Step(t, at)
    BY <2>1, StepTyped DEF LaunchTyping
  <2>2. CASE Over(t)
    <3>1. [NoRun EXCEPT !.at = "over"] \in RunType
      BY NothingTyped DEF RunType
    <3> QED BY <2>2, <3>1 DEF Over, LaunchTyping
  <2>3. CASE run' = run
    BY <2>3 DEF LaunchTyping
  <2> QED BY <2>1, <2>2, <2>3
          DEF UserUnknown, WorkerEnds, WaitReturns, TerminateTree, CloseJob, RunStates
<1> QED BY <1>1, <1>2, <1>3, <1>4 DEF LaunchTyping

\* A crash puts the threads of its process back to where they began.
LEMMA CrashFacts ==
  ASSUME StagingType, KeyKnown, LaunchTyping, NEW p \in Procs, Crash(p)
  PROVE  /\ StagingType' /\ KeyKnown' /\ LaunchTyping'
         /\ source' = source /\ dest' = dest /\ staging' = staging
         /\ \A q \in Procs \ {p} : hasSid'[q] = hasSid[q] /\ lock'[q] = lock[q]
         /\ \A t \in Threads :
              IF Owner[t] = p
              THEN call'[t] = NoCall /\ run'[t] = NoRun /\ worker'[t] = NoWorker /\ orphan'[t] = FALSE
              ELSE /\ call'[t] = call[t] /\ run'[t] = run[t] /\ worker'[t] = worker[t]
                   /\ orphan'[t] = orphan[t]
<1>1. /\ source' = source /\ dest' = dest /\ staging' = staging /\ aclDone' = aclDone
  BY DEF Crash, files
<1>2. /\ hasSid' \in [Procs -> BOOLEAN] /\ lock' \in [Procs -> Threads \cup {NoThread}]
      /\ failed' \in [Procs -> BOOLEAN]
      /\ \A q \in Procs \ {p} : hasSid'[q] = hasSid[q] /\ lock'[q] = lock[q]
  BY DEF Crash, StagingType
<1>3. /\ call' = [t \in Threads |-> IF Owner[t] = p THEN NoCall ELSE call[t]]
      /\ run' = [t \in Threads |-> IF Owner[t] = p THEN NoRun ELSE run[t]]
      /\ worker' = [t \in Threads |-> IF Owner[t] = p THEN NoWorker ELSE worker[t]]
      /\ orphan' = [t \in Threads |-> IF Owner[t] = p THEN FALSE ELSE orphan[t]]
  BY DEF Crash
<1>4. crashes' \in 0 .. MaxCrashes
  BY CrashAssumption DEF Crash, LaunchTyping
<1>5. StagingType' /\ LaunchTyping'
  BY <1>1, <1>2, <1>3, <1>4, NothingTyped DEF StagingType, LaunchTyping
<1>6. KeyKnown'
  BY <1>1, <1>3 DEF KeyKnown, NoCall, LockedSteps, CopySteps
<1> QED BY <1>1, <1>2, <1>3, <1>5, <1>6

LEMMA EditTyped ==
  ASSUME StagingType, KeyKnown, Edit
  PROVE  StagingType' /\ KeyKnown'
<1>1. source' = source + 1 /\ source \in Nat /\ source' \in Versions
  BY EditsAssumption DEF Edit, StagingType, Versions
<1>2. call' = call
  BY DEF Edit
<1>3. \A v \in Versions : v \in Nat /\ (v <= source => v <= source')
  BY <1>1, VersionsAreNumbers
<1>4. KeyKnown'
  BY <1>2, <1>3 DEF KeyKnown
<1> QED BY <1>1, <1>4 DEF Edit, StagingType, files, memory

-----------------------------------------------------------------------------
(* Type correctness *)

TypeInv == StagingType /\ KeyKnown /\ LaunchTyping /\ CallInRun

LEMMA InitTyped == Init => TypeInv
<1> SUFFICES ASSUME Init PROVE TypeInv
  OBVIOUS
<1>1. StagingType
  BY NothingTyped, TreesTyped, VersionsAreNumbers DEF Init, StagingInit, StagingType
<1>2. KeyKnown
  BY DEF Init, StagingInit, KeyKnown, NoCall, LockedSteps, CopySteps
<1>3. LaunchTyping
  BY NothingTyped, CrashAssumption DEF Init, LaunchTyping
<1>4. CallInRun
  BY DEF Init, StagingInit, CallInRun, NoCall, NoRun
<1> QED BY <1>1, <1>2, <1>3, <1>4 DEF TypeInv

\* Only the step's own call changes, and it was one that is not over.
LEMMA EnsureCall ==
  ASSUME TypeInv, NEW t \in Threads, EnsureStep(t)
  PROVE  /\ call[t].at \in LockedSteps \cup {"root", "check", "lock"}
         /\ \A u \in Threads \ {t} : call'[u] = call[u]
<1>1. call[t].at \in LockedSteps \cup {"root", "check", "lock"}
  BY DEF EnsureStep, FindRoot, FastCheck, TakeLock, Stage, Clear, Grant, CopyRoot, CopyLibraries,
     CopyPackage, Mark, Remove, Publish, CopyFails, LockedSteps,
     CopySteps
<1>2. \A u \in Threads \ {t} : call'[u] = call[u]
  BY DEF TypeInv, StagingType, EnsureStep, FindRoot, FastCheck, TakeLock, Stage, Clear, Grant, CopyRoot,
     CopyLibraries, CopyPackage, Mark, Remove, Publish, CopyFails,
     Abandon, Return, Raise, Goto, Did, PassOver, Result
<1> QED BY <1>1, <1>2

LEMMA TypeStep ==
  ASSUME TypeInv, [Next]_vars
  PROVE  TypeInv'
<1> USE DEF TypeInv
<1>1. ASSUME NEW t \in Threads, Staging(t)
      PROVE  TypeInv'
  <2>1. EnsureStep(t) /\ UNCHANGED launchVars
    BY <1>1 DEF Staging
  <2>2. StagingType' /\ KeyKnown'
    BY <2>1, EnsureTyped
  <2>3. LaunchTyping' /\ run' = run
    BY <2>1 DEF LaunchTyping, launchVars
  <2>4. call[t].at \in LockedSteps \cup {"root", "check", "lock"}
    BY <2>1, EnsureCall
  <2>5. \A u \in Threads \ {t} : call'[u] = call[u]
    BY <2>1, EnsureCall
  <2>6. run[t].at \in {"env", "command", "prepare"}
    BY <2>4 DEF CallInRun, LockedSteps, CopySteps
  <2>7. CallInRun'
    BY <2>3, <2>5, <2>6 DEF CallInRun
  <2> QED BY <2>2, <2>3, <2>7
<1>2. ASSUME NEW t \in Threads, Begin(t) \/ EnvReady(t) \/ CommandReady(t) \/ StartContained(t)
                                \/ Staged(t) \/ GrantTree(t)
      PROVE  TypeInv'
  <2>1. StagingType' /\ KeyKnown' /\ LaunchTyping'
    BY <1>2, PrepareTyped
  <2>2. \A u \in Threads \ {t} : run'[u] = run[u] /\ call'[u] = call[u]
    BY <1>2 DEF Begin, EnvReady, CommandReady, StartContained, Staged, GrantTree, PreparationFails, Step,
       Call, StagingType, LaunchTyping
  <2>3. /\ call'[t].at # "none" => run'[t].at \in {"env", "command", "prepare", "grant"}
        /\ run'[t].at = "grant" => call'[t].at = "returned"
    <3>1. CASE Begin(t)
      BY <3>1 DEF Begin, Call, StagingType, LaunchTyping, NoRun, RunType
    <3>2. CASE EnvReady(t)
      BY <3>2 DEF EnvReady, Call, StagingType, LaunchTyping, RunType
    <3>3. CASE CommandReady(t)
      BY <3>3 DEF CommandReady, StagingType, LaunchTyping, NoCall, RunType
    <3>4. CASE StartContained(t)
      <4>1. run[t].at = "appcontainer" /\ call[t].at = "none"
        BY <3>4 DEF StartContained, CallInRun
      <4>2. CASE Step(t, "prepare")
        BY <4>2, StepTyped DEF LaunchTyping, RunStates
      <4>3. CASE Step(t, "restricted") /\ call' = call
        BY <4>1, <4>3, StepTyped DEF LaunchTyping, RunStates
      <4> QED BY <3>4, <4>2, <4>3 DEF StartContained, PreparationFails
    <3>5. CASE Staged(t)
      <4>1. CASE call[t].at = "returned" /\ Step(t, "grant") /\ call' = call
        BY <4>1, StepTyped DEF LaunchTyping, RunStates
      <4>2. CASE Step(t, "restricted") /\ call' = [call EXCEPT ![t] = NoCall]
        BY <4>2, StepTyped DEF LaunchTyping, RunStates, NoCall, StagingType
      <4> QED BY <3>5, <4>1, <4>2 DEF Staged, PreparationFails
    <3>6. CASE GrantTree(t)
      <4>1. call'[t].at = "none"
        BY <3>6 DEF GrantTree, NoCall, StagingType
      <4>2. run'[t].at \in {"create", "restricted"}
        BY <3>6, StepTyped DEF GrantTree, PreparationFails, LaunchTyping, RunStates
      <4> QED BY <4>1, <4>2
    <3> QED BY <1>2, <3>1, <3>2, <3>3, <3>4, <3>5, <3>6
  <2>4. CallInRun'
    BY <2>2, <2>3 DEF CallInRun
  <2> QED BY <2>1, <2>4
<1>3. ASSUME NEW t \in Threads, CreateContained(t) \/ CreateRestricted(t) \/ CreateFallback(t)
      PROVE  TypeInv'
  <2>1. LaunchTyping'
    BY <1>3, ProcessTyped
  <2>2. UNCHANGED stagingVars /\ run[t].at \in {"create", "restricted", "fallback"}
    BY <1>3 DEF CreateContained, CreateRestricted, CreateFallback
  <2>3. \A u \in Threads \ {t} : run'[u] = run[u]
    BY <1>3 DEF CreateContained, CreateRestricted, CreateFallback, Created, Step, LaunchTyping
  <2>4. run'[t].at # "grant"
    <3>1. CASE \E mech \in {"appcontainer", "restricted_token", "job-only"} : Created(t, mech)
      <4>1. PICK mech \in {"appcontainer", "restricted_token", "job-only"} :
              run' = [run EXCEPT ![t] = [run[t] EXCEPT !.at = "assign", !.mech = mech]]
        BY <3>1, CreatedTyped
      <4> QED BY <4>1 DEF LaunchTyping, RunType
    <3>2. CASE Step(t, "restricted") \/ Step(t, "fallback")
      BY <3>2, StepTyped DEF LaunchTyping, RunStates
    <3>3. CASE run' = [run EXCEPT ![t] = [NoRun EXCEPT !.at = "failed"]]
      BY <3>3 DEF LaunchTyping, NoRun
    <3> QED BY <1>3, <3>1, <3>2, <3>3 DEF CreateContained, CreateRestricted, CreateFallback
  <2>5. StagingType' /\ KeyKnown' /\ call' = call
    BY <2>2 DEF stagingVars, files, memory, StagingType, KeyKnown
  <2>6. CallInRun'
    BY <2>2, <2>3, <2>4, <2>5 DEF CallInRun
  <2> QED BY <2>1, <2>5, <2>6
<1>4. ASSUME NEW t \in Threads, Assign(t) \/ ApplyPolicy(t)
      PROVE  TypeInv'
  <2>1. LaunchTyping' /\ run[t].at \in {"assign", "policy"} /\ run'[t].at \in {"policy", "wait"}
        /\ \A u \in Threads \ {t} : run'[u] = run[u]
    BY <1>4, AssignFacts, ApplyPolicyFacts
  <2>2. StagingType' /\ KeyKnown' /\ call' = call
    BY <1>4 DEF Assign, ApplyPolicy, stagingVars, files, memory, StagingType, KeyKnown
  <2>3. CallInRun'
    BY <2>1, <2>2 DEF CallInRun
  <2> QED BY <2>1, <2>2, <2>3
<1>5. ASSUME NEW t \in Threads, UserUnknown(t) \/ Ending(t)
      PROVE  TypeInv'
  <2>1. LaunchTyping' /\ \A u \in Threads \ {t} : run'[u] = run[u]
    BY <1>5, EndingFacts DEF Ending
  <2>2. StagingType' /\ KeyKnown' /\ call' = call
    BY <1>5 DEF Ending, UserUnknown, WorkerEnds, WaitReturns, TerminateTree, CloseJob, stagingVars, files,
       memory, StagingType, KeyKnown
  <2>3. run' = run \/ (run[t].at \in {"policy", "wait", "close"} /\ run'[t].at \in {"fallback", "close", "over"})
    BY <1>5 DEF Ending, UserUnknown, WorkerEnds, WaitReturns, TerminateTree, CloseJob, Over, Step,
       LaunchTyping, RunType, NoRun
  <2>4. CallInRun'
    BY <2>1, <2>2, <2>3 DEF CallInRun
  <2> QED BY <2>1, <2>2, <2>4
<1>6. ASSUME NEW p \in Procs, Crash(p)
      PROVE  TypeInv'
  <2>1. \A t \in Threads : \/ call'[t] = call[t] /\ run'[t] = run[t]
                           \/ call'[t] = NoCall /\ run'[t] = NoRun
    BY <1>6, CrashFacts
  <2>2. NoCall.at = "none" /\ NoRun.at = "idle"
    BY DEF NoCall, NoRun
  <2>3. CallInRun'
    BY <2>1, <2>2 DEF CallInRun
  <2> QED BY <1>6, <2>3, CrashFacts
<1>7. ASSUME Edit, UNCHANGED launchVars
      PROVE  TypeInv'
  BY <1>7, EditTyped DEF Edit, LaunchTyping, CallInRun, launchVars
<1>8. CASE UNCHANGED vars
  BY <1>8 DEF vars, stagingVars, files, memory, launchVars, StagingType, KeyKnown, LaunchTyping, CallInRun
<1> QED BY <1>1, <1>2, <1>3, <1>4, <1>5, <1>6, <1>7, <1>8 DEF Next, Launch, Ending, Finished

\* Every variable of the launches and of the staging has its type.
THEOREM TypeCorrect == Spec => []TypeOK
<1>1. TypeInv => TypeOK
  BY DEF TypeInv, StagingType, LaunchTyping, TypeOK
<1> QED BY <1>1, InitTyped, TypeStep, PTL DEF Spec

-----------------------------------------------------------------------------
(* The lock *)

\* A thread that is staging holds the lock of its process.
LockHeld == \A t \in Threads : call[t].at \in LockedSteps => lock[Owner[t]] = t

\* Two threads of a process do not stage at the same time.
LEMMA OneStages ==
  ASSUME LockHeld, NEW t \in Threads, NEW u \in Threads \ {t}, Owner[u] = Owner[t],
         call[t].at \in LockedSteps
  PROVE  call[u].at \notin LockedSteps
BY DEF LockHeld

\* A step keeps the lock, takes it when it is free, or gives it back.
LEMMA EnsureLock ==
  ASSUME TypeInv, NEW t \in Threads, EnsureStep(t)
  PROVE  \/ /\ lock' = lock
            /\ call'[t].at \in LockedSteps => call[t].at \in LockedSteps
         \/ /\ call[t].at = "lock" /\ lock[Owner[t]] = NoThread
            /\ lock' = [lock EXCEPT ![Owner[t]] = t]
         \/ /\ call[t].at \in LockedSteps /\ call'[t].at \notin LockedSteps
            /\ lock' = [lock EXCEPT ![Owner[t]] = NoThread]
<1> USE DEF TypeInv, StagingType
<1>1. CASE FindRoot(t) \/ FastCheck(t)
  <2>1. lock' = lock
    BY <1>1 DEF FindRoot, FastCheck, memory
  <2>2. call'[t].at \in {"check", "returned", "lock"}
    BY <1>1 DEF FindRoot, FastCheck, NoCall, Result, CallType
  <2> QED BY <2>1, <2>2 DEF LockedSteps, CopySteps
<1>2. CASE TakeLock(t)
  BY <1>2, GotoTyped DEF TakeLock, LockedSteps, CopySteps
<1>3. CASE Stage(t)
  <2>1. CASE Release(t) /\ (Result(t, "returned") \/ Result(t, "raised"))
    BY <1>3, <2>1, GotoTyped DEF Stage, Release, LockedSteps, CopySteps
  <2>2. CASE lock' = lock
    BY <1>3, <2>2 DEF Stage, LockedSteps
  <2> QED BY <1>3, <2>1, <2>2 DEF Stage
<1>4. ASSUME NEW remembered, Abandon(t, remembered), call[t].at \in LockedSteps
      PROVE  /\ call[t].at \in LockedSteps /\ call'[t].at \notin LockedSteps
             /\ lock' = [lock EXCEPT ![Owner[t]] = NoThread]
  BY <1>4, GotoTyped DEF Abandon, Raise, Release, LockedSteps, CopySteps
<1>5. CASE Clear(t) \/ Grant(t)
  BY <1>4, <1>5 DEF Clear, Grant, memory, LockedSteps
<1>6. CASE CopyRoot(t) \/ CopyLibraries(t) \/ CopyPackage(t) \/ Mark(t)
  BY <1>6 DEF CopyRoot, CopyLibraries, CopyPackage, Mark, Did, PassOver, memory, LockedSteps,
     CopySteps
<1>7. CASE Remove(t)
  BY <1>7 DEF Remove, memory, LockedSteps, CopySteps
<1>8. CASE Publish(t)
  BY <1>8, GotoTyped DEF Publish, Return, Release, LockedSteps, CopySteps
<1>9. CASE CopyFails(t)
  BY <1>4, <1>9 DEF CopyFails, LockedSteps
<1> QED BY <1>1, <1>2, <1>3, <1>5, <1>6, <1>7, <1>8, <1>9 DEF EnsureStep

\* The launch leaves the lock alone, and starts or drops a call.
LEMMA LaunchCalls ==
  ASSUME TypeInv, NEW t \in Threads, Launch(t) \/ Ending(t)
  PROVE  /\ lock' = lock /\ hasSid' = hasSid /\ source' = source /\ staging' = staging
         /\ call'[t] = call[t] \/ call'[t].at \in {"none", "root"}
         /\ \A u \in Threads \ {t} : call'[u] = call[u]
<1> USE DEF TypeInv, StagingType, stagingVars, files, memory
<1>1. CASE Begin(t) \/ EnvReady(t) \/ CommandReady(t) \/ StartContained(t)
  BY <1>1 DEF Begin, EnvReady, CommandReady, StartContained, PreparationFails, Call, NoCall
<1>2. CASE Staged(t) \/ GrantTree(t)
  BY <1>2 DEF Staged, GrantTree, PreparationFails, NoCall
<1>3. CASE UNCHANGED stagingVars
  BY <1>3
<1> QED BY <1>1, <1>2, <1>3 DEF Launch, Ending, CreateContained, CreateRestricted, CreateFallback, Assign,
        UserUnknown, ApplyPolicy, WorkerEnds, WaitReturns, TerminateTree, CloseJob

LEMMA LockStep ==
  ASSUME TypeInv, LockHeld, [Next]_vars
  PROVE  LockHeld'
<1>1. ASSUME NEW t \in Threads, Staging(t)
      PROVE  LockHeld'
  <2>1. EnsureStep(t)
    BY <1>1 DEF Staging
  <2>2. \A u \in Threads \ {t} : call'[u] = call[u]
    BY <2>1, EnsureCall
  <2>3. CASE lock' = lock /\ (call'[t].at \in LockedSteps => call[t].at \in LockedSteps)
    BY <2>2, <2>3 DEF LockHeld
  <2>4. CASE /\ lock[Owner[t]] = NoThread /\ lock' = [lock EXCEPT ![Owner[t]] = t]
    <3>1. \A u \in Threads \ {t} : Owner[u] = Owner[t] => call[u].at \notin LockedSteps
      BY <2>4, ThreadAssumption DEF LockHeld
    <3>2. lock'[Owner[t]] = t /\ \A u \in Threads : Owner[u] # Owner[t] => lock'[Owner[u]] = lock[Owner[u]]
      BY <2>4, OwnerAssumption DEF TypeInv, StagingType
    <3> QED BY <2>2, <3>1, <3>2 DEF LockHeld
  <2>5. CASE /\ call[t].at \in LockedSteps /\ call'[t].at \notin LockedSteps
             /\ lock' = [lock EXCEPT ![Owner[t]] = NoThread]
    <3>1. \A u \in Threads \ {t} : Owner[u] = Owner[t] => call[u].at \notin LockedSteps
      BY <2>5, OneStages
    <3>2. \A u \in Threads : Owner[u] # Owner[t] => lock'[Owner[u]] = lock[Owner[u]]
      BY <2>5, OwnerAssumption DEF TypeInv, StagingType
    <3> QED BY <2>2, <2>5, <3>1, <3>2 DEF LockHeld
  <2> QED BY <2>1, <2>3, <2>4, <2>5, EnsureLock
<1>2. ASSUME NEW t \in Threads, Launch(t) \/ Ending(t)
      PROVE  LockHeld'
  BY <1>2, LaunchCalls DEF LockHeld, LockedSteps, CopySteps
<1>3. ASSUME NEW p \in Procs, Crash(p)
      PROVE  LockHeld'
  <2>1. \A t \in Threads : \/ call'[t] = NoCall
                           \/ call'[t] = call[t] /\ lock'[Owner[t]] = lock[Owner[t]]
    BY <1>3, CrashFacts, OwnerAssumption DEF TypeInv
  <2>2. NoCall.at \notin LockedSteps
    BY DEF NoCall, LockedSteps, CopySteps
  <2> QED BY <2>1, <2>2 DEF LockHeld
<1>4. CASE Edit \/ UNCHANGED vars
  BY <1>4 DEF Edit, LockHeld, vars, stagingVars, memory
<1> QED BY <1>1, <1>2, <1>3, <1>4 DEF Next, Finished

-----------------------------------------------------------------------------
(* The tree under construction *)


AfterApp == {"mark", "remove", "publish"}
AfterMark == {"remove", "publish"}

\* How far the tree of this call is: what the call copied is in it, the package no
\* older than the fingerprint, python.exe from the moment it was looked for, and
\* access was granted first where there is a SID.
BuiltAs(c, tree, sid) ==
  /\ c.copied \ {"app"} \subseteq tree.parts
  /\ "app" \in c.copied => tree.app >= c.fp
  /\ c.at \in AfterApp => "exe" \in tree.parts
  /\ c.at \in AfterMark => tree.mark = c.fp
  /\ c.at \in CopySteps => (sid => tree.ace)
  /\ c.at = "grant" => sid

Built(t) == BuiltAs(call[t], staging[call[t].key], hasSid[Owner[t]])

\* Where there is a SID, this tree may be read if a worker can be started from it.
Readable(t, v) == hasSid[Owner[t]] /\ "exe" \in dest[v].parts => dest[v].ace

\* What was returned to a thread, and what its worker will be started from.
ReadsOK(t) ==
  /\ call[t].at = "returned" => Readable(t, call[t].key)
  /\ run[t].exe # None => Readable(t, run[t].exe)
  /\ run[t].at \in {"prepare", "grant", "create"} => hasSid[Owner[t]]

\* The ACL marker is in a tree only where the ACE is.
Granted(trees) == \A v \in Versions : trees[v].acl => trees[v].ace

StagingInv ==
  /\ Granted(dest) /\ Granted(staging)
  /\ \A t \in Threads : Built(t) /\ ReadsOK(t)

\* The trees are as they were, or the one of this key got readable or lost files.
TreesKept ==
  \A v \in Versions :
    /\ dest'[v].acl => dest[v].acl
    /\ dest'[v].parts \subseteq dest[v].parts
    /\ dest[v].ace /\ "exe" \in dest'[v].parts => dest'[v].ace
    /\ dest'[v].acl => dest'[v].ace

LEMMA KeptIsKept ==
  ASSUME TreesKept
  PROVE  Granted(dest)'
BY DEF TreesKept, Granted

LEMMA ReadableKept ==
  ASSUME TreesKept, NEW t \in Threads, NEW v \in Versions, Readable(t, v), hasSid' = hasSid
  PROVE  Readable(t, v)'
BY DEF TreesKept, Readable

LEMMA SameTrees ==
  ASSUME StagingInv, dest' = dest
  PROVE  TreesKept
BY DEF TreesKept, StagingInv, Granted

\* A thread that is not copying has nothing built.
LEMMA NotBuilding ==
  ASSUME TypeInv, NEW t \in Threads, call[t].at \notin CopySteps \cup {"grant"}
  PROVE  Built(t)
BY DEF TypeInv, KeyKnown, Built, BuiltAs, AfterExe, AfterApp, AfterMark, CopySteps

LEMMA NotBuildingAfter ==
  ASSUME TypeInv', NEW t \in Threads, call'[t].at \notin CopySteps \cup {"grant"}
  PROVE  Built(t)'
BY DEF TypeInv, KeyKnown, Built, BuiltAs, AfterExe, AfterApp, AfterMark, CopySteps

\* Under OneProcess only the thread that stages has anything built, so a step of
\* another thread of the pool keeps what there is.
LEMMA OthersBuilt ==
  ASSUME OneProcess, TypeInv, TypeInv', LockHeld, NEW t \in Threads, call[t].at \in LockedSteps,
         \A u \in Threads \ {t} : call'[u] = call[u]
  PROVE  \A u \in Threads \ {t} : Built(u)'
<1> SUFFICES ASSUME NEW u \in Threads \ {t}
             PROVE  Built(u)'
  OBVIOUS
<1>1. call[u].at \notin LockedSteps
  BY OneStages DEF OneProcess
<1>2. call'[u].at \notin CopySteps \cup {"grant"}
  BY <1>1 DEF LockedSteps
<1> QED BY <1>2, NotBuildingAfter

LEMMA OthersRead ==
  ASSUME TypeInv, StagingInv, TreesKept, NEW t \in Threads, hasSid' = hasSid, run' = run,
         \A u \in Threads \ {t} : call'[u] = call[u],
         call'[t].at = "returned" => Readable(t, call[t].key)'
  PROVE  \A u \in Threads : ReadsOK(u)'
<1> SUFFICES ASSUME NEW u \in Threads
             PROVE  ReadsOK(u)'
  OBVIOUS
<1>1. call[u].at = "returned" => call[u].key \in Versions
  BY DEF TypeInv, KeyKnown
<1>2. run[u].exe # None => run[u].exe \in Versions
  BY DEF TypeInv, LaunchTyping, RunType
<1>3. ASSUME call'[u].at = "returned", u # t
      PROVE  Readable(u, call[u].key)'
  <2>1. call'[u] = call[u]
    BY <1>3
  <2>2. Readable(u, call[u].key)
    BY <1>3, <2>1 DEF StagingInv, ReadsOK
  <2>3. call[u].key \in Versions
    BY <1>1, <1>3, <2>1
  <2> QED BY <2>1, <2>2, <2>3 DEF Readable, TreesKept
<1>4. ASSUME run[u].exe # None
      PROVE  Readable(u, run[u].exe)'
  <2>1. Readable(u, run[u].exe) /\ run[u].exe \in Versions
    BY <1>2, <1>4 DEF StagingInv, ReadsOK
  <2> QED BY <2>1 DEF Readable, TreesKept
<1>5. run[u].at \in {"prepare", "grant", "create"} => hasSid'[Owner[u]]
  BY DEF StagingInv, ReadsOK
<1> QED BY <1>3, <1>4, <1>5 DEF ReadsOK

\* Checks and the taking of the lock: a tree is returned that is usable.
LEMMA MoveKeeps ==
  ASSUME TypeInv, TypeInv', StagingInv, NEW t \in Threads, run' = run,
         FindRoot(t) \/ FastCheck(t) \/ TakeLock(t) \/ Stage(t),
         \A u \in Threads \ {t} : call'[u] = call[u]
  PROVE  StagingInv'
<1>1. /\ dest' = dest /\ staging' = staging /\ hasSid' = hasSid
  BY DEF FindRoot, FastCheck, TakeLock, Stage, files, memory
<1>2. /\ call'[t].at \notin CopySteps \cup {"grant"}
      /\ call'[t].at = "returned" =>
           /\ call'[t].key = call[t].key /\ call[t].key \in Versions
           /\ \E fp \in Versions : Usable(t, fp)
  <2> USE DEF TypeInv, StagingType, CopySteps
  <2>1. CASE FindRoot(t)
    BY <2>1 DEF FindRoot
  <2>2. CASE FastCheck(t)
    <3>1. CASE Result(t, "returned") /\ Usable(t, source)
      BY <2>2, <3>1, GotoTyped DEF FastCheck, KeyKnown
    <3>2. CASE call' = [call EXCEPT ![t].at = "lock", ![t].fp = source]
      BY <3>2 DEF CallType
    <3> QED BY <2>2, <3>1, <3>2 DEF FastCheck
  <2>3. CASE TakeLock(t)
    <3>1. CASE Result(t, "returned") /\ Usable(t, call[t].fp)
      BY <2>3, <3>1, GotoTyped DEF TakeLock, KeyKnown
    <3>2. CASE Goto(t, "stage")
      BY <3>2, GotoTyped DEF LockedSteps
    <3> QED BY <2>3, <3>1, <3>2 DEF TakeLock
  <2>4. CASE Stage(t)
    <3>1. CASE Result(t, "returned") /\ Usable(t, source)
      BY <2>4, <3>1, GotoTyped DEF Stage, KeyKnown, LockedSteps
    <3>2. CASE Result(t, "raised")
      BY <3>2, GotoTyped
    <3>3. CASE call' = [call EXCEPT ![t].at = "clear", ![t].fp = source]
      BY <3>3 DEF CallType
    <3> QED BY <2>4, <3>1, <3>2, <3>3 DEF Stage
  <2> QED BY <2>1, <2>2, <2>3, <2>4
<1>3. TreesKept
  BY <1>1, SameTrees
<1>4. call'[t].at = "returned" => Readable(t, call[t].key)'
  BY <1>1, <1>2 DEF Usable, Readable, StagingInv, Granted
<1>5. \A u \in Threads : ReadsOK(u)'
  BY <1>1, <1>3, <1>4, OthersRead
<1>6. Built(t)' /\ Granted(staging)'
  BY <1>1, <1>2, NotBuildingAfter DEF StagingInv, Granted
<1>7. \A u \in Threads \ {t} : Built(u)'
  BY <1>1 DEF StagingInv, Built
<1> QED BY <1>3, <1>5, <1>6, <1>7, KeptIsKept DEF StagingInv

\* What is left of a copy that is given up is nobody's.
LEMMA AbandonKeeps ==
  ASSUME OneProcess, TypeInv, TypeInv', LockHeld, StagingInv, NEW t \in Threads, run' = run,
         call[t].at \in LockedSteps, NEW remembered, Abandon(t, remembered),
         \A u \in Threads \ {t} : call'[u] = call[u]
  PROVE  StagingInv'
<1>1. dest' = dest /\ hasSid' = hasSid /\ Result(t, "raised")
  BY DEF Abandon, Raise
<1>2. call'[t].at = "raised"
  BY <1>1, GotoTyped DEF TypeInv, StagingType
<1>3. TreesKept
  BY <1>1, SameTrees
<1>4. \A u \in Threads : ReadsOK(u)'
  BY <1>1, <1>2, <1>3, OthersRead
<1>5. Built(t)'
  BY <1>2, NotBuildingAfter DEF CopySteps
<1>6. \A u \in Threads \ {t} : Built(u)'
  BY OthersBuilt
<1>7. Granted(staging)'
  <2> DEFINE k == call[t].key
  <2>1. k \in Versions /\ staging \in [Versions -> TreeType]
    BY DEF TypeInv, KeyKnown, StagingType
  <2>2. PICK left \in Remains(staging[k]) : SetStaging(t, left)
    BY DEF Abandon
  <2>3. left.acl => left.ace
    BY <2>1, <2>2, RemainsTyped DEF StagingInv, Granted
  <2> QED BY <2>1, <2>2, <2>3 DEF SetStaging, StagingInv, Granted
<1> QED BY <1>3, <1>4, <1>5, <1>6, <1>7, KeptIsKept DEF StagingInv

\* The steps of the copy: each adds what the next ones rely on.
LEMMA CopyBuilds ==
  ASSUME OneProcess, TypeInv, LockHeld, StagingInv, NEW t \in Threads,
         Clear(t) \/ (Grant(t) /\ ~Abandon(t, TRUE)) \/ CopyRoot(t) \/ CopyLibraries(t)
           \/ CopyPackage(t) \/ Mark(t)
  PROVE  /\ Built(t)' /\ Granted(staging)' /\ call'[t].at \in CopySteps \cup {"grant"}
         /\ call[t].at \in LockedSteps /\ dest' = dest /\ hasSid' = hasSid
<1> DEFINE k == call[t].key
           c == call[t]
           tree == staging[k]
           sid == hasSid[Owner[t]]
<1>1. /\ dest' = dest /\ hasSid' = hasSid /\ call[t].at \in LockedSteps
  BY DEF Clear, Grant, CopyRoot, CopyLibraries, CopyPackage, Mark, memory, LockedSteps, CopySteps
<1>2. /\ k \in Versions /\ tree \in TreeType /\ sid \in BOOLEAN /\ source \in Versions
      /\ staging \in [Versions -> TreeType] /\ call \in [Threads -> CallType]
  BY <1>1, OwnerAssumption DEF TypeInv, KeyKnown, StagingType
<1>3. call[t].at \in CopySteps \cup {"clear", "grant"} => c.fp \in Versions /\ c.fp <= source
  BY DEF TypeInv, KeyKnown
<1>4. BuiltAs(c, tree, sid) /\ (tree.acl => tree.ace)
  BY <1>2 DEF StagingInv, Built, Granted
<1>5. \A at \in CopySteps \cup {"grant"} : Goto(t, at) =>
         call'[t].at = at /\ call'[t].key = k /\ call'[t].fp = c.fp /\ call'[t].copied = c.copied
  BY <1>2, GotoTyped DEF LockedSteps
<1>6. \A part \in Copies, at \in CopySteps : Did(t, part, at) =>
         /\ call'[t].at = at /\ call'[t].key = k /\ call'[t].fp = c.fp
         /\ call'[t].copied = c.copied \cup {part}
  BY <1>2, DidTyped
<1>7. ASSUME NEW new \in TreeType, SetStaging(t, new), new.acl => new.ace,
             call'[t].key = k, BuiltAs(call'[t], new, sid)
      PROVE  Built(t)' /\ Granted(staging)'
  <2>1. staging'[k] = new /\ \A v \in Versions \ {k} : staging'[v] = staging[v]
    BY <1>2, <1>7 DEF SetStaging
  <2> QED BY <1>1, <1>7, <2>1 DEF Built, StagingInv, Granted
<1>8. ASSUME staging' = staging, call'[t].key = k, BuiltAs(call'[t], tree, sid)
      PROVE  Built(t)' /\ Granted(staging)'
  BY <1>1, <1>8 DEF Built, StagingInv, Granted
<1>9. Copies = {"exe", "lib", "app"} /\ CopySteps = {"exe", "lib", "app", "mark", "remove", "publish"}
  BY DEF Copies, Parts, CopySteps
<1> USE DEF BuiltAs, AfterApp, AfterMark
<1> QED
  <2>1. CASE Clear(t)
    <3>1. PICK left \in Remains(tree) : SetStaging(t, [left EXCEPT !.exists = TRUE])
      BY <2>1 DEF Clear
    <3> DEFINE new == [left EXCEPT !.exists = TRUE]
    <3>2. left \in TreeType /\ new \in TreeType /\ (left.acl => left.ace)
      BY <1>2, <1>4, RemainsTyped
    <3>3. new.acl => new.ace
      BY <3>2 DEF TreeType
    <3>4. PICK at \in {"grant", "exe"} : Goto(t, at) /\ (at = "exe" <=> ~sid)
      BY <2>1 DEF Clear
    <3>5. /\ call'[t].at = at /\ call'[t].key = k /\ call'[t].copied = c.copied
      BY <1>5, <1>9, <3>4
    <3>6. c.copied = {}
      BY <2>1 DEF Clear, TypeInv, KeyKnown, AfterExe, CopySteps
    <3> HIDE DEF new
    <3>7. BuiltAs(call'[t], new, sid)
      BY <1>9, <3>4, <3>5, <3>6
    <3> QED BY <1>1, <1>7, <1>9, <3>1, <3>2, <3>3, <3>5, <3>7 DEF new
  <2>2. CASE Grant(t) /\ ~Abandon(t, TRUE)
    <3> DEFINE new == [tree EXCEPT !.ace = TRUE]
    <3>1. SetStaging(t, new) /\ Goto(t, "exe") /\ c.at = "grant"
      BY <2>2 DEF Grant
    <3>2. new.ace /\ new \in TreeType
      BY <1>2 DEF TreeType
    <3>3. c.copied = {}
      BY <3>1 DEF TypeInv, KeyKnown, AfterExe, CopySteps
    <3>4. call'[t].at = "exe" /\ call'[t].key = k /\ call'[t].copied = {}
      BY <1>5, <1>9, <3>1, <3>3
    <3> HIDE DEF new
    <3>5. BuiltAs(call'[t], new, sid)
      BY <1>9, <3>2, <3>4
    <3> QED BY <1>1, <1>7, <1>9, <3>1, <3>2, <3>4, <3>5
  <2>3. ASSUME NEW part \in {"exe", "lib"}, NEW at \in {"lib", "app"}, c.at = part,
               SetStaging(t, Copied(tree, part)), Did(t, part, at)
        PROVE  Built(t)' /\ Granted(staging)' /\ call'[t].at \in CopySteps \cup {"grant"}
    <3> DEFINE new == Copied(tree, part)
    <3>1. /\ new \in TreeType /\ new.parts = tree.parts \cup {part}
          /\ new.ace = tree.ace /\ new.acl = tree.acl /\ new.app = tree.app
      BY <1>2 DEF Copied, TreeType, Parts
    <3>2. /\ call'[t].at = at /\ call'[t].key = k /\ call'[t].fp = c.fp
          /\ call'[t].copied = c.copied \cup {part}
      BY <1>6, <1>9, <2>3
    <3> HIDE DEF new
    <3>3. BuiltAs(call'[t], new, sid)
      BY <1>4, <1>9, <2>3, <3>1, <3>2
    <3>4. Built(t)' /\ Granted(staging)'
      BY <1>4, <1>7, <2>3, <3>1, <3>2, <3>3 DEF new
    <3> QED BY <1>9, <3>2, <3>4
  <2>4. ASSUME NEW at \in {"app", "mark"}, PassOver(t, at), c.at \in {"lib", "app"},
               at = "mark" => "exe" \in tree.parts
        PROVE  Built(t)' /\ Granted(staging)' /\ call'[t].at \in CopySteps \cup {"grant"}
    <3>1. /\ call'[t].at = at /\ call'[t].key = k /\ call'[t].fp = c.fp
          /\ call'[t].copied = c.copied /\ staging' = staging
      BY <1>5, <1>9, <2>4 DEF PassOver
    <3>2. BuiltAs(call'[t], tree, sid)
      BY <1>4, <1>9, <2>4, <3>1
    <3> QED BY <1>8, <1>9, <3>1, <3>2
  <2>5. CASE CopyRoot(t)
    BY <1>1, <2>3, <2>5 DEF CopyRoot
  <2>6. CASE CopyLibraries(t)
    BY <1>1, <2>3, <2>4, <2>6 DEF CopyLibraries
  <2>7. CASE CopyPackage(t) /\ ~PassOver(t, "mark")
    <3> DEFINE new == [tree EXCEPT !.app = source]
    <3>1. SetStaging(t, new) /\ Did(t, "app", "mark") /\ c.at = "app" /\ "exe" \in tree.parts
      BY <2>7 DEF CopyPackage
    <3>2. /\ new \in TreeType /\ new.parts = tree.parts /\ new.app = source
          /\ new.ace = tree.ace /\ new.acl = tree.acl
      BY <1>2 DEF TreeType
    <3>3. /\ call'[t].at = "mark" /\ call'[t].key = k /\ call'[t].fp = c.fp
          /\ call'[t].copied = c.copied \cup {"app"}
      BY <1>6, <1>9, <3>1
    <3> HIDE DEF new
    <3>4. BuiltAs(call'[t], new, sid)
      BY <1>2, <1>3, <1>4, <1>9, <3>1, <3>2, <3>3, VersionsAreNumbers
    <3> QED BY <1>1, <1>4, <1>7, <1>9, <3>1, <3>2, <3>3, <3>4
  <2>8. CASE CopyPackage(t) /\ PassOver(t, "mark")
    BY <1>1, <2>4, <2>8 DEF CopyPackage
  <2>9. CASE Mark(t)
    <3> DEFINE acl == tree.acl \/ sid
               new == [tree EXCEPT !.mark = c.fp, !.acl = acl]
    <3>1. SetStaging(t, new) /\ Goto(t, "remove") /\ c.at = "mark"
      BY <1>2, <2>9 DEF Mark, SetStaging, TreeType
    <3>2. acl \in BOOLEAN
      OBVIOUS
    <3>3. acl => tree.ace
      BY <1>4, <1>9, <3>1
    <3> HIDE DEF acl
    <3>4. /\ new \in TreeType /\ new.parts = tree.parts /\ new.app = tree.app /\ new.mark = c.fp
          /\ new.ace = tree.ace /\ new.acl = acl
      BY <1>2, <1>3, <1>9, <3>1, <3>2 DEF TreeType
    <3>5. call'[t].at = "remove" /\ call'[t].key = k /\ call'[t].fp = c.fp /\ call'[t].copied = c.copied
      BY <1>5, <1>9, <3>1
    <3> HIDE DEF new
    <3>6. BuiltAs(call'[t], new, sid)
      BY <1>4, <1>9, <3>1, <3>4, <3>5
    <3> QED BY <1>1, <1>7, <1>9, <3>1, <3>3, <3>4, <3>5, <3>6
  <2> QED BY <1>1, <2>1, <2>2, <2>5, <2>6, <2>7, <2>8, <2>9 DEF CopyPackage

\* A step of the thread that stages which keeps the published trees.
LEMMA StagingKept ==
  ASSUME OneProcess, TypeInv, TypeInv', LockHeld, StagingInv, NEW t \in Threads, call[t].at \in LockedSteps,
         \A u \in Threads \ {t} : call'[u] = call[u], run' = run, hasSid' = hasSid,
         TreesKept, Granted(staging)', Built(t)', call'[t].at # "returned"
  PROVE  StagingInv'
<1>1. \A u \in Threads : ReadsOK(u)'
  BY OthersRead
<1>2. \A u \in Threads \ {t} : Built(u)'
  BY OthersBuilt
<1> QED BY <1>1, <1>2, KeptIsKept DEF StagingInv

LEMMA CopyKeeps ==
  ASSUME OneProcess, TypeInv, TypeInv', LockHeld, StagingInv, NEW t \in Threads, run' = run,
         \A u \in Threads \ {t} : call'[u] = call[u],
         Clear(t) \/ (Grant(t) /\ ~Abandon(t, TRUE)) \/ CopyRoot(t) \/ CopyLibraries(t)
           \/ CopyPackage(t) \/ Mark(t)
  PROVE  StagingInv'
<1>1. /\ Built(t)' /\ Granted(staging)' /\ call'[t].at \in CopySteps \cup {"grant"}
      /\ call[t].at \in LockedSteps /\ dest' = dest /\ hasSid' = hasSid
  BY CopyBuilds
<1>2. TreesKept
  BY <1>1, SameTrees
<1> QED BY <1>1, <1>2, StagingKept DEF CopySteps

\* The old tree goes, whatever is left of it.
LEMMA RemoveKeeps ==
  ASSUME OneProcess, TypeInv, TypeInv', LockHeld, StagingInv, NEW t \in Threads, run' = run,
         \A u \in Threads \ {t} : call'[u] = call[u], Remove(t)
  PROVE  StagingInv'
<1> DEFINE k == call[t].key
<1>1. /\ call[t].at = "remove" /\ staging' = staging /\ hasSid' = hasSid
      /\ call[t].at \in LockedSteps
  BY DEF Remove, memory, LockedSteps, CopySteps
<1>2. /\ call'[t].at \in {"remove", "publish"} /\ call'[t].key = k /\ call'[t].fp = call[t].fp
      /\ call'[t].copied = call[t].copied
  <2>1. CASE Goto(t, "publish")
    BY <2>1, GotoTyped DEF TypeInv, StagingType, LockedSteps, CopySteps
  <2> QED BY <1>1, <2>1 DEF Remove
<1>3. /\ k \in Versions /\ dest \in [Versions -> TreeType]
  BY <1>1 DEF TypeInv, StagingType, KeyKnown
<1>4. TreesKept
  <2>1. PICK left \in Remains(dest[k]) : SetDest(t, left)
    BY DEF Remove
  <2>2. dest'[k] = left /\ \A v \in Versions \ {k} : dest'[v] = dest[v]
    BY <1>3, <2>1 DEF SetDest
  <2>3. /\ left.parts \subseteq dest[k].parts /\ (left.acl => dest[k].acl /\ left.ace)
        /\ "exe" \in left.parts => left.ace = dest[k].ace
    BY <1>3, RemainsTyped DEF StagingInv, Granted
  <2> QED BY <1>3, <2>2, <2>3 DEF TreesKept, StagingInv, Granted
<1>5. Built(t)' /\ Granted(staging)'
  BY <1>1, <1>2 DEF StagingInv, Granted, Built, BuiltAs, AfterApp, AfterMark, CopySteps
<1> QED BY <1>1, <1>2, <1>4, <1>5, StagingKept

\* What is published is what the call built, and readable where there is a SID.
LEMMA PublishKeeps ==
  ASSUME OneProcess, TypeInv, TypeInv', LockHeld, StagingInv, NEW t \in Threads, run' = run,
         \A u \in Threads \ {t} : call'[u] = call[u], Publish(t)
  PROVE  StagingInv'
<1> DEFINE k == call[t].key
           tree == staging[k]
<1>1. /\ call[t].at \in LockedSteps /\ hasSid' = hasSid /\ Result(t, "returned")
      /\ k \in Versions /\ dest \in [Versions -> TreeType] /\ tree \in TreeType
  BY DEF Publish, Return, LockedSteps, CopySteps, TypeInv, KeyKnown, StagingType
<1>2. dest'[k] = tree /\ \A v \in Versions \ {k} : dest'[v] = dest[v]
  BY <1>1 DEF Publish, SetDest
<1>3. call'[t].at = "returned" /\ call'[t].key = k
  BY <1>1, GotoTyped DEF TypeInv, StagingType
<1>4. /\ hasSid[Owner[t]] => tree.ace
      /\ tree.acl => tree.ace
  BY <1>1 DEF Publish, StagingInv, Granted, Built, BuiltAs, CopySteps
<1>5. Granted(dest)' /\ Granted(staging)'
  <2>1. staging' = [staging EXCEPT ![k] = NoTree] /\ ~NoTree.acl
    BY DEF Publish, SetStaging, NoTree
  <2> QED BY <1>1, <1>2, <1>4, <2>1 DEF StagingInv, Granted, TypeInv, StagingType
<1>6. \A u \in Threads, v \in Versions : v = k \/ Readable(u, v) => Readable(u, v)'
  BY <1>1, <1>2, <1>4 DEF Readable, OneProcess
<1>7. ASSUME NEW u \in Threads
      PROVE  ReadsOK(u)'
  <2>1. ASSUME call'[u].at = "returned"
        PROVE  Readable(u, call[u].key)' /\ call'[u].key = call[u].key
    <3>1. CASE u = t
      BY <1>1, <1>3, <1>6, <3>1
    <3>2. CASE u # t
      <4>1. call'[u] = call[u]
        BY <3>2
      <4>2. Readable(u, call[u].key) /\ call[u].key \in Versions
        BY <2>1, <4>1 DEF StagingInv, ReadsOK, TypeInv, KeyKnown
      <4> QED BY <1>6, <4>1, <4>2
    <3> QED BY <3>1, <3>2
  <2>2. ASSUME run[u].exe # None
        PROVE  Readable(u, run[u].exe)'
    <3>1. Readable(u, run[u].exe) /\ run[u].exe \in Versions
      BY <2>2 DEF StagingInv, ReadsOK, TypeInv, LaunchTyping, RunType
    <3> QED BY <1>6, <3>1
  <2>3. run[u].at \in {"prepare", "grant", "create"} => hasSid'[Owner[u]]
    BY <1>1 DEF StagingInv, ReadsOK
  <2> QED BY <2>1, <2>2, <2>3 DEF ReadsOK
<1>8. Built(t)'
  BY <1>3, NotBuildingAfter DEF CopySteps
<1>9. \A u \in Threads \ {t} : Built(u)'
  BY <1>1, OthersBuilt
<1> QED BY <1>5, <1>7, <1>8, <1>9 DEF StagingInv

LEMMA EnsureKeeps ==
  ASSUME OneProcess, TypeInv, TypeInv', LockHeld, StagingInv, NEW t \in Threads,
         EnsureStep(t), run' = run
  PROVE  StagingInv'
<1>1. \A u \in Threads \ {t} : call'[u] = call[u]
  BY EnsureCall
<1>2. CASE FindRoot(t) \/ FastCheck(t) \/ TakeLock(t) \/ Stage(t)
  BY <1>1, <1>2, MoveKeeps
<1>3. ASSUME NEW remembered, Abandon(t, remembered), Grant(t) \/ CopyFails(t)
      PROVE  StagingInv'
  <2>1. call[t].at \in LockedSteps
    BY <1>3 DEF Grant, CopyFails, LockedSteps
  <2> QED BY <1>1, <1>3, <2>1, AbandonKeeps
<1>4. CASE Clear(t) \/ (Grant(t) /\ ~Abandon(t, TRUE)) \/ CopyRoot(t) \/ CopyLibraries(t)
             \/ CopyPackage(t) \/ Mark(t)
  BY <1>1, <1>4, CopyKeeps
<1>5. CASE Remove(t)
  BY <1>1, <1>5, RemoveKeeps
<1>6. CASE Publish(t)
  BY <1>1, <1>6, PublishKeeps
<1> QED BY <1>2, <1>3, <1>4, <1>5, <1>6 DEF EnsureStep, CopyFails

-----------------------------------------------------------------------------
(* The launches, and the trees *)

Granting == {"prepare", "grant", "create"}

\* The interpreter of a run is what a call returned; access is granted only
\* where there is a SID.
RunGoesOn(t) ==
  /\ \A u \in Threads \ {t} : run'[u] = run[u]
  /\ \/ run'[t].exe \in {run[t].exe, None}
     \/ call[t].at = "returned" /\ run'[t].exe = call[t].key
  /\ run'[t].at \in Granting => hasSid[Owner[t]] \/ run[t].at \in Granting

LEMMA StepGoesOn ==
  ASSUME LaunchTyping, NEW t \in Threads, NEW at \in RunStates, Step(t, at),
         at \in Granting => hasSid[Owner[t]] \/ run[t].at \in Granting
  PROVE  RunGoesOn(t)
<1>1. run[t] \in RunType
  BY DEF LaunchTyping
<1>2. run'[t].at = at /\ run'[t].exe = run[t].exe /\ \A u \in Threads \ {t} : run'[u] = run[u]
  BY <1>1, StepTyped DEF LaunchTyping, RunType
<1> QED BY <1>2 DEF RunGoesOn

LEMMA LaunchGoesOn ==
  ASSUME TypeInv, NEW t \in Threads, Launch(t) \/ Ending(t)
  PROVE  RunGoesOn(t)
<1> USE DEF TypeInv, LaunchTyping
<1>1. CASE Begin(t) \/ EnvReady(t)
  BY <1>1 DEF Begin, EnvReady, NoRun, RunType, RunGoesOn, Granting
<1>2. CASE CommandReady(t)
  <2>1. run'[t].exe = Executable(t) /\ run'[t].at = "appcontainer"
    BY <1>2 DEF CommandReady, RunType
  <2> QED BY <1>2, <2>1 DEF CommandReady, Executable, RunGoesOn, Granting
<1>3. CASE StartContained(t)
  BY <1>3, StepGoesOn DEF StartContained, PreparationFails, RunStates, Granting
<1>4. CASE Staged(t)
  BY <1>4, StepGoesOn DEF Staged, PreparationFails, RunStates, Granting
<1>5. CASE GrantTree(t)
  BY <1>5, StepGoesOn DEF GrantTree, PreparationFails, RunStates, Granting
<1>6. CASE CreateContained(t) \/ CreateRestricted(t) \/ CreateFallback(t)
  <2>1. ASSUME NEW mech \in {"appcontainer", "restricted_token", "job-only"}, Created(t, mech)
        PROVE  RunGoesOn(t)
    <3>1. run' = [run EXCEPT ![t] = [run[t] EXCEPT !.at = "assign", !.mech = mech]]
      BY <2>1, CreatedTyped
    <3>2. run'[t].at = "assign" /\ run'[t].exe = run[t].exe /\ \A u \in Threads \ {t} : run'[u] = run[u]
      BY <3>1 DEF RunType
    <3> QED BY <3>2 DEF RunGoesOn, Granting
  <2>2. CASE Step(t, "restricted") \/ Step(t, "fallback")
    BY <2>2, StepGoesOn DEF RunStates, Granting
  <2>3. CASE run' = [run EXCEPT ![t] = [NoRun EXCEPT !.at = "failed"]]
    BY <2>3 DEF NoRun, RunGoesOn, Granting
  <2> QED BY <1>6, <2>1, <2>2, <2>3 DEF CreateContained, CreateRestricted, CreateFallback
<1>7. CASE Assign(t)
  BY <1>7, AssignFacts DEF RunGoesOn, Granting
<1>8. CASE ApplyPolicy(t)
  BY <1>8, ApplyPolicyFacts DEF RunGoesOn, Granting
<1>9. CASE UserUnknown(t) \/ WaitReturns(t) \/ TerminateTree(t)
  BY <1>9, StepGoesOn DEF UserUnknown, WaitReturns, TerminateTree, RunStates, Granting
<1>10. CASE WorkerEnds(t)
  BY <1>10 DEF WorkerEnds, RunGoesOn, Granting
<1>11. CASE CloseJob(t)
  BY <1>11 DEF CloseJob, Over, NoRun, RunGoesOn, Granting
<1> QED BY <1>1, <1>2, <1>3, <1>4, <1>5, <1>6, <1>7, <1>8, <1>9, <1>10, <1>11 DEF Launch, Ending

\* A launch grants access to a tree, it never changes what is in it.
LEMMA LaunchTrees ==
  ASSUME TypeInv, StagingInv, NEW t \in Threads, Launch(t) \/ Ending(t)
  PROVE  TreesKept
<1>1. CASE GrantTree(t) /\ dest' # dest
  <2>1. call[t].key \in Versions
    BY <1>1 DEF GrantTree, TypeInv, CallInRun, KeyKnown
  <2>2. dest' = [dest EXCEPT ![call[t].key].ace = TRUE]
    BY <1>1 DEF GrantTree
  <2>3. \A v \in Versions :
          /\ dest'[v].parts = dest[v].parts /\ dest'[v].acl = dest[v].acl
          /\ dest[v].ace => dest'[v].ace
    BY <2>1, <2>2 DEF TypeInv, StagingType, TreeType
  <2> QED BY <2>3 DEF TreesKept, StagingInv, Granted
<1>2. CASE dest' = dest
  BY <1>2, SameTrees
<1> QED
  BY <1>1, <1>2 DEF Launch, Ending, Begin, EnvReady, CommandReady, StartContained, Staged, CreateContained,
     CreateRestricted, CreateFallback, Assign, UserUnknown, ApplyPolicy, WorkerEnds, WaitReturns,
     TerminateTree, CloseJob, stagingVars, files

LEMMA LaunchKeeps ==
  ASSUME TypeInv, TypeInv', StagingInv, NEW t \in Threads, Launch(t) \/ Ending(t)
  PROVE  StagingInv'
<1>1. TreesKept
  BY LaunchTrees
<1>2. /\ hasSid' = hasSid /\ staging' = staging
      /\ call'[t] = call[t] \/ call'[t].at \in {"none", "root"}
      /\ \A u \in Threads \ {t} : call'[u] = call[u]
  BY LaunchCalls
<1>3. RunGoesOn(t)
  BY LaunchGoesOn
<1>4. ASSUME NEW u \in Threads
      PROVE  Built(u)'
  <2>1. CASE call'[u] = call[u]
    BY <1>2, <2>1 DEF StagingInv, Built
  <2>2. CASE call'[u].at \in {"none", "root"}
    BY <2>2, NotBuildingAfter DEF CopySteps
  <2> QED BY <1>2, <2>1, <2>2
<1>5. ASSUME NEW u \in Threads
      PROVE  ReadsOK(u)'
  <2>1. ASSUME call'[u].at = "returned"
        PROVE  Readable(u, call[u].key)' /\ call'[u].key = call[u].key
    <3>1. call'[u] = call[u]
      BY <1>2, <2>1
    <3>2. Readable(u, call[u].key) /\ call[u].key \in Versions
      BY <2>1, <3>1 DEF StagingInv, ReadsOK, TypeInv, KeyKnown
    <3>3. Readable(u, call[u].key)'
      BY <1>1, <1>2, <3>1, <3>2 DEF Readable, TreesKept
    <3> QED BY <3>1, <3>3
  <2>2. ASSUME run'[u].exe # None
        PROVE  Readable(u, run[u].exe)'
    <3>1. PICK v \in Versions : v = run'[u].exe /\ Readable(u, v)
      <4>1. CASE run'[u].exe = run[u].exe
        BY <2>2, <4>1 DEF StagingInv, ReadsOK, TypeInv, LaunchTyping, RunType
      <4>2. CASE call[u].at = "returned" /\ run'[u].exe = call[u].key
        BY <4>2 DEF StagingInv, ReadsOK, TypeInv, KeyKnown
      <4> QED BY <1>3, <2>2, <4>1, <4>2 DEF RunGoesOn
    <3> QED BY <1>1, <1>2, <3>1 DEF Readable, TreesKept
  <2>3. run'[u].at \in Granting => hasSid'[Owner[u]]
    BY <1>2, <1>3 DEF RunGoesOn, StagingInv, ReadsOK, Granting
  <2> QED BY <2>1, <2>2, <2>3 DEF ReadsOK, Granting
<1>6. Granted(staging)'
  BY <1>2 DEF StagingInv, Granted
<1> QED BY <1>1, <1>4, <1>5, <1>6, KeptIsKept DEF StagingInv

\* A crash of the one process leaves nobody in a call, and the trees as they are.
LEMMA CrashKeeps ==
  ASSUME OneProcess, TypeInv, TypeInv', StagingInv, NEW p \in Procs, Crash(p)
  PROVE  StagingInv'
<1>1. TreesKept
  BY CrashFacts, SameTrees DEF TypeInv
<1>2. ASSUME NEW t \in Threads
      PROVE  Built(t)' /\ ReadsOK(t)'
  <2>1. CASE Owner[t] = p
    <3>1. call'[t].at = "none" /\ run'[t].exe = None /\ run'[t].at = "idle"
      <4>1. call'[t] = NoCall /\ run'[t] = NoRun
        BY <2>1, CrashFacts DEF TypeInv
      <4> QED BY <4>1 DEF NoCall, NoRun
    <3> QED BY <3>1, NotBuildingAfter DEF ReadsOK, CopySteps
  <2>2. CASE Owner[t] # p
    <3>1. /\ call'[t] = call[t] /\ run'[t] = run[t] /\ dest' = dest /\ staging' = staging
          /\ hasSid'[Owner[t]] = hasSid[Owner[t]]
      BY <2>2, CrashFacts, OwnerAssumption DEF TypeInv
    <3>2. Built(t)'
      BY <3>1 DEF StagingInv, Built
    <3>3. ReadsOK(t)'
      BY <3>1 DEF StagingInv, ReadsOK, Readable
    <3> QED BY <3>2, <3>3
  <2> QED BY <2>1, <2>2
<1>3. Granted(staging)'
  BY CrashFacts DEF TypeInv, StagingInv, Granted
<1> QED BY <1>1, <1>2, <1>3, KeptIsKept DEF StagingInv

LEMMA StagingStep ==
  ASSUME OneProcess, TypeInv, TypeInv', LockHeld, StagingInv, [Next]_vars
  PROVE  StagingInv'
<1>1. ASSUME NEW t \in Threads, Staging(t)
      PROVE  StagingInv'
  BY <1>1, EnsureKeeps DEF Staging, launchVars
<1>2. ASSUME NEW t \in Threads, Launch(t) \/ Ending(t)
      PROVE  StagingInv'
  BY <1>2, LaunchKeeps
<1>3. ASSUME NEW p \in Procs, Crash(p)
      PROVE  StagingInv'
  BY <1>3, CrashKeeps
<1>4. CASE (Edit /\ UNCHANGED launchVars) \/ UNCHANGED vars
  <2>1. dest' = dest /\ staging' = staging /\ hasSid' = hasSid /\ call' = call /\ run' = run
    BY <1>4 DEF Edit, vars, stagingVars, launchVars, files, memory
  <2> QED BY <2>1 DEF StagingInv, Granted, Built, ReadsOK, Readable
<1> QED BY <1>1, <1>2, <1>3, <1>4 DEF Next, Finished

-----------------------------------------------------------------------------
(* The worker a run holds *)

\* What a run says of its worker: how it was created, whether it is in the job,
\* and what the policy claims; and that nothing in the job outlives the run.
Knows(r, w, lost) ==
  /\ r.at \in {"assign", "policy", "wait", "close"} => w.mech = r.mech
  /\ r.at \in {"policy", "wait", "close"} /\ r.assigned => w.inJob
  /\ r.claims = IF r.at \in {"wait", "close"} THEN Claims(r) ELSE NoClaims
  /\ r.at = "over" => ~InJobAlive(w) /\ ~lost

RunInv == \A t \in Threads : Knows(run[t], worker[t], orphan[t])

\* A worker in an AppContainer may read what it was started from.
ContainedReads == \A t \in Threads : worker[t].mech = "appcontainer" => worker[t].readable

LEMMA NothingKnown ==
  ASSUME NEW at \in RunStates \ {"assign", "policy", "wait", "close", "over"}, NEW w, NEW lost,
         NEW r, r.at = at, r.claims = NoClaims
  PROVE  Knows(r, w, lost)
BY DEF Knows, RunStates

\* Before there is a worker nothing is claimed.
LEMMA PrepareKnows ==
  ASSUME TypeInv, RunInv, NEW t \in Threads,
         Begin(t) \/ EnvReady(t) \/ CommandReady(t) \/ StartContained(t) \/ Staged(t) \/ GrantTree(t)
  PROVE  Knows(run'[t], worker'[t], orphan'[t])
<1>1. run[t] \in RunType /\ Knows(run[t], worker[t], orphan[t])
  BY DEF TypeInv, LaunchTyping, RunInv
<1>2. ASSUME NEW at \in RunStates \ {"assign", "policy", "wait", "close", "over"},
             run'[t].at = at, run'[t].claims \in {run[t].claims, NoClaims}, run[t].at \notin {"wait", "close"}
      PROVE  Knows(run'[t], worker'[t], orphan'[t])
  <2>1. run'[t].claims = NoClaims
    BY <1>1, <1>2 DEF Knows
  <2> QED BY <1>2, <2>1, NothingKnown
<1>3. CASE Begin(t)
  <2>1. run'[t] = [NoRun EXCEPT !.at = "env", !.path = source]
    BY <1>3 DEF Begin, TypeInv, LaunchTyping
  <2>2. run'[t].at = "env" /\ run'[t].claims = NoClaims /\ run[t].at = "idle"
    BY <1>3, <2>1 DEF Begin, NoRun
  <2> QED BY <1>2, <2>2 DEF RunStates
<1>4. CASE EnvReady(t)
  <2>1. run'[t] = [run[t] EXCEPT !.at = "command"] /\ run[t].at = "env"
    BY <1>4 DEF EnvReady, TypeInv, LaunchTyping
  <2> QED BY <1>1, <1>2, <2>1 DEF RunType, RunStates
<1>5. CASE CommandReady(t)
  <2>1. run'[t] = [run[t] EXCEPT !.at = "appcontainer", !.exe = Executable(t)] /\ run[t].at = "command"
    BY <1>5 DEF CommandReady, TypeInv, LaunchTyping
  <2> QED BY <1>1, <1>2, <2>1 DEF RunType, RunStates
<1>6. CASE StartContained(t) \/ Staged(t) \/ GrantTree(t)
  <2>1. PICK at \in {"prepare", "restricted", "grant", "create"} : Step(t, at)
    BY <1>6 DEF StartContained, Staged, GrantTree, PreparationFails
  <2>2. run'[t] = [run[t] EXCEPT !.at = at]
    BY <2>1, StepTyped DEF TypeInv, LaunchTyping, RunStates
  <2>3. run[t].at \in {"appcontainer", "prepare", "grant"}
    BY <1>6 DEF StartContained, Staged, GrantTree
  <2> QED BY <1>1, <1>2, <2>2, <2>3 DEF RunType, RunStates
<1> QED BY <1>3, <1>4, <1>5, <1>6

LEMMA CreationKnows ==
  ASSUME TypeInv, RunInv, NEW t \in Threads,
         CreateContained(t) \/ CreateRestricted(t) \/ CreateFallback(t) \/ UserUnknown(t)
  PROVE  Knows(run'[t], worker'[t], orphan'[t])
<1>1. run[t] \in RunType /\ Knows(run[t], worker[t], orphan[t])
  BY DEF TypeInv, LaunchTyping, RunInv
<1>2. run[t].at \in {"create", "restricted", "fallback", "policy"}
  BY DEF CreateContained, CreateRestricted, CreateFallback, UserUnknown
<1>3. run[t].claims = NoClaims
  BY <1>1, <1>2 DEF Knows
<1>4. ASSUME NEW mech \in {"appcontainer", "restricted_token", "job-only"}, Created(t, mech)
      PROVE  Knows(run'[t], worker'[t], orphan'[t])
  <2>1. /\ run' = [run EXCEPT ![t] = [run[t] EXCEPT !.at = "assign", !.mech = mech]]
        /\ worker'[t].mech = mech
    BY <1>4, CreatedTyped DEF TypeInv
  <2>2. run'[t].at = "assign" /\ run'[t].mech = mech /\ run'[t].claims = NoClaims
    BY <1>1, <1>3, <2>1 DEF RunType, TypeInv, LaunchTyping
  <2> QED BY <2>1, <2>2 DEF Knows
<1>5. CASE Step(t, "restricted") \/ Step(t, "fallback")
  <2>1. PICK at \in {"restricted", "fallback"} : run'[t] = [run[t] EXCEPT !.at = at]
    BY <1>5, StepTyped DEF TypeInv, LaunchTyping, RunStates
  <2>2. run'[t].at = at /\ run'[t].claims = NoClaims
    BY <1>1, <1>3, <2>1 DEF RunType
  <2> QED BY <2>2, NothingKnown DEF RunStates
<1>6. CASE run' = [run EXCEPT ![t] = [NoRun EXCEPT !.at = "failed"]]
  <2>1. run'[t].at = "failed" /\ run'[t].claims = NoClaims
    BY <1>6 DEF NoRun, TypeInv, LaunchTyping
  <2> QED BY <2>1, NothingKnown DEF RunStates
<1> QED BY <1>4, <1>5, <1>6 DEF CreateContained, CreateRestricted, CreateFallback, UserUnknown

\* The policy claims what is known of the worker, until the run is over.
LEMMA EndingKnows ==
  ASSUME TypeInv, RunInv, NEW t \in Threads,
         Assign(t) \/ ApplyPolicy(t) \/ WorkerEnds(t) \/ WaitReturns(t) \/ TerminateTree(t) \/ CloseJob(t)
  PROVE  Knows(run'[t], worker'[t], orphan'[t])
<1>1. /\ run[t] \in RunType /\ worker[t] \in WorkerType /\ Knows(run[t], worker[t], orphan[t])
      /\ worker \in [Threads -> WorkerType] /\ orphan \in [Threads -> BOOLEAN]
  BY DEF TypeInv, LaunchTyping, RunInv
<1>2. CASE Assign(t)
  BY <1>1, <1>2, AssignFacts DEF TypeInv, Knows
<1>3. CASE ApplyPolicy(t)
  BY <1>1, <1>3, ApplyPolicyFacts DEF TypeInv, Knows
<1>4. CASE WorkerEnds(t)
  <2>1. run'[t] = run[t] /\ (orphan'[t] => orphan[t])
    BY <1>1, <1>4 DEF WorkerEnds
  <2>2. worker'[t] \in {worker[t], Killed(worker[t])}
    BY <1>1, <1>4 DEF WorkerEnds
  <2>3. /\ worker'[t].mech = worker[t].mech /\ worker'[t].inJob = worker[t].inJob
        /\ InJobAlive(worker'[t]) => InJobAlive(worker[t])
    BY <1>1, <2>2, KilledTyped DEF InJobAlive
  <2> QED BY <1>1, <2>1, <2>3 DEF Knows
<1>5. CASE WaitReturns(t) \/ TerminateTree(t)
  <2>1. Step(t, "close") /\ run[t].at = "wait"
    BY <1>5 DEF WaitReturns, TerminateTree
  <2>2. run'[t] = [run[t] EXCEPT !.at = "close"]
    BY <2>1, StepTyped DEF TypeInv, LaunchTyping, RunStates
  <2>3. /\ run'[t].at = "close" /\ run'[t].claims = run[t].claims /\ run'[t].mech = run[t].mech
        /\ run'[t].assigned = run[t].assigned /\ run'[t].token = run[t].token
    BY <1>1, <2>2 DEF RunType
  <2>4. worker'[t] \in {worker[t], Killed(worker[t]), KilledWithJob(worker[t])}
    BY <1>1, <1>5 DEF WaitReturns, TerminateTree
  <2>5. worker'[t].mech = worker[t].mech /\ worker'[t].inJob = worker[t].inJob
    BY <1>1, <2>4, KilledTyped
  <2>6. Claims(run'[t]) = Claims(run[t])
    BY <2>3 DEF Claims, JobClaims
  <2> QED BY <1>1, <2>1, <2>3, <2>5, <2>6 DEF Knows
<1>6. CASE CloseJob(t)
  <2>1. run'[t] = [NoRun EXCEPT !.at = "over"] /\ worker'[t] = Left(KilledWithJob(worker[t])) /\ ~orphan'[t]
    BY <1>1, <1>6 DEF CloseJob, Over, TypeInv, LaunchTyping
  <2>2. run'[t].at = "over" /\ run'[t].claims = NoClaims
    BY <2>1 DEF NoRun
  <2>3. ~InJobAlive(worker'[t])
    BY <1>1, <2>1, KilledTyped DEF NoWorker, InJobAlive
  <2> QED BY <2>1, <2>2, <2>3 DEF Knows
<1> QED BY <1>2, <1>3, <1>4, <1>5, <1>6

\* The run of a thread leaves the workers of the others alone.
LEMMA WorkersApart ==
  ASSUME TypeInv, NEW t \in Threads, Launch(t) \/ Ending(t)
  PROVE  \A u \in Threads \ {t} :
           run'[u] = run[u] /\ worker'[u] = worker[u] /\ orphan'[u] = orphan[u]
<1>1. \A u \in Threads \ {t} : run'[u] = run[u]
  BY LaunchGoesOn DEF RunGoesOn
<1>2. CASE \E mech \in {"appcontainer", "restricted_token", "job-only"} : Created(t, mech) /\ orphan' = orphan
  BY <1>2 DEF Created, TypeInv, LaunchTyping
<1>3. CASE Assign(t)
  BY <1>3, AssignFacts DEF TypeInv
<1>4. CASE UserUnknown(t) \/ Ending(t)
  BY <1>4, EndingFacts DEF TypeInv, Ending
<1>5. CASE Begin(t) \/ EnvReady(t) \/ CommandReady(t) \/ StartContained(t) \/ Staged(t) \/ GrantTree(t)
             \/ ApplyPolicy(t)
  BY <1>1, <1>5 DEF Begin, EnvReady, CommandReady, StartContained, Staged, GrantTree, ApplyPolicy
<1>6. CASE CreateContained(t) \/ CreateRestricted(t) \/ CreateFallback(t)
  <2>1. orphan' = orphan
    BY <1>6 DEF CreateContained, CreateRestricted, CreateFallback
  <2>2. CASE UNCHANGED worker
    BY <1>1, <2>1, <2>2
  <2> QED BY <1>1, <1>2, <1>6, <2>1, <2>2 DEF CreateContained, CreateRestricted, CreateFallback
<1> QED BY <1>3, <1>4, <1>5, <1>6 DEF Launch

LEMMA InitKnows == Init => RunInv
<1>1. NoRun.at = "idle" /\ NoRun.claims = NoClaims
  BY DEF NoRun
<1> QED BY <1>1, NothingKnown DEF Init, RunInv, RunStates

LEMMA RunStep ==
  ASSUME TypeInv, RunInv, [Next]_vars
  PROVE  RunInv'
<1>1. ASSUME NEW t \in Threads, Launch(t) \/ Ending(t)
      PROVE  RunInv'
  <2>1. Knows(run'[t], worker'[t], orphan'[t])
    BY <1>1, PrepareKnows, CreationKnows, EndingKnows DEF Launch, Ending
  <2>2. \A u \in Threads \ {t} : Knows(run'[u], worker'[u], orphan'[u])
    BY <1>1, WorkersApart DEF RunInv
  <2> QED BY <2>1, <2>2 DEF RunInv
<1>2. ASSUME NEW p \in Procs, Crash(p)
      PROVE  RunInv'
  <2>1. Knows(NoRun, NoWorker, FALSE)
    BY NothingKnown DEF NoRun, RunStates
  <2>2. \A t \in Threads : \/ run'[t] = NoRun /\ worker'[t] = NoWorker /\ orphan'[t] = FALSE
                           \/ run'[t] = run[t] /\ worker'[t] = worker[t] /\ orphan'[t] = orphan[t]
    BY <1>2, CrashFacts DEF TypeInv
  <2> QED BY <2>1, <2>2 DEF RunInv
<1>3. CASE UNCHANGED launchVars
  BY <1>3 DEF launchVars, RunInv
<1> QED BY <1>1, <1>2, <1>3 DEF Next, Staging, Finished, vars

\* A worker is created in an AppContainer where there is a SID, from an
\* interpreter that is there: the tree was made readable before it was published.
LEMMA ContainedStep ==
  ASSUME TypeInv, StagingInv, ContainedReads, [Next]_vars
  PROVE  ContainedReads'
<1>1. ASSUME NEW t \in Threads, Launch(t) \/ Ending(t)
      PROVE  ContainedReads'
  <2> SUFFICES worker'[t].mech = "appcontainer" => worker'[t].readable
    BY <1>1, WorkersApart DEF ContainedReads
  <2>1. worker[t] \in WorkerType /\ worker \in [Threads -> WorkerType]
    BY DEF TypeInv, LaunchTyping
  <2>2. CASE CreateContained(t) /\ Created(t, "appcontainer")
    <3>1. /\ worker'[t].readable = IF run[t].exe = None THEN TRUE ELSE dest[run[t].exe].ace
          /\ run[t].exe # None => "exe" \in dest[run[t].exe].parts
      BY <2>2, CreatedTyped DEF TypeInv
    <3>2. hasSid[Owner[t]] /\ (run[t].exe # None => Readable(t, run[t].exe))
      BY <2>2 DEF CreateContained, StagingInv, ReadsOK
    <3> QED BY <3>1, <3>2 DEF Readable
  <2>3. ASSUME NEW mech \in {"restricted_token", "job-only"}, Created(t, mech)
        PROVE  worker'[t].mech = "appcontainer" => worker'[t].readable
    BY <2>3, CreatedTyped DEF TypeInv
  <2>4. CASE Assign(t)
    BY <2>4, AssignFacts DEF TypeInv, ContainedReads
  <2>5. CASE UserUnknown(t)
    BY <2>1, <2>5 DEF UserUnknown, NoWorker
  <2>6. CASE worker'[t] \in {worker[t], Killed(worker[t]), KilledWithJob(worker[t])}
    BY <2>1, <2>6, KilledTyped DEF ContainedReads
  <2>7. CASE CloseJob(t)
    <3>1. worker'[t] = Left(KilledWithJob(worker[t]))
      BY <2>1, <2>7 DEF CloseJob
    <3> QED BY <2>1, <3>1, KilledTyped DEF NoWorker
  <2>8. CASE WorkerEnds(t) \/ WaitReturns(t) \/ TerminateTree(t)
    BY <2>1, <2>6, <2>8 DEF WorkerEnds, WaitReturns, TerminateTree
  <2>9. CASE UNCHANGED worker
    BY <2>6, <2>9
  <2> QED
    BY <1>1, <2>2, <2>3, <2>4, <2>5, <2>7, <2>8, <2>9 DEF Launch, Ending, Begin, EnvReady, CommandReady,
       StartContained, Staged, GrantTree, CreateContained, CreateRestricted, CreateFallback, ApplyPolicy
<1>2. ASSUME NEW p \in Procs, Crash(p)
      PROVE  ContainedReads'
  <2>1. NoWorker.mech = "none"
    BY DEF NoWorker
  <2>2. \A t \in Threads : worker'[t] \in {worker[t], NoWorker}
    BY <1>2, CrashFacts DEF TypeInv
  <2> QED BY <2>1, <2>2 DEF ContainedReads
<1>3. CASE UNCHANGED launchVars
  BY <1>3 DEF launchVars, ContainedReads
<1> QED BY <1>1, <1>2, <1>3 DEF Next, Staging, Finished, vars

-----------------------------------------------------------------------------
(* The invariant *)

IInv ==
  /\ TypeInv /\ LockHeld /\ RunInv
  /\ OneProcess => StagingInv /\ ContainedReads

LEMMA InitIInv == Init => IInv
<1> SUFFICES ASSUME Init
             PROVE  IInv
  OBVIOUS
<1>1. TypeInv /\ RunInv
  BY InitTyped, InitKnows
<1>2. LockHeld
  BY DEF Init, StagingInit, LockHeld, NoCall, LockedSteps, CopySteps
<1>3. StagingInv
  <2>1. /\ \A v \in Versions : ~dest[v].acl /\ ~staging[v].acl
        /\ \A t \in Threads : call[t].at = "none" /\ run[t].exe = None /\ run[t].at = "idle"
    BY DEF Init, StagingInit, NoTree, NoCall, NoRun
  <2>2. \A t \in Threads : Built(t)
    BY <1>1, <2>1, NotBuilding DEF CopySteps
  <2> QED BY <2>1, <2>2 DEF StagingInv, Granted, ReadsOK
<1>4. ContainedReads
  BY DEF Init, NoWorker, ContainedReads
<1> QED BY <1>1, <1>2, <1>3, <1>4 DEF IInv

LEMMA NextIInv == IInv /\ [Next]_vars => IInv'
<1> SUFFICES ASSUME IInv, [Next]_vars
             PROVE  IInv'
  OBVIOUS
<1>1. TypeInv' /\ LockHeld' /\ RunInv'
  BY TypeStep, LockStep, RunStep DEF IInv
<1>2. OneProcess => StagingInv' /\ ContainedReads'
  BY TypeStep, StagingStep, ContainedStep DEF IInv
<1> QED BY <1>1, <1>2 DEF IInv, OneProcess

\* A call that stood before os.replace returns by publishing.
LEMMA PublishOnly ==
  ASSUME TypeInv, [Next]_vars, NEW t \in Threads, call[t].at = "publish", call'[t].at = "returned"
  PROVE  Publish(t)
<1>1. ASSUME NEW u \in Threads, Staging(u)
      PROVE  Publish(t)
  <2>1. u = t
    BY <1>1, EnsureCall DEF Staging
  <2>2. CASE CopyFails(t)
    BY <2>2, GotoTyped DEF CopyFails, Abandon, Raise, TypeInv, StagingType
  <2>3. ~(Remove(t) \/ Mark(t) \/ CopyPackage(t) \/ CopyLibraries(t) \/ CopyRoot(t) \/ Grant(t)
            \/ Clear(t) \/ Stage(t) \/ TakeLock(t) \/ FastCheck(t) \/ FindRoot(t))
    BY DEF Remove, Mark, CopyPackage, CopyLibraries, CopyRoot, Grant, Clear, Stage, TakeLock, FastCheck,
       FindRoot
  <2> QED BY <1>1, <2>1, <2>2, <2>3 DEF Staging, EnsureStep
<1>2. ASSUME NEW u \in Threads, Launch(u) \/ Ending(u)
      PROVE  FALSE
  BY <1>2, LaunchCalls
<1>3. ASSUME NEW p \in Procs, Crash(p)
      PROVE  FALSE
  <2>1. call'[t] = NoCall \/ call'[t] = call[t]
    BY <1>3, CrashFacts DEF TypeInv
  <2> QED BY <2>1 DEF NoCall
<1>4. CASE Edit \/ UNCHANGED vars
  BY <1>4 DEF Edit, vars, stagingVars
<1> QED BY <1>1, <1>2, <1>3, <1>4 DEF Next, Finished

\* The invariant the theorems below rest on: types, who holds the lock, how far
\* the tree under construction is, what a run knows of its worker.
THEOREM Invariant == Spec => []IInv
BY InitIInv, NextIInv, PTL DEF Spec

\* In one process a tree that is published has the marker of the call that built
\* it, python.exe and all the call copied, and a package no older than the marker;
\* whatever is left over, passed over, crashed or edited meanwhile.
THEOREM PublishedWhole == Spec => (OneProcess => PublishedIsWhole)
<1> SUFFICES ASSUME OneProcess
             PROVE  Spec => PublishedIsWhole
  OBVIOUS
<1>1. IInv /\ [Next]_vars =>
        [\A t \in Threads :
           LET tree == dest'[call[t].key]
           IN call[t].at = "publish" /\ call'[t].at = "returned" /\ tree.mark # None =>
                /\ tree.mark = call[t].fp
                /\ call[t].copied \ {"app"} \subseteq tree.parts /\ "exe" \in tree.parts
                /\ "app" \in call[t].copied => tree.app >= tree.mark]_vars
  <2> SUFFICES ASSUME IInv, [Next]_vars, NEW t \in Threads,
                      call[t].at = "publish", call'[t].at = "returned"
               PROVE  LET tree == dest'[call[t].key]
                      IN /\ tree.mark = call[t].fp
                         /\ call[t].copied \ {"app"} \subseteq tree.parts /\ "exe" \in tree.parts
                         /\ "app" \in call[t].copied => tree.app >= tree.mark
    OBVIOUS
  <2>1. Publish(t)
    BY PublishOnly DEF IInv
  <2>2. call[t].key \in Versions /\ dest \in [Versions -> TreeType]
    BY DEF IInv, TypeInv, KeyKnown, StagingType, LockedSteps, CopySteps
  <2>3. dest'[call[t].key] = staging[call[t].key]
    BY <2>1, <2>2 DEF Publish, SetDest
  <2>4. BuiltAs(call[t], staging[call[t].key], hasSid[Owner[t]])
    BY DEF IInv, StagingInv, Built
  <2> QED BY <2>3, <2>4 DEF BuiltAs, AfterApp, AfterMark
<1> QED BY <1>1, Invariant, PTL DEF Spec, PublishedIsWhole

\* In one process a worker in an AppContainer may read its interpreter.
THEOREM ContainedReadable == Spec => [](OneProcess => ContainedCanRead)
<1>1. IInv => (OneProcess => ContainedCanRead)
  BY DEF IInv, ContainedReads, ContainedCanRead
<1> QED BY <1>1, Invariant, PTL

\* In one process what the policy calls enforced holds for the worker.
THEOREM ClaimsBacked == Spec => [](OneProcess => ClaimsAreBacked)
<1>1. IInv => (OneProcess => ClaimsAreBacked)
  <2> SUFFICES ASSUME IInv, OneProcess, NEW t \in Threads
               PROVE  LET claims == run[t].claims
                          w == worker[t]
                      IN /\ "enforced" \in {claims.tree, claims.creation} => w.inJob
                         /\ claims.creation = "enforced" => ProcessLimit = 1
                         /\ claims.fs = "enforced" => w.mech = "appcontainer" /\ w.readable
    BY DEF ClaimsAreBacked
  <2>1. Knows(run[t], worker[t], orphan[t]) /\ (worker[t].mech = "appcontainer" => worker[t].readable)
    BY DEF IInv, RunInv, ContainedReads
  <2>2. CASE run[t].at \in {"wait", "close"}
    BY <2>1, <2>2 DEF Knows, Claims, JobClaims, NoClaims
  <2>3. CASE run[t].at \notin {"wait", "close"}
    BY <2>1, <2>3 DEF Knows, NoClaims
  <2> QED BY <2>2, <2>3
<1> QED BY <1>1, Invariant, PTL

\* What was put into the job of a run does not outlive the run.
THEOREM JobBounds == Spec => []JobBoundsWorkers
<1>1. IInv => JobBoundsWorkers
  BY DEF IInv, RunInv, Knows, JobBoundsWorkers
<1> QED BY <1>1, Invariant, PTL
=============================================================================
