--------------------------- MODULE RuntimeStaging ---------------------------
(***************************************************************************)
(* The staged interpreter of the Windows workers (isolate/winruntime.py),  *)
(* and what a process remembers of granting access to it                   *)
(* (isolate/acl_prep.py).                                                  *)
(*                                                                         *)
(* The interpreter, its libraries and the exsoftware package are copied    *)
(* into <TEMP>/exsoftware-isolate/runtime/<key>, where an AppContainer may *)
(* read them.  The key holds the fingerprint of the package, here its      *)
(* version: an edited checkout is staged anew.  A tree is built in         *)
(* <key>.staging and renamed.  The directories outlive the processes and   *)
(* are shared by them; the lock and the ACL cache belong to one process.   *)
(*                                                                         *)
(* The actions are the steps of ensure_staged_cpython, taken by a thread   *)
(* between any two of which other threads and processes may take theirs.   *)
(* The module that EXTENDS this one makes the calls and takes the results. *)
(***************************************************************************)
EXTENDS Integers, FiniteSets

CONSTANTS
  Threads,    \* threads that run workers
  Procs,      \* processes
  Owner,      \* the process a thread belongs to
  MaxEdits,   \* bound: how often the package is edited
  Leftovers   \* sets of entries that may be left of a directory when rmtree is over,
              \* or halfway: all there are, or those a run looks at

ASSUME OwnerAssumption == Owner \in [Threads -> Procs]
ASSUME EditsAssumption == MaxEdits \in Nat
ASSUME LeftoversAssumption == Leftovers \subseteq SUBSET {"exe", "lib", "app", "mark", "acl"}

Versions == 1 .. MaxEdits + 1
None == 0     \* no version: nothing there
NoThread == "no thread"
ASSUME ThreadAssumption == NoThread \notin Threads

\* What copy_runtime copies before the package: the root files with python.exe;
\* DLLs, Lib and the required site packages.
Parts == {"exe", "lib"}
Copies == Parts \cup {"app"}

\* A directory: what is in it, the version of the package, the fingerprint in
\* .exsoftware-runtime-complete, .acl-<sid>, and the inheritable ACE.
TreeType ==
  [exists : BOOLEAN, parts : SUBSET Parts, app : Versions \cup {None},
   mark : Versions \cup {None}, acl : BOOLEAN, ace : BOOLEAN]

NoTree ==
  [exists |-> FALSE, parts |-> {}, app |-> None, mark |-> None, acl |-> FALSE, ace |-> FALSE]
EmptyTree == [NoTree EXCEPT !.exists = TRUE]

\* What is left of a directory by rmtree with ignore_errors, and seen by others
\* meanwhile: no order of the entries is promised, and one that cannot be removed
\* (a running worker has it open) stays, and with it the directory and its ACE.
Remains(tree) ==
  {NoTree} \cup
  {[tree EXCEPT !.parts = @ \cap left, !.app = IF "app" \in left THEN @ ELSE None,
      !.mark = IF "mark" \in left THEN @ ELSE None, !.acl = @ /\ "acl" \in left] : left \in Leftovers}

VARIABLES
  source,    \* version of the package in the checkout
  dest,      \* published trees, by the version in their key
  staging,   \* <key>.staging
  aclDone,   \* acl-cache/<key>.done (and _success_keys, which never hold more)
  hasSid,    \* the AppContainer SID can be had in this process
  lock,      \* _LOCK: who holds it
  failed,    \* PROCESS_ACL_CACHE._failure: is there one?
  call       \* the call of ensure_staged_cpython a thread is in

files == <<dest, staging>>
memory == <<hasSid, lock, failed>>
stagingVars == <<source, files, aclDone, memory, call>>

CopySteps == {"exe", "lib", "app", "mark", "remove", "publish"}
LockedSteps == CopySteps \cup {"stage", "clear", "grant"}

CallType ==
  [at : LockedSteps \cup {"none", "root", "check", "lock", "returned", "raised"},
   key : Versions \cup {None},   \* staged_python_root()
   fp : Versions \cup {None},    \* app_fingerprint
   copied : SUBSET Copies]       \* what this call copied; it may find nothing to copy

NoCall == [at |-> "none", key |-> None, fp |-> None, copied |-> {}]

StagingInit ==
  /\ source = 1
  /\ dest = [v \in Versions |-> NoTree]
  /\ staging = [v \in Versions |-> NoTree]
  /\ aclDone = {}
  /\ hasSid \in [Procs -> BOOLEAN]
  /\ lock = [p \in Procs |-> NoThread]
  /\ failed = [p \in Procs |-> FALSE]
  /\ call = [t \in Threads |-> NoCall]

-----------------------------------------------------------------------------
(* ensure_staged_cpython *)

Goto(t, at) == call' = [call EXCEPT ![t].at = at]

\* How the call ended; what it worked with is not needed any more.
Result(t, outcome) == call' = [call EXCEPT ![t].at = outcome, ![t].fp = None, ![t].copied = {}]

\* "with _LOCK" is left.
Release(t) == lock' = [lock EXCEPT ![Owner[t]] = NoThread]

\* The complete marker names this package, python.exe is there, and the ACL
\* marker too where there is a SID.
Usable(t, fp) ==
  LET tree == dest[call[t].key]
  IN tree.mark = fp /\ "exe" \in tree.parts /\ (hasSid[Owner[t]] => tree.acl)

\* dest = staged_python_root(), which fingerprints the package ...
FindRoot(t) ==
  /\ call[t].at = "root"
  /\ call' = [call EXCEPT ![t] = [NoCall EXCEPT !.at = "check", !.key = source]]
  /\ UNCHANGED <<source, files, aclDone, memory>>

\* ... it is fingerprinted again, and the tree is checked without the lock.
FastCheck(t) ==
  /\ call[t].at = "check"
  /\ IF Usable(t, source) THEN Result(t, "returned")
     ELSE call' = [call EXCEPT ![t].at = "lock", ![t].fp = source]
  /\ UNCHANGED <<source, files, aclDone, memory>>

Return(t) ==
  /\ Result(t, "returned") /\ Release(t)
  /\ UNCHANGED <<hasSid, failed>>

\* The exception leaves the lock; the failure may be remembered.
Raise(t, remembered) ==
  /\ Result(t, "raised") /\ Release(t)
  /\ failed' = IF remembered THEN [failed EXCEPT ![Owner[t]] = TRUE] ELSE failed
  /\ UNCHANGED hasSid

\* No lock is taken.
MutantTakeLock(t) ==
  /\ call[t].at = "lock"
  /\ IF Usable(t, call[t].fp) THEN Result(t, "returned") /\ UNCHANGED lock
     ELSE Goto(t, "stage") /\ lock' = [lock EXCEPT ![Owner[t]] = t]
  /\ UNCHANGED <<source, files, aclDone, hasSid, failed>>

\* "with _LOCK", and the tree is checked again.
TakeLock(t) ==
  /\ call[t].at = "lock" /\ lock[Owner[t]] = NoThread
  /\ IF Usable(t, call[t].fp) THEN Result(t, "returned") /\ UNCHANGED lock
     ELSE Goto(t, "stage") /\ lock' = [lock EXCEPT ![Owner[t]] = t]
  /\ UNCHANGED <<source, files, aclDone, hasSid, failed>>

-----------------------------------------------------------------------------
(* stage_cpython_tree *)

\* The fingerprint is taken once more, and the tree checked once more.
Stage(t) ==
  /\ call[t].at = "stage"
  /\ LET fp == source
         ready == Usable(t, fp)
         refused == failed[Owner[t]]      \* raise_if_failed
     IN IF ready THEN Result(t, "returned") /\ Release(t)
        ELSE IF refused THEN Result(t, "raised") /\ Release(t)
        ELSE call' = [call EXCEPT ![t].at = "clear", ![t].fp = fp] /\ UNCHANGED lock
  /\ UNCHANGED <<source, files, aclDone, hasSid, failed>>

SetStaging(t, tree) == staging' = [staging EXCEPT ![call[t].key] = tree]

\* rmtree(ignore_errors), and mkdir, which takes what is still there.
Clear(t) ==
  /\ call[t].at = "clear"
  /\ \E left \in Remains(staging[call[t].key]) : SetStaging(t, [left EXCEPT !.exists = TRUE])
  /\ Goto(t, IF hasSid[Owner[t]] THEN "grant" ELSE "exe")
  /\ UNCHANGED <<source, dest, aclDone, memory>>

\* except BaseException: rmtree(staging, ignore_errors), raise.
Abandon(t, remembered) ==
  /\ \E left \in Remains(staging[call[t].key]) : SetStaging(t, left)
  /\ Raise(t, remembered)
  /\ UNCHANGED <<source, dest, aclDone>>

\* A grant that returns false is let pass.
MutantGrant(t) ==
  /\ call[t].at = "grant"
  /\ \/ /\ staging[call[t].key].exists
        /\ SetStaging(t, [staging[call[t].key] EXCEPT !.ace = TRUE])
        /\ Goto(t, "exe")
        /\ UNCHANGED <<source, dest, aclDone, memory>>
     \/ Goto(t, "exe") /\ UNCHANGED <<source, files, aclDone, memory>>
     \/ Abandon(t, TRUE)

\* The inheritable ACE, before anything is copied.  icacls may fail or time out.
Grant(t) ==
  /\ call[t].at = "grant"
  /\ \/ /\ staging[call[t].key].exists
        /\ SetStaging(t, [staging[call[t].key] EXCEPT !.ace = TRUE])
        /\ Goto(t, "exe")
        /\ UNCHANGED <<source, dest, aclDone, memory>>
     \/ Abandon(t, TRUE)

\* copy_runtime and copytree make a directory that is gone again, without the ACE.
Copied(tree, part) == [tree EXCEPT !.exists = TRUE, !.parts = @ \cup {part}]

\* The call goes on, having copied this.
Did(t, part, at) == call' = [call EXCEPT ![t].at = at, ![t].copied = @ \cup {part}]

CopyRoot(t) ==
  /\ call[t].at = "exe"
  /\ SetStaging(t, Copied(staging[call[t].key], "exe")) /\ Did(t, "exe", "lib")
  /\ UNCHANGED <<source, dest, aclDone, memory>>

\* Nothing is copied, and nobody is told.
PassOver(t, at) == UNCHANGED staging /\ Goto(t, at)

\* The libraries and the site packages.  A directory that is not there or cannot
\* be listed is passed over, and so is an entry of which something was left.
CopyLibraries(t) ==
  /\ call[t].at = "lib"
  /\ \/ SetStaging(t, Copied(staging[call[t].key], "lib")) /\ Did(t, "lib", "app")
     \/ PassOver(t, "app")
  /\ UNCHANGED <<source, dest, aclDone, memory>>

\* The package as it is now, if it is there, and then: is python.exe there?
CopyPackage(t) ==
  /\ call[t].at = "app" /\ "exe" \in staging[call[t].key].parts
  /\ \/ /\ SetStaging(t, [staging[call[t].key] EXCEPT !.app = source])
        /\ Did(t, "app", "mark")
     \/ PassOver(t, "mark")
  /\ UNCHANGED <<source, dest, aclDone, memory>>

\* The markers, with the fingerprint taken before the copy; without a SID a left
\* ACL marker stays.
Mark(t) ==
  /\ call[t].at = "mark" /\ staging[call[t].key].exists
  /\ SetStaging(t, [staging[call[t].key] EXCEPT !.mark = call[t].fp, !.acl = @ \/ hasSid[Owner[t]]])
  /\ Goto(t, "remove")
  /\ UNCHANGED <<source, dest, aclDone, memory>>

SetDest(t, tree) == dest' = [dest EXCEPT ![call[t].key] = tree]

\* The old tree goes, in any number of steps and in any order.
Remove(t) ==
  /\ call[t].at = "remove"
  /\ \E left \in Remains(dest[call[t].key]) : SetDest(t, left)
  /\ Goto(t, "publish") \/ UNCHANGED call
  /\ UNCHANGED <<source, staging, aclDone, memory>>

\* os.replace: on Windows the target directory must be gone.
Publish(t) ==
  /\ call[t].at = "publish" /\ staging[call[t].key].exists /\ ~dest[call[t].key].exists
  /\ SetDest(t, staging[call[t].key]) /\ SetStaging(t, NoTree)
  /\ Return(t)
  /\ UNCHANGED <<source, aclDone>>

\* Any step of the copy may fail (disk full, a file that cannot be read, a
\* directory another process removed, an old tree that is still there): here, only ACL failures are remembered.
CopyFails(t) ==
  /\ call[t].at \in CopySteps
  /\ Abandon(t, FALSE)

EnsureStep(t) ==
  \/ FindRoot(t) \/ FastCheck(t) \/ TakeLock(t)
  \/ Stage(t) \/ Clear(t) \/ Grant(t)
  \/ CopyRoot(t) \/ CopyLibraries(t) \/ CopyPackage(t)
  \/ Mark(t) \/ Remove(t) \/ Publish(t) \/ CopyFails(t)

\* The developer edits the package.
Edit ==
  /\ source <= MaxEdits
  /\ source' = source + 1
  /\ UNCHANGED <<files, aclDone, memory, call>>
=============================================================================
