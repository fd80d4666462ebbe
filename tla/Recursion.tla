------------------------------ MODULE Recursion ------------------------------
(***************************************************************************)
(* One report: the root file and everything found inside it, each content  *)
(* (SHA-256) once (pipeline.py, recursion.py, investigation.py).           *)
(*                                                                         *)
(* The recursion of _walk_container_members is an explicit stack of        *)
(* frames, one per file that is being analyzed.  A ZIP-family file is      *)
(* opened by a contained worker (ContainerBroker), whose outcome is a      *)
(* choice here; then the analyzers run, then its members are walked.  The  *)
(* archive analyzer's run records are followed in detail, because the      *)
(* recursion writes its own findings into them; the other analyzers are    *)
(* one step.                                                               *)
(***************************************************************************)
EXTENDS Integers, Sequences, FiniteSets, SequencesExt

CONSTANTS
  Contents,  \* file contents, by SHA-256
  Root,      \* the submitted one
  Universes, \* what the contents may be: functions from Contents to FileType
  Depths     \* values of max_depth

MemberStatus ==
  {"extracted", "directory", "encrypted", "path_traversal", "rejected_size_limit",
   "not_processed_member_limit", "malformed"}

\* A member: how extraction went, and its content if it was extracted.
MemberType ==
  {m \in [status : MemberStatus, content : Contents \cup {"none"}] :
     m.status = "extracted" <=> m.content # "none"}

Types == {"plain", "tar", "ole", "zip", "office"}

FileType ==
  [kind : Types, members : Seq(MemberType),
   truncated : BOOLEAN]

ASSUME ContentsAssumption == IsFiniteSet(Contents)   \* there are 2^256 SHA-256 values
ASSUME RootAssumption == Root \in Contents
ASSUME UniverseAssumption ==
  \A u \in Universes : u \in [Contents -> FileType]
ASSUME DepthAssumption == Depths \subseteq Nat

VARIABLES
  files,      \* what the contents are, in this run
  maxDepth, recursion,  \* limits.max_depth, limits.enable_recursion
  stack,      \* the calls in progress, innermost last
  artifacts,  \* file artifacts of the report
  contains,   \* CONTAINS relationships; a stub target is "none"
  runs,       \* archive analyzer runs, in order
  started,    \* which of them had the archive analyzer really started
  findings,   \* findings of the recursion, by artifact
  brokers,    \* broker workers started, in order
  analyzed    \* artifacts the analyzers were run on, in order

setting == <<files, maxDepth, recursion>>
runVars == <<runs, started, findings>>
vars == <<setting, stack, artifacts, contains, runVars, brokers, analyzed>>

-----------------------------------------------------------------------------
(* Calls and records *)

\* A file about to be analyzed; PK magic is "zip" until the listing is known.
MagicType(c) == IF files[c].kind = "office" THEN "zip" ELSE files[c].kind

Frame(c, depth) ==
  [content |-> c, depth |-> depth, at |-> "open", inspected |-> FALSE, type |-> MagicType(c),
   next |-> Len(files[c].members) + 1]

Top == Last(stack)
At(place) == stack # << >> /\ Top.at = place
SetTop(frame) == stack' = Append(Front(stack), frame)

Run(c, status) == [artifact |-> c, status |-> status]

\* The j-th archive run is the last one of artifact c.
LastRun(c, j) ==
  runs[j].artifact = c /\ \A k \in (j + 1)..Len(runs) : runs[k].artifact # c

(***************************************************************************)
(* _ingest_limit, for each of a set of findings: they are ingested as the  *)
(* result, "completed", of the artifact's last archive run, and of a new   *)
(* one if there is none.                                                   *)
(***************************************************************************)
IngestLimits(c, ids) ==
  /\ findings' = findings \cup {[artifact |-> c, id |-> i] : i \in ids}
  /\ \/ ids = {} /\ UNCHANGED runs
     \/ /\ ids # {} /\ \A j \in DOMAIN runs : runs[j].artifact # c
        /\ runs' = Append(runs, Run(c, "completed"))
     \/ /\ ids # {}
        /\ \E j \in DOMAIN runs :
             LastRun(c, j) /\ runs' = [runs EXCEPT ![j] = Run(c, "completed")]
  /\ UNCHANGED started

FindingFor ==
  [encrypted |-> "archive.encrypted-members", path_traversal |-> "archive.path-traversal",
   rejected_size_limit |-> "rec.limit-member",
   not_processed_member_limit |-> "rec.limit-count", malformed |-> "rec.malformed-member"]

\* members_from_container: what is said about the members recursion cannot enter.
MemberFindings(file) ==
  {FindingFor[file.members[j].status] :
     j \in {k \in DOMAIN file.members :
              file.members[k].status \notin {"extracted", "directory"}}}
  \cup (IF file.truncated THEN {"rec.limit-count"} ELSE {})

Broker(c, kind, status) == [artifact |-> c, kind |-> kind, status |-> status]

Init ==
  /\ files \in Universes /\ maxDepth \in Depths /\ recursion \in BOOLEAN
  /\ stack = <<Frame(Root, 0)>>
  /\ artifacts = {Root} /\ contains = {}
  /\ runs = << >> /\ started = {} /\ findings = {}
  /\ brokers = << >> /\ analyzed = << >>

-----------------------------------------------------------------------------
(* _maybe_open_container, _maybe_refine_ole *)

\* Not a ZIP-family file: nothing to open.
PassUnopened ==
  /\ At("open") /\ Top.type # "zip"
  /\ SetTop([Top EXCEPT !.at = IF Top.type = "ole" THEN "refine" ELSE "analyze"])
  /\ UNCHANGED <<setting, artifacts, contains, runVars, brokers, analyzed>>

\* Mutant: the cap goes unmentioned.
MutantSilentCap ==
  /\ At("open") /\ Top.type = "zip" /\ Top.depth >= maxDepth
  /\ SetTop([Top EXCEPT !.at = "analyze"])
  /\ UNCHANGED <<setting, artifacts, contains, runVars, brokers, analyzed>>

StopAtDepth ==
  /\ At("open") /\ Top.type = "zip" /\ Top.depth >= maxDepth
  /\ IngestLimits(Top.content, IF recursion THEN {"rec.limit-depth"} ELSE {})
  /\ SetTop([Top EXCEPT !.at = "analyze"])
  /\ UNCHANGED <<setting, artifacts, contains, brokers, analyzed>>

\* The worker did not complete: identity stays "zip", the file counts as inspected.
OpenFails ==
  /\ At("open") /\ Top.type = "zip" /\ Top.depth < maxDepth
  /\ \E status \in {"failed", "timeout"} :
       /\ brokers' = Append(brokers, Broker(Top.content, "zip", status))
       /\ IngestLimits(Top.content, {IF status = "timeout" THEN "rec.container-timeout"
                                     ELSE "archive.bad-zip"})
  /\ SetTop([Top EXCEPT !.at = "analyze", !.inspected = TRUE])
  /\ UNCHANGED <<setting, artifacts, contains, analyzed>>

\* The listing refines the type; office documents are not expanded.
OpenContainer ==
  /\ At("open") /\ Top.type = "zip" /\ Top.depth < maxDepth
  /\ brokers' = Append(brokers, Broker(Top.content, "zip", "completed"))
  /\ LET file == files[Top.content]
         expand == recursion /\ file.kind = "zip"
     IN /\ IngestLimits(Top.content, IF expand THEN MemberFindings(file) ELSE {})
        /\ SetTop([Top EXCEPT !.at = "analyze", !.inspected = TRUE, !.type = file.kind,
                              !.next = IF expand THEN 1 ELSE @])
  /\ UNCHANGED <<setting, artifacts, contains, analyzed>>

RefineOle ==
  /\ At("refine")
  /\ \E status \in {"completed", "failed", "timeout"} :
       brokers' = Append(brokers, Broker(Top.content, "ole", status))
  /\ SetTop([Top EXCEPT !.at = "analyze"])
  /\ UNCHANGED <<setting, artifacts, contains, runVars, analyzed>>

-----------------------------------------------------------------------------
(* _run_analyzers *)

\* Mutant: the archive analyzer runs on every ZIP.
MutantNeverCovered(frame) == frame.type = "zip" /\ frame.inspected /\ ~recursion

CoveredByContainer(frame) == recursion /\ frame.type = "zip" /\ frame.inspected

Eligible(frame) == frame.type \in {"zip", "office", "tar"}

RunAnalyzers ==
  /\ At("analyze")
  /\ analyzed' = Append(analyzed, Top.content)
  /\ \/ /\ ~Eligible(Top)
        /\ runs' = Append(runs, Run(Top.content, "unsupported"))
        /\ UNCHANGED started
     \/ /\ Eligible(Top) /\ CoveredByContainer(Top)
        /\ runs' = Append(runs, Run(Top.content, "skipped"))
        /\ UNCHANGED started
     \/ /\ Eligible(Top) /\ ~CoveredByContainer(Top)
        /\ \E status \in {"completed", "failed", "timeout"} :
             runs' = Append(runs, Run(Top.content, status))
        /\ started' = started \cup {Len(runs')}
  /\ SetTop([Top EXCEPT !.at = "walk"])
  /\ UNCHANGED <<setting, artifacts, contains, findings, brokers>>

-----------------------------------------------------------------------------
(* _walk_container_members *)

Member == files[Top.content].members[Top.next]
AtMember(status) ==
  At("walk") /\ Top.next <= Len(files[Top.content].members) /\ Member.status \in status

\* Mutant: the walk counts a member that it links twice.
MutantAdvanceTwice == [Top EXCEPT !.next = @ + IF Member.status = "extracted" THEN 2 ELSE 1]

Advance == [Top EXCEPT !.next = @ + 1]
Edge(child) == [parent |-> Top.content, index |-> Top.next, child |-> child]

PassDirectory ==
  /\ AtMember({"directory"})
  /\ SetTop(Advance)
  /\ UNCHANGED <<setting, artifacts, contains, runVars, brokers, analyzed>>

\* Mutant: encrypted members are passed over like directories.
MutantEncryptedPassed ==
  /\ AtMember(MemberStatus \ {"extracted", "directory"})
  /\ contains' = IF Member.status = "encrypted" THEN contains
                 ELSE contains \cup {Edge("none")}
  /\ SetTop(Advance)
  /\ UNCHANGED <<setting, artifacts, runVars, brokers, analyzed>>

\* Traversal, encrypted, over a limit, damaged: a stub stands for the member.
StubMember ==
  /\ AtMember(MemberStatus \ {"extracted", "directory"})
  /\ contains' = contains \cup {Edge("none")}
  /\ SetTop(Advance)
  /\ UNCHANGED <<setting, artifacts, runVars, brokers, analyzed>>

\* Content the report already has is linked, noted, and not analyzed again.
LinkDuplicate ==
  /\ AtMember({"extracted"}) /\ Member.content \in artifacts
  /\ contains' = contains \cup {Edge(Member.content)}
  /\ IngestLimits(Top.content, {"rec.duplicate"})
  /\ SetTop(Advance)
  /\ UNCHANGED <<setting, artifacts, brokers, analyzed>>

\* Mutant: the member's context starts again at depth 0.
MutantDepthLost ==
  /\ AtMember({"extracted"}) /\ Member.content \notin artifacts
  /\ contains' = contains \cup {Edge(Member.content)}
  /\ artifacts' = artifacts \cup {Member.content}
  /\ stack' = Append(Append(Front(stack), Advance), Frame(Member.content, 0))
  /\ UNCHANGED <<setting, runVars, brokers, analyzed>>

\* Mutant: the content becomes an artifact only when its analysis is over.
MutantLateArtifact ==
  /\ AtMember({"extracted"}) /\ Member.content \notin artifacts
  /\ contains' = contains \cup {Edge(Member.content)}
  /\ artifacts' = artifacts \cup {f.content : f \in {stack[j] : j \in DOMAIN stack}}
  /\ stack' = Append(Append(Front(stack), Advance), Frame(Member.content, Top.depth + 1))
  /\ UNCHANGED <<setting, runVars, brokers, analyzed>>

Descend ==
  /\ AtMember({"extracted"}) /\ Member.content \notin artifacts
  /\ contains' = contains \cup {Edge(Member.content)}
  /\ artifacts' = artifacts \cup {Member.content}
  /\ stack' = Append(Append(Front(stack), Advance), Frame(Member.content, Top.depth + 1))
  /\ UNCHANGED <<setting, runVars, brokers, analyzed>>

Return ==
  /\ At("walk") /\ Top.next > Len(files[Top.content].members)
  /\ stack' = Front(stack)
  /\ UNCHANGED <<setting, artifacts, contains, runVars, brokers, analyzed>>

\* The report is built: the program is done.
Finished == stack = << >> /\ UNCHANGED vars

Next ==
  \/ PassUnopened \/ StopAtDepth \/ OpenFails \/ OpenContainer \/ RefineOle
  \/ RunAnalyzers \/ PassDirectory \/ StubMember \/ LinkDuplicate \/ Descend
  \/ Return \/ Finished

Spec == Init /\ [][Next]_vars

-----------------------------------------------------------------------------
(* Properties *)

Places == {"open", "refine", "analyze", "walk"}
RunStatus == {"completed", "failed", "timeout", "skipped", "unsupported"}

FrameType ==
  [content : Contents, depth : Nat, at : Places, inspected : BOOLEAN, type : Types, next : Nat]
RunType == [artifact : Contents, status : RunStatus]
BrokerType == [artifact : Contents, kind : {"zip", "ole"}, status : RunStatus]

TypeOK ==
  /\ files \in Universes /\ maxDepth \in Depths /\ recursion \in BOOLEAN
  /\ stack \in Seq(FrameType)
  /\ \A j \in DOMAIN stack : stack[j].next \in 1..(Len(files[stack[j].content].members) + 1)
  /\ artifacts \subseteq Contents
  /\ contains \subseteq [parent : Contents, index : Nat, child : Contents \cup {"none"}]
  /\ runs \in Seq(RunType) /\ started \subseteq DOMAIN runs
  /\ brokers \in Seq(BrokerType)
  /\ analyzed \in Seq(Contents)

Done == stack = << >>

(***************************************************************************)
(* However often a content occurs, and even if an archive contains itself, *)
(* the analyzers run on it once, and on every content of the report        *)
(* (PIPELINE.md: every class is recorded for every artifact).              *)
(***************************************************************************)
AnalyzedOnce ==
  /\ \A j, k \in DOMAIN analyzed : analyzed[j] = analyzed[k] => j = k
  /\ Done => {analyzed[j] : j \in DOMAIN analyzed} = artifacts

(***************************************************************************)
(* Calls never nest deeper than max_depth + 1, and a container that is in  *)
(* the middle of being walked is above the cap.                            *)
(***************************************************************************)
NestingBounded ==
  /\ Len(stack) <= maxDepth + 1
  /\ \A j \in DOMAIN stack : stack[j].depth = j - 1

Expanded(c) ==
  /\ recursion /\ files[c].kind = "zip"
  /\ Broker(c, "zip", "completed") \in Range(brokers)

\* The relationship of the i-th member of c.
MemberEdge(c, i) == [parent |-> c, index |-> i, child |-> files[c].members[i].content]

(***************************************************************************)
(* In the report, each member of an expanded container except directories  *)
(* has its CONTAINS relationship: to its content if it was extracted, to a *)
(* stub if not.  No other relationship exists.                             *)
(***************************************************************************)
EveryMemberLinked ==
  Done =>
    contains = UNION {{MemberEdge(c, i) :
                         i \in {j \in DOMAIN files[c].members :
                                  files[c].members[j].status # "directory"}} :
                      c \in {d \in artifacts : Expanded(d)}}

Explained(c) ==
  \/ Expanded(c)
  \/ \E f \in findings :
       f.artifact = c /\ f.id \in {"rec.limit-depth", "rec.container-timeout",
                                   "archive.bad-zip"}

(***************************************************************************)
(* A ZIP that was not expanded although recursion is on has a finding that *)
(* says why: the depth cap, or the worker's failure.                       *)
(***************************************************************************)
UnexpandedIsExplained ==
  Done /\ recursion =>
    \A c \in artifacts : files[c].kind = "zip" => Explained(c)

(***************************************************************************)
(* The record of an archive run whose worker was really started is never   *)
(* overwritten by the recursion's own findings: its status and isolation   *)
(* details are what the report's worker inventory is built from.           *)
(***************************************************************************)
StartedRunKept == [][\A j \in started : runs'[j] = runs[j]]_vars

(***************************************************************************)
(* PIPELINE.md: an analyzer run is "completed" if the analyzer "Ran".      *)
(***************************************************************************)
CompletedMeansRan ==
  Done => \A j \in DOMAIN runs : runs[j].status = "completed" => j \in started

(***************************************************************************)
(* The archive analyzer is skipped, says its run record, because the       *)
(* container worker has already listed the members.                        *)
(***************************************************************************)
SkippedMeansListed ==
  \A j \in DOMAIN runs :
    runs[j].status = "skipped" =>
      Broker(runs[j].artifact, "zip", "completed") \in Range(brokers)

-----------------------------------------------------------------------------
(* The inductive invariant behind the properties that hold *)

Analyzed == Range(analyzed)

\* The artifact that is known but has not been analyzed: that of the innermost call.
Pending == IF Done \/ Top.at = "walk" THEN {} ELSE {Top.content}

\* All calls but the innermost are walking their members, each of another file.
CallsInOrder ==
  /\ \A j \in DOMAIN stack :
       stack[j].at = "walk" => stack[j].content \in Analyzed
  /\ \A j \in DOMAIN stack : j # Len(stack) => stack[j].at = "walk"
  /\ \A j, k \in DOMAIN stack : stack[j].content = stack[k].content => j = k

\* A frame whose members may be entered.
Enterable(frame) ==
  /\ frame.depth < maxDepth /\ CoveredByContainer(frame)
  /\ frame.at # "open" /\ Expanded(frame.content)

\* Only a file above the cap that the container worker has listed has members to walk.
WalkedWasOpened ==
  \A j \in DOMAIN stack :
    stack[j].next <= Len(files[stack[j].content].members) => Enterable(stack[j])

\* Workers are started for known artifacts; the innermost call's has not been opened before.
FirstOpening ==
  /\ \A b \in Range(brokers) : b.artifact \in artifacts
  /\ At("open") =>
       /\ Top.type = MagicType(Top.content)
       /\ \A b \in Range(brokers) : b.artifact # Top.content

KnownOrAnalyzed ==
  /\ artifacts = Analyzed \cup Pending /\ Analyzed \cap Pending = {}
  /\ \A j, k \in DOMAIN analyzed : analyzed[j] = analyzed[k] => j = k

\* A run that was started is not one that members are noted in.
StartedUncovered ==
  \A j \in started :
    /\ runs[j].artifact \in Analyzed
    /\ \A k \in DOMAIN stack :
         stack[k].content = runs[j].artifact => ~CoveredByContainer(stack[k])

ExplainedOnceOpened ==
  recursion =>
    \A c \in artifacts :
      files[c].kind = "zip" => Explained(c) \/ (At("open") /\ Top.content = c)

\* The walk has come past member i of the expanded container c, which is no directory.
Linked(c, i) ==
  /\ Expanded(c) /\ files[c].members[i].status # "directory"
  /\ \A k \in DOMAIN stack : stack[k].content = c => i < stack[k].next

\* The relationships are those of the members the walk has come past.
LinkedSoFar ==
  /\ \A e \in contains : \E c \in Contents : \E i \in DOMAIN files[c].members :
       Linked(c, i) /\ e = MemberEdge(c, i)
  /\ \A c \in Contents : \A i \in DOMAIN files[c].members :
       Linked(c, i) => MemberEdge(c, i) \in contains

IInv ==
  /\ TypeOK /\ NestingBounded /\ CallsInOrder /\ WalkedWasOpened /\ FirstOpening
  /\ KnownOrAnalyzed /\ StartedUncovered /\ ExplainedOnceOpened /\ LinkedSoFar

-----------------------------------------------------------------------------
(* How much is left to do *)

\* The steps a call of a file with so many members has before it, its return counted:
\* it may enter every member once.
StepsFrom(place, next, members) ==
  IF place = "open" THEN members + 4
  ELSE members + 1 - next + [refine |-> 3, analyze |-> 2, walk |-> 1][place]

StepsLeft(frame) == StepsFrom(frame.at, frame.next, Len(files[frame.content].members))

\* A content that has not been met may cost one more: the step that enters it.
Unmet(c) == IF c \in artifacts THEN 0 ELSE Len(files[c].members) + 5

WorkLeft ==
  SumFunction([c \in Contents |-> Unmet(c)])
    + SumFunction([j \in DOMAIN stack |-> StepsLeft(stack[j])])

(***************************************************************************)
(* No content is given to a broker's worker twice, so that a report starts *)
(* at most one such worker for each file it names.                         *)
(***************************************************************************)
OpenedOnce ==
  \A j, k \in DOMAIN brokers : brokers[j].artifact = brokers[k].artifact => j = k

(***************************************************************************)
(* No analysis goes on for ever: every step of it, whatever workers answer *)
(* and however archives contain each other or themselves, lowers a natural *)
(* number that the contents alone determine at the start.                  *)
(***************************************************************************)
AnalysisRunsDown == [][WorkLeft' < WorkLeft /\ WorkLeft' \in Nat]_vars

=============================================================================
