-------------------------- MODULE ContainerBroker --------------------------
(***************************************************************************)
(* Inspecting one ZIP-family container: the contained worker lists and     *)
(* extracts the members into numbered blob slots                           *)
(* (isolate/container_extract.py), answers with one row per listed member, *)
(* and the parent validates that answer (isolate/container_protocol.py),   *)
(* reads the slots itself and counts their bytes again                     *)
(* (isolate/container_runner.py), and turns the rows into candidates for   *)
(* recursion (recursion.py).                                               *)
(*                                                                         *)
(* Both sides enforce the same limits, each in its own way.  The worker    *)
(* may be honest, may fail at any point, or may answer anything at all.    *)
(* How it is started, timed and torn down is WorkerRun's subject.          *)
(***************************************************************************)
EXTENDS Integers, Sequences, FiniteSets, Functions

CONSTANTS
  Entries,     \* what a member of the archive may be
  MaxEntries,  \* bound: members of an archive
  Limits,      \* the limits a run may be given (RecursionLimits)
  Defaults,    \* run_extract's fallbacks for limits that are 0
  Chunk,       \* bytes per read (65536)
  Slack,       \* rows the parent takes beyond the list limit (8)
  RogueStatuses, RogueSlots,  \* what the rows of a worker that is not honest may say
  RogueSizes   \* sizes of the files it may leave in the slots

LimitNames == {"list", "members", "blobs", "member_bytes", "total", "workspace", "ratio"}

EntryType ==
  [directory : BOOLEAN, encrypted : BOOLEAN, traversal : BOOLEAN, office : BOOLEAN,
   named : BOOLEAN,  \* its name is one the parent takes: not empty, not too long
   size : Nat, packed : Nat, breaks : Nat]

EXTRACTION_STATUSES ==
  {"extracted", "directory", "encrypted", "path_traversal", "malformed",
   "rejected_size_limit", "rejected_ratio", "rejected_workspace_budget",
   "not_processed_member_limit", "not_processed_list_cap", "skipped"}

NoSlot == 0

ASSUME EntriesAssumption == Entries \subseteq EntryType
ASSUME BoundAssumption == MaxEntries \in Nat /\ Slack \in Nat /\ Chunk \in Nat \ {0}
ASSUME LimitsAssumption ==
  \A l \in Limits \cup {Defaults} :
    l["contents"] \in BOOLEAN /\ \A n \in LimitNames : l[n] \in Nat
ASSUME DefaultsAssumption == \A n \in LimitNames : Defaults[n] > 0
ASSUME RogueAssumption ==
  RogueSizes \subseteq Nat /\ RogueSlots \subseteq Nat

VARIABLES
  archive,    \* the members of the submitted container, in central-directory order
  limits,     \* this run's limits
  worker,     \* where the worker is
  row,        \* the row the worker is at
  rows,       \* its answer: per listed member a status and a blob slot
  names,      \* and whether the name in that row is one the parent takes
  blobs,      \* the files under blobs/: slot -> bytes
  nextSlot, extractedCount, extractedBytes, hitMemberLimit,
  written,    \* bytes written so far of the member being extracted
  honest,     \* the worker runs container_extract
  parent,     \* where the parent is
  item,       \* the row it ingests next
  budget,     \* bytes it has counted against the limits
  listed,     \* its own rows (ListedMember)
  kept        \* bytes of the blobs attached to them

setting == <<archive, limits>>
counters == <<nextSlot, extractedCount, extractedBytes, hitMemberLimit>>
workerVars == <<worker, row, rows, names, blobs, counters, written, honest>>
parentVars == <<parent, item, budget, listed, kept>>
vars == <<setting, workerVars, parentVars>>

Smaller(a, b) == IF a < b THEN a ELSE b

\* The limit as the worker computes it: int(limits.get(name) or default).
Effective(name) ==
  IF limits[name] # 0 THEN limits[name]
  ELSE IF name = "workspace" /\ limits["total"] # 0 THEN limits["total"]
  ELSE IF name = "blobs" /\ limits["members"] # 0 THEN limits["members"]
  ELSE IF name = "workspace" THEN Defaults["total"]
  ELSE IF name = "blobs" THEN Defaults["members"]
  ELSE Defaults[name]

ExtractCap == Smaller(Effective("members"), Effective("blobs"))

\* Mutant: only one of the two byte limits is used.
MutantOneLimit == Effective("total")

ByteBudget == Smaller(Effective("total"), Effective("workspace"))

\* refine_zip_type_from_names sees an office document in the listed names.
Office(n) == \E j \in 1..n : archive[j].office

Row(status, slot) == [status |-> status, slot |-> slot]

-----------------------------------------------------------------------------
(* The worker *)

Init ==
  /\ \E n \in 0..MaxEntries : archive \in [1..n -> Entries]
  /\ limits \in Limits
  /\ worker = "open" /\ row = 1 /\ rows = << >> /\ names = << >> /\ blobs = << >>
  /\ nextSlot = 1 /\ extractedCount = 0 /\ extractedBytes = 0 /\ hitMemberLimit = FALSE
  /\ written = 0 /\ honest = TRUE
  /\ parent = "waiting" /\ item = 1 /\ budget = 0 /\ listed = << >> /\ kept = 0

\* Rows of a container that is only listed, not extracted.
ListedOnly(e) ==
  IF e.directory THEN "directory"
  ELSE IF e.encrypted THEN "encrypted"
  ELSE IF e.traversal THEN "path_traversal" ELSE "skipped"

\* The names go out as the archive has them.
ListMembers ==
  /\ worker = "open"
  /\ LET n == Smaller(Len(archive), Effective("list"))
         listOnly == ~limits["contents"] \/ Office(n)
     IN /\ rows' = [j \in 1..n |->
                      Row(IF listOnly THEN ListedOnly(archive[j]) ELSE "skipped", NoSlot)]
        /\ names' = [j \in 1..n |-> archive[j].named]
        /\ worker' = IF listOnly THEN "answered" ELSE "rows"
  /\ UNCHANGED <<setting, row, blobs, counters, written, honest, parentVars>>

SetRow(status, slot) ==
  /\ rows' = [rows EXCEPT ![row] = Row(status, slot)]
  /\ row' = row + 1

\* Members that are never opened, in the order run_extract asks.
PassOver ==
  /\ worker = "rows" /\ row <= Len(rows)
  /\ LET e == archive[row]
         barred == e.directory \/ e.encrypted \/ e.traversal
         full == hitMemberLimit \/ extractedCount >= ExtractCap
     IN \/ barred /\ SetRow(ListedOnly(e), NoSlot) /\ UNCHANGED hitMemberLimit
        \/ /\ ~barred /\ full
           /\ SetRow("not_processed_member_limit", NoSlot) /\ hitMemberLimit' = TRUE
        \/ /\ ~barred /\ ~full /\ ByteBudget - extractedBytes <= 0
           /\ SetRow("rejected_workspace_budget", NoSlot) /\ UNCHANGED hitMemberLimit
  /\ UNCHANGED <<setting, worker, blobs, nextSlot, extractedCount, extractedBytes, written,
                 names, honest, parentVars>>

\* The destination is only created when the member could be opened.
StartMember ==
  /\ worker = "rows" /\ row <= Len(rows)
  /\ ~(archive[row].directory \/ archive[row].encrypted \/ archive[row].traversal)
  /\ ~hitMemberLimit /\ extractedCount < ExtractCap
  /\ ByteBudget - extractedBytes > 0
  /\ worker' = "copy" /\ written' = 0
  /\ blobs' = [s \in DOMAIN blobs \cup {nextSlot} |-> IF s = nextSlot THEN 0 ELSE blobs[s]]
  /\ UNCHANGED <<setting, row, rows, counters, names, honest, parentVars>>

\* Mutant: the file of a rejected member is left behind.
MutantFileLeft == UNCHANGED blobs

\* dest.unlink(missing_ok=True)
Unlink == blobs' = [s \in DOMAIN blobs \ {nextSlot} |-> blobs[s]]

\* Mutant: the bytes of a rejected member are taken off the total.
MutantRefund(status) ==
  /\ SetRow(status, NoSlot) /\ Unlink /\ worker' = "rows"
  /\ extractedBytes' = extractedBytes - written
  /\ UNCHANGED <<nextSlot, extractedCount, hitMemberLimit, written>>

Reject(status) ==
  /\ SetRow(status, NoSlot)
  /\ Unlink
  /\ worker' = "rows"
  /\ UNCHANGED <<counters, written>>

NextChunk == Smaller(Chunk, Smaller(archive[row].size, archive[row].breaks) - written)

\* src.read raises: a damaged member.
MemberBreaks ==
  /\ worker = "copy"
  /\ written >= archive[row].breaks
  /\ Reject("malformed")
  /\ UNCHANGED <<setting, names, honest, parentVars>>

\* The chunk is counted first and written only if it fits.
CopyChunk ==
  /\ worker = "copy"
  /\ written < archive[row].breaks /\ written < archive[row].size
  /\ LET total == written + NextChunk
     IN \/ total > Effective("member_bytes") /\ Reject("rejected_size_limit")
        \/ /\ total <= Effective("member_bytes")
           /\ total > ByteBudget - extractedBytes /\ Reject("rejected_workspace_budget")
        \/ /\ total <= Effective("member_bytes") /\ total <= ByteBudget - extractedBytes
           /\ written' = total
           /\ blobs' = [blobs EXCEPT ![nextSlot] = total]
           /\ UNCHANGED <<worker, row, rows, counters>>
  /\ UNCHANGED <<setting, names, honest, parentVars>>

\* End of the member: the compression ratio decides.
FinishMember ==
  /\ worker = "copy"
  /\ written < archive[row].breaks /\ written = archive[row].size
  /\ LET packed == IF archive[row].packed = 0 THEN 1 ELSE archive[row].packed
     IN \/ written > Effective("ratio") * packed /\ Reject("rejected_ratio")
        \/ /\ written <= Effective("ratio") * packed
           /\ SetRow("extracted", nextSlot)
           /\ nextSlot' = nextSlot + 1
           /\ extractedCount' = extractedCount + 1
           /\ extractedBytes' = extractedBytes + written
           /\ worker' = "rows"
           /\ UNCHANGED <<blobs, written, hitMemberLimit>>
  /\ UNCHANGED <<setting, names, honest, parentVars>>

Answer ==
  /\ worker = "rows" /\ row > Len(rows)
  /\ worker' = "answered"
  /\ UNCHANGED <<setting, row, rows, blobs, counters, written, names, honest, parentVars>>

\* Not a ZIP, an exception, a crash, no worker at all, an answer that is not out in time:
\* nothing "completed" for the parent to read.
WorkerFails ==
  /\ worker \in {"open", "rows", "copy"}
  /\ worker' = "failed"
  /\ UNCHANGED <<setting, row, rows, blobs, counters, written, names, honest, parentVars>>

\* A worker that is not honest: any rows, any files in the slots.  It needs no
\* archive for that, so only the empty one is explored (a bound).
AnswerRogue ==
  /\ worker = "open" /\ Len(archive) = 0
  /\ worker' = "answered" /\ honest' = FALSE
  /\ \E n \in 0..MaxEntries :
       /\ rows' \in [1..n -> [status : RogueStatuses, slot : RogueSlots]]
       /\ names' \in [1..n -> BOOLEAN]
  /\ \E slots \in SUBSET (1..MaxEntries) : blobs' \in [slots -> RogueSizes]
  /\ UNCHANGED <<setting, row, counters, written, parentVars>>

Worker ==
  \/ ListMembers \/ PassOver \/ StartMember \/ MemberBreaks \/ CopyChunk
  \/ FinishMember \/ Answer \/ WorkerFails \/ AnswerRogue

-----------------------------------------------------------------------------
(* The parent *)

ExtractedBefore(j) == {m \in 1..(j - 1) : rows[m].status = "extracted"}

\* Mutant: an extracted member may name any slot.
MutantAnySlot(j) ==
  /\ rows[j].status \in EXTRACTION_STATUSES
  /\ rows[j].status # "extracted" => rows[j].slot = NoSlot

\* Mutant: slots are counted over all rows.
MutantSlotPerRow(j) ==
  /\ rows[j].status \in EXTRACTION_STATUSES
  /\ rows[j].slot = IF rows[j].status = "extracted" THEN j ELSE NoSlot

\* Slots are the parent's own count, never the worker's choice.
SlotInOrder(j) ==
  /\ rows[j].status \in EXTRACTION_STATUSES
  /\ rows[j].slot = IF rows[j].status = "extracted"
                    THEN Cardinality(ExtractedBefore(j)) + 1 ELSE NoSlot

\* _validate_member
ValidMember(j) == names[j] /\ SlotInOrder(j)

\* The cap on rows is the list limit, as given, and a little more.  One row that is
\* not valid is the end of the whole answer.
ValidResponse == Len(rows) <= limits["list"] + Slack /\ \A j \in 1..Len(rows) : ValidMember(j)

Validate ==
  /\ parent = "waiting"
  /\ \/ worker = "answered" /\ ValidResponse /\ parent' = "ingest"
     \/ worker = "answered" /\ ~ValidResponse /\ parent' = "failed"
     \/ worker = "failed" /\ parent' = "failed"
  /\ UNCHANGED <<setting, workerVars, item, budget, listed, kept>>

\* _read_blob: a missing or oversized file raises OSError.
Readable(slot) == slot \in DOMAIN blobs /\ blobs[slot] <= limits["member_bytes"]

Fits(bytes) == bytes <= limits["workspace"] /\ bytes <= limits["total"]

List(status, slot) == listed' = Append(listed, Row(status, slot))

\* Mutant: only the blob itself is held against the limits, not the running total.
MutantNoRunningTotal ==
  /\ parent = "ingest" /\ item <= Len(rows)
  /\ item' = item + 1
  /\ LET r == rows[item]
     IN IF r.status = "extracted" /\ Readable(r.slot) /\ Fits(blobs[r.slot])
        THEN List("extracted", r.slot) /\ kept' = kept + blobs[r.slot]
        ELSE List(IF r.status = "extracted" THEN "malformed" ELSE r.status, NoSlot)
             /\ UNCHANGED kept
  /\ UNCHANGED <<setting, workerVars, parent, budget>>

\* The blob is counted first; one that does not fit stays counted.
IngestRow ==
  /\ parent = "ingest" /\ item <= Len(rows)
  /\ item' = item + 1
  /\ LET r == rows[item]
     IN \/ /\ r.status # "extracted"
           /\ List(r.status, NoSlot)
           /\ UNCHANGED <<budget, kept>>
        \/ /\ r.status = "extracted" /\ ~Readable(r.slot)
           /\ List("malformed", NoSlot)
           /\ UNCHANGED <<budget, kept>>
        \/ /\ r.status = "extracted" /\ Readable(r.slot)
           /\ budget' = budget + blobs[r.slot]
           /\ \/ /\ Fits(budget')
                 /\ List("extracted", r.slot) /\ kept' = kept + blobs[r.slot]
              \/ /\ ~Fits(budget')
                 /\ List("rejected_workspace_budget", NoSlot) /\ UNCHANGED kept
  /\ UNCHANGED <<setting, workerVars, parent>>

Complete ==
  /\ parent = "ingest" /\ item > Len(rows)
  /\ parent' = "completed"
  /\ UNCHANGED <<setting, workerVars, item, budget, listed, kept>>

Parent == Validate \/ IngestRow \/ Complete

Next == Worker \/ Parent

Spec == Init /\ [][Next]_vars

-----------------------------------------------------------------------------
(* What recursion is given (members_from_container, _skip_for_status) *)

\* A candidate: its bytes, the reason why it has none, and the finding about that.
Candidate(data, skip, finding) == [data |-> data, skip |-> skip, finding |-> finding]

SkipFor ==
  [encrypted |-> Candidate(FALSE, "encrypted", "archive.encrypted-members"),
   path_traversal |-> Candidate(FALSE, "path-traversal", "archive.path-traversal"),
   rejected_size_limit |-> Candidate(FALSE, "member-too-large", "rec.limit-member"),
   rejected_ratio |-> Candidate(FALSE, "compression-ratio", "rec.limit-ratio"),
   rejected_workspace_budget |-> Candidate(FALSE, "total-bytes", "rec.limit-bytes"),
   not_processed_member_limit |-> Candidate(FALSE, "member-count", "rec.limit-count"),
   not_processed_list_cap |-> Candidate(FALSE, "member-count", "rec.limit-count"),
   malformed |-> Candidate(FALSE, "read-error:malformed", "rec.malformed-member"),
   directory |-> Candidate(FALSE, "directory", "none"),
   skipped |-> Candidate(FALSE, "not-extracted", "none")]

CandidateFor(r) ==
  IF r.status = "extracted" THEN Candidate(TRUE, "none", "none") ELSE SkipFor[r.status]

\* Mutant: off by one.
MutantLateTruncation == Len(archive) > Effective("list") + 1

TruncatedListing == Len(archive) > Effective("list")

-----------------------------------------------------------------------------
(* Properties *)

RowType == [status : EXTRACTION_STATUSES \cup RogueStatuses, slot : Nat]

TypeOK ==
  /\ archive \in Seq(Entries) /\ limits \in Limits
  /\ worker \in {"open", "rows", "copy", "answered", "failed"}
  /\ parent \in {"waiting", "ingest", "completed", "failed"}
  /\ row \in Nat \ {0} /\ item \in Nat \ {0}
  /\ rows \in Seq(RowType) /\ names \in Seq(BOOLEAN) /\ listed \in Seq(RowType)
  /\ DOMAIN blobs \subseteq Nat /\ blobs \in [DOMAIN blobs -> Nat]
  /\ nextSlot \in Nat /\ extractedCount \in Nat /\ extractedBytes \in Nat
  /\ written \in Nat /\ budget \in Nat /\ kept \in Nat
  /\ hitMemberLimit \in BOOLEAN /\ honest \in BOOLEAN

\* The bytes in the slots, counted from the files themselves.
SlotBytes == SumFunction(blobs)

(***************************************************************************)
(* An honest worker never has more on disk than the byte limits allow,     *)
(* counting the member it is copying and what it has not yet unlinked.     *)
(* ("max_workspace_bytes is enforced on actual copied bytes by the child", *)
(* ISOLATE_PROTOCOL.md.)                                                   *)
(***************************************************************************)
DiskWithinBudget ==
  honest => SlotBytes <= Effective("total") /\ SlotBytes <= Effective("workspace")

(***************************************************************************)
(* The two sides agree.  The parent refuses what an honest worker answers  *)
(* only, and always, for a name it does not take among the listed ones     *)
(* (one is enough to lose them all), or because the list limit is 0, which *)
(* the worker reads as its default and the parent as it stands.  Else its  *)
(* own count rejects none of the members the worker extracted within its   *)
(* limits, unless a byte limit is 0, with the same two readings.           *)
(***************************************************************************)
Refused ==
  \/ \E j \in 1..Len(rows) : ~archive[j].named
  \/ limits["list"] = 0 /\ Len(rows) > Slack

ByteLimitsGiven == \A n \in {"member_bytes", "total", "workspace"} : limits[n] > 0

HonestAnswerKept ==
  honest /\ worker = "answered" =>
    /\ parent # "waiting" => (parent = "failed" <=> Refused)
    /\ ByteLimitsGiven => \A j \in DOMAIN listed : listed[j] = rows[j]

(***************************************************************************)
(* Whatever the worker answers, the bytes the parent keeps stay within     *)
(* both byte limits and each blob within max_member_bytes.                 *)
(***************************************************************************)
KeptWithinLimits ==
  /\ Fits(kept)
  /\ \A j \in DOMAIN listed :
       listed[j].slot # NoSlot => blobs[listed[j].slot] <= limits["member_bytes"]

\* No blob becomes two members, whatever slots the worker names.
SlotUsedOnce ==
  \A j, m \in DOMAIN listed :
    listed[j].slot = listed[m].slot /\ listed[j].slot # NoSlot => j = m

(***************************************************************************)
(* When an honest worker has answered, the files under blobs/ are exactly  *)
(* the slots it names: rejected and damaged members leave nothing behind,  *)
(* and a slot is never reused.                                             *)
(***************************************************************************)
SlotsMatchFiles ==
  honest /\ worker = "answered" =>
    DOMAIN blobs = {rows[j].slot : j \in {m \in DOMAIN rows : rows[m].slot # NoSlot}}

(***************************************************************************)
(* Nothing of a container that was expanded disappears: of each listed     *)
(* member recursion gets the bytes or a reason, and unless it is a         *)
(* directory the report gets a finding; members beyond the listing are     *)
(* announced as truncated.                                                 *)
(***************************************************************************)
NothingLostSilently ==
  honest /\ parent = "completed" /\ limits["contents"] /\ ~Office(Len(rows)) =>
    /\ Len(listed) = Len(archive) \/ TruncatedListing
    /\ \A j \in DOMAIN listed :
         LET c == CandidateFor(listed[j])
         IN c.data \/ c.finding # "none" \/ archive[j].directory

-----------------------------------------------------------------------------
(* The inductive invariant behind KeptWithinLimits and SlotUsedOnce *)

\* The worker works on rows of the archive.
WorkerInBounds ==
  /\ worker \in {"rows", "copy"} => Len(rows) <= Len(archive)
  /\ worker = "copy" => row <= Len(rows)

\* The parent's rows follow an answer that passed validation and does not change.
ListedFollowsRows ==
  /\ Len(listed) = item - 1
  /\ parent \in {"waiting", "failed"} => listed = << >>
  /\ parent \in {"ingest", "completed"} =>
       worker = "answered" /\ ValidResponse /\ Len(listed) <= Len(rows)
  /\ \A j \in DOMAIN listed : listed[j].slot # NoSlot =>
       /\ rows[j].status = "extracted" /\ listed[j].slot = rows[j].slot
       /\ blobs[rows[j].slot] <= limits["member_bytes"]

\* What is kept was counted, and was within the limits when it was.
KeptWasCounted == kept <= budget /\ Fits(kept)

IInv == TypeOK /\ WorkerInBounds /\ ListedFollowsRows /\ KeptWasCounted

-----------------------------------------------------------------------------
(* What an honest worker adds to it, behind DiskWithinBudget,              *)
(* SlotsMatchFiles, HonestAnswerKept and NothingLostSilently               *)

\* The bytes in the first k slots.
BytesUpTo(k) == SumFunctionOnSet(blobs, 1..k)

\* The slots are filled one after the other; only the member being copied is on top.
HonestFiles ==
  honest =>
    /\ nextSlot = extractedCount + 1
    /\ worker # "failed" =>
         DOMAIN blobs = 1..(IF worker = "copy" THEN nextSlot ELSE extractedCount)
    /\ worker = "failed" => DOMAIN blobs \in {1..extractedCount, 1..nextSlot}
    /\ worker = "copy" => blobs[nextSlot] = written
    /\ \A s \in DOMAIN blobs : blobs[s] <= Effective("member_bytes")
    /\ BytesUpTo(extractedCount) = extractedBytes
    /\ extractedBytes <= ByteBudget /\ SlotBytes <= ByteBudget

\* The slots the rows name.
NamedSlots == {rows[j].slot : j \in {m \in DOMAIN rows : rows[m].slot # NoSlot}}

\* But for its name, every row would pass the parent's validation at any time; the rows
\* the worker has not reached say "skipped", those it has passed do not.
HonestRows ==
  honest /\ worker \in {"rows", "copy", "answered"} =>
    /\ Len(rows) = Smaller(Len(archive), Effective("list"))
    /\ \A j \in DOMAIN rows : SlotInOrder(j) /\ names[j] = archive[j].named
    /\ extractedCount = Cardinality(ExtractedBefore(Len(rows) + 1))
    /\ NamedSlots = 1..extractedCount
    /\ worker # "answered" => \A j \in row..Len(rows) : rows[j] = Row("skipped", NoSlot)
    /\ limits["contents"] /\ ~Office(Len(rows)) =>
         /\ worker = "answered" => row > Len(rows)
         /\ \A j \in DOMAIN rows :
              /\ j < row => rows[j].status # "skipped"
              /\ rows[j].status = "directory" => archive[j].directory

\* The parent's total is that of the slots it has taken up.
HonestCount ==
  honest /\ worker = "answered" =>
    /\ parent # "waiting" => (parent = "failed" <=> Refused)
    /\ ByteLimitsGiven =>
         /\ \A j \in DOMAIN listed : listed[j] = rows[j]
         /\ budget = BytesUpTo(Cardinality(ExtractedBefore(item)))

\* The parent gives up on nothing but an answer or a failure, and lists every row,
\* with the worker's status or with its own reason for not keeping the bytes.
ListedToTheEnd ==
  /\ parent = "waiting" => budget = 0
  /\ parent = "failed" => worker \in {"answered", "failed"}
  /\ parent = "completed" => Len(listed) = Len(rows)
  /\ \A j \in DOMAIN listed :
       listed[j].status \in {rows[j].status, "malformed", "rejected_workspace_budget"}

\* AnswerRogue is taken from the start only.
OpenIsUntouched == worker = "open" => row = 1 /\ extractedCount = 0

HInv ==
  /\ IInv /\ HonestFiles /\ HonestRows
  /\ HonestCount /\ ListedToTheEnd /\ OpenIsUntouched

=============================================================================
