----------------------- MODULE ContainerBrokerProofs -----------------------
(***************************************************************************)
(* Proofs about ContainerBroker: what the parent keeps of an answer, from  *)
(* any worker, stays within its limits and takes each blob once.           *)
(*                                                                         *)
(* The worker's steps only need to keep the types: the parent waits until  *)
(* the worker has answered and the answer does not change any more         *)
(* (WorkerKeepsAnswer).  What the parent then lists follows the validated  *)
(* rows, slot by slot, and counts every blob before it keeps it            *)
(* (AppendRow, IngestStep).                                                *)
(***************************************************************************)
EXTENDS ContainerBroker, FiniteSetTheorems, SequenceTheorems, TLAPS

USE DEF setting, counters, workerVars, parentVars

\* Every limit is a natural number, zero replaced by its default or not.
LEMMA LimitTypes ==
  ASSUME limits \in Limits
  PROVE  /\ \A n \in LimitNames : limits[n] \in Nat
         /\ \A n \in LimitNames : Effective(n) \in Nat
         /\ ByteBudget \in Nat
<1>1. \A n \in LimitNames : limits[n] \in Nat /\ Defaults[n] \in Nat
  BY LimitsAssumption
<1>2. \A n \in LimitNames : Effective(n) \in Nat
  BY <1>1 DEF Effective, LimitNames
<1> QED
  BY <1>1, <1>2 DEF ByteBudget, Smaller, LimitNames

\* Sequences as functions.
LEMMA SeqFromFunction ==
  ASSUME NEW S, NEW n \in Nat, NEW f \in [1..n -> S]
  PROVE  f \in Seq(S) /\ Len(f) = n
OBVIOUS

\* Replacing one element of a sequence.
LEMMA RewriteRow ==
  ASSUME NEW S, NEW s \in Seq(S), NEW i \in 1..Len(s), NEW x \in S
  PROVE  [s EXCEPT ![i] = x] \in Seq(S) /\ Len([s EXCEPT ![i] = x]) = Len(s)
OBVIOUS

\* Rewriting the row the worker is at keeps the rows well typed.
LEMMA SetRowType ==
  ASSUME TypeOK, row <= Len(rows), NEW status \in EXTRACTION_STATUSES, NEW slot \in Nat,
         SetRow(status, slot)
  PROVE  rows' \in Seq(RowType) /\ Len(rows') = Len(rows) /\ row' \in Nat \ {0}
<1>1. rows \in Seq(RowType) /\ row \in 1..Len(rows)
  BY DEF TypeOK
<1>2. Row(status, slot) \in RowType
  BY DEF Row, RowType
<1>3. rows' = [rows EXCEPT ![row] = Row(status, slot)] /\ row' = row + 1
  BY DEF SetRow
<1>4. /\ [rows EXCEPT ![row] = Row(status, slot)] \in Seq(RowType)
      /\ Len([rows EXCEPT ![row] = Row(status, slot)]) = Len(rows)
  BY <1>1, <1>2, RewriteRow
<1> QED
  BY <1>3, <1>4 DEF TypeOK

\* Removing the current slot's file keeps the others.
LEMMA UnlinkType ==
  ASSUME TypeOK, Unlink
  PROVE  DOMAIN blobs' \subseteq Nat /\ blobs' \in [DOMAIN blobs' -> Nat]
BY DEF TypeOK, Unlink

\* Rejecting a member keeps rows and files well typed.
LEMMA RejectType ==
  ASSUME TypeOK, row <= Len(rows), NEW status \in EXTRACTION_STATUSES, Reject(status)
  PROVE  /\ rows' \in Seq(RowType) /\ row' \in Nat \ {0}
         /\ DOMAIN blobs' \subseteq Nat /\ blobs' \in [DOMAIN blobs' -> Nat]
         /\ worker' = "rows" /\ Len(rows') = Len(rows)
         /\ UNCHANGED <<counters, written>>
<1>1. NoSlot \in Nat
  BY DEF NoSlot
<1> QED
  BY <1>1, SetRowType, UnlinkType DEF Reject

\* The next chunk is never negative, and the next total is a number of bytes.
LEMMA ChunkType ==
  ASSUME TypeOK, row <= Len(archive),
         written < archive[row].breaks, written < archive[row].size
  PROVE  written + NextChunk \in Nat
<1>1. archive[row] \in Entries
  BY ElementOfSeq DEF TypeOK
<1>2. archive[row].breaks \in Nat /\ archive[row].size \in Nat
  BY <1>1, EntriesAssumption DEF EntryType
<1>3. Smaller(archive[row].size, archive[row].breaks) - written \in Nat
  BY <1>2 DEF Smaller, TypeOK
<1>4. NextChunk \in Nat
  BY <1>3, BoundAssumption DEF NextChunk, Smaller
<1> QED
  BY <1>4 DEF TypeOK

\* A rejected member leaves the state well typed.
LEMMA RejectStep ==
  ASSUME TypeOK, WorkerInBounds, worker = "copy", NEW status \in EXTRACTION_STATUSES,
         Reject(status), UNCHANGED <<setting, names, honest, parentVars>>
  PROVE  TypeOK' /\ WorkerInBounds'
<1>1. row <= Len(rows) /\ Len(rows) <= Len(archive)
  BY DEF WorkerInBounds
<1>2. /\ rows' \in Seq(RowType) /\ row' \in Nat \ {0}
      /\ DOMAIN blobs' \subseteq Nat /\ blobs' \in [DOMAIN blobs' -> Nat]
      /\ worker' = "rows" /\ Len(rows') = Len(rows)
      /\ UNCHANGED <<counters, written>>
  BY <1>1, RejectType
<1> QED
  BY <1>1, <1>2 DEF TypeOK, WorkerInBounds

\* A container that is only listed yields documented statuses (container_extract.py).
LEMMA ListedOnlyType == \A e : ListedOnly(e) \in EXTRACTION_STATUSES
BY DEF ListedOnly, EXTRACTION_STATUSES

-----------------------------------------------------------------------------
(* The worker's steps keep the types; the parent's keep its invariants *)

LEMMA WorkerStep ==
  ASSUME IInv, Worker
  PROVE  TypeOK' /\ WorkerInBounds'
<1>0. TypeOK /\ WorkerInBounds /\ NoSlot \in Nat
  BY DEF IInv, NoSlot
<1>l. Effective("list") \in Nat
  BY <1>0, LimitTypes DEF TypeOK, LimitNames
<1> USE <1>0
<1>1. CASE ListMembers
  <2> DEFINE n == Smaller(Len(archive), Effective("list"))
  <2>1. n \in Nat /\ n <= Len(archive)
    BY <1>l DEF TypeOK, Smaller
  <2>2. rows' \in [1..n -> RowType]
    BY <1>1, ListedOnlyType, <1>0 DEF ListMembers, Row, RowType, EXTRACTION_STATUSES
  <2>3. rows' \in Seq(RowType) /\ Len(rows') = n
    BY <2>1, <2>2, SeqFromFunction
  <2>4. names' \in Seq(BOOLEAN)
    <3>1. \A j \in 1..n : archive[j] \in EntryType
      BY <2>1, EntriesAssumption DEF TypeOK
    <3>2. names' \in [1..n -> BOOLEAN]
      BY <1>1, <3>1 DEF ListMembers, EntryType
    <3> QED
      BY <2>1, <3>2, SeqFromFunction
  <2> QED
    BY <1>1, <2>1, <2>3, <2>4 DEF ListMembers, TypeOK, WorkerInBounds
<1>2. CASE PassOver
  <2>1. /\ row <= Len(rows) /\ worker = "rows" /\ hitMemberLimit' \in BOOLEAN
        /\ UNCHANGED <<setting, worker, blobs, nextSlot, extractedCount,
                       extractedBytes, written, names, honest, parentVars>>
    BY <1>2 DEF PassOver, TypeOK
  <2>2. \E status \in EXTRACTION_STATUSES : SetRow(status, NoSlot)
    BY <1>2, ListedOnlyType DEF PassOver, EXTRACTION_STATUSES
  <2>3. rows' \in Seq(RowType) /\ Len(rows') = Len(rows) /\ row' \in Nat \ {0}
    BY <2>1, <2>2, SetRowType
  <2> QED
    BY <2>1, <2>3 DEF TypeOK, WorkerInBounds
<1>3. CASE StartMember
  <2>1. DOMAIN blobs' \subseteq Nat /\ blobs' \in [DOMAIN blobs' -> Nat]
    BY <1>3 DEF StartMember, TypeOK
  <2> QED
    BY <1>3, <2>1 DEF StartMember, TypeOK, WorkerInBounds
<1>4. CASE MemberBreaks
  <2>1. worker = "copy" /\ Reject("malformed") /\ UNCHANGED <<setting, names, honest, parentVars>>
    BY <1>4 DEF MemberBreaks
  <2> QED
    BY <2>1, RejectStep DEF EXTRACTION_STATUSES
<1>5. CASE CopyChunk
  <2>1. /\ row <= Len(rows) /\ row <= Len(archive) /\ worker = "copy"
        /\ UNCHANGED <<setting, names, honest, parentVars>>
    BY <1>5 DEF CopyChunk, WorkerInBounds, TypeOK
  <2>2. CASE Reject("rejected_size_limit") \/ Reject("rejected_workspace_budget")
    BY <2>1, <2>2, RejectStep DEF EXTRACTION_STATUSES
  <2>3. CASE /\ written' = written + NextChunk
             /\ blobs' = [blobs EXCEPT ![nextSlot] = written + NextChunk]
             /\ UNCHANGED <<worker, row, rows, counters>>
    <3>1. written + NextChunk \in Nat
      BY <1>5, <2>1, ChunkType DEF CopyChunk
    <3>2. DOMAIN blobs' = DOMAIN blobs /\ blobs' \in [DOMAIN blobs' -> Nat]
      BY <2>3, <3>1 DEF TypeOK
    <3> QED
      BY <2>1, <2>3, <3>1, <3>2 DEF TypeOK, WorkerInBounds
  <2> QED
    BY <1>5, <2>2, <2>3 DEF CopyChunk
<1>6. CASE FinishMember
  <2>1. /\ row <= Len(rows) /\ row <= Len(archive) /\ worker = "copy"
        /\ UNCHANGED <<setting, names, honest, parentVars>>
    BY <1>6 DEF FinishMember, WorkerInBounds, TypeOK
  <2>2. CASE Reject("rejected_ratio")
    BY <2>1, <2>2, RejectStep DEF EXTRACTION_STATUSES
  <2>3. CASE SetRow("extracted", nextSlot) /\ ~Reject("rejected_ratio")
    <3>1. nextSlot \in Nat
      BY DEF TypeOK
    <3>2. rows' \in Seq(RowType) /\ Len(rows') = Len(rows) /\ row' \in Nat \ {0}
      BY <2>1, <2>3, <3>1, SetRowType DEF EXTRACTION_STATUSES
    <3>3. /\ nextSlot' = nextSlot + 1 /\ extractedCount' = extractedCount + 1
          /\ extractedBytes' = extractedBytes + written /\ worker' = "rows"
          /\ UNCHANGED <<blobs, written, hitMemberLimit>>
      BY <1>6, <2>3 DEF FinishMember
    <3>4. nextSlot' \in Nat /\ extractedCount' \in Nat /\ extractedBytes' \in Nat
      BY <3>3 DEF TypeOK
    <3>5. TypeOK'
      BY <2>1, <3>2, <3>3, <3>4 DEF TypeOK
    <3> QED
      BY <2>1, <3>2, <3>3, <3>5 DEF WorkerInBounds
  <2> QED
    BY <1>6, <2>2, <2>3 DEF FinishMember
<1>7. CASE Answer \/ WorkerFails
  BY <1>7 DEF Answer, WorkerFails, TypeOK, WorkerInBounds
<1>8. CASE AnswerRogue
  <2>1. rows' \in Seq(RowType) /\ names' \in Seq(BOOLEAN)
    <3>1. PICK n \in 0..MaxEntries :
            /\ rows' \in [1..n -> [status : RogueStatuses, slot : RogueSlots]]
            /\ names' \in [1..n -> BOOLEAN]
      BY <1>8 DEF AnswerRogue
    <3>2. [status : RogueStatuses, slot : RogueSlots] \subseteq RowType
      BY RogueAssumption DEF RowType
    <3>3. rows' \in [1..n -> RowType]
      BY <3>1, <3>2
    <3>4. n \in Nat
      BY <3>1, BoundAssumption
    <3> QED
      BY <3>1, <3>3, <3>4, SeqFromFunction
  <2>2. DOMAIN blobs' \subseteq Nat /\ blobs' \in [DOMAIN blobs' -> Nat]
    <3>1. PICK slots \in SUBSET (1..MaxEntries) : blobs' \in [slots -> RogueSizes]
      BY <1>8 DEF AnswerRogue
    <3>2. DOMAIN blobs' = slots /\ slots \subseteq Nat
      BY <3>1, BoundAssumption
    <3> QED
      BY <3>1, <3>2, RogueAssumption
  <2> QED
    BY <1>8, <2>1, <2>2 DEF AnswerRogue, TypeOK, WorkerInBounds
<1> QED
  BY <1>1, <1>2, <1>3, <1>4, <1>5, <1>6, <1>7, <1>8 DEF Worker

\* The worker does not move once it has answered, and the parent waits until then.
LEMMA WorkerKeepsAnswer ==
  ASSUME IInv, Worker
  PROVE  ListedFollowsRows' /\ KeptWasCounted'
<1>1. /\ worker # "answered" /\ UNCHANGED <<parentVars, limits>>
  BY DEF Worker, ListMembers, PassOver, StartMember, MemberBreaks, CopyChunk,
         FinishMember, Answer, WorkerFails, AnswerRogue
<1>2. parent \in {"waiting", "failed"} /\ listed = << >>
  BY <1>1 DEF IInv, ListedFollowsRows, TypeOK
<1> QED
  BY <1>1, <1>2 DEF IInv, ListedFollowsRows, KeptWasCounted, Fits

-----------------------------------------------------------------------------
(* The parent's steps *)

\* One more row of the parent's list follows the answer's row it was made from.
LEMMA AppendRow ==
  ASSUME IInv, parent = "ingest", item <= Len(rows), item' = item + 1,
         UNCHANGED <<setting, workerVars, parent>>,
         NEW status \in EXTRACTION_STATUSES \cup RogueStatuses, NEW slot \in Nat,
         List(status, slot),
         slot # NoSlot => /\ rows[item].status = "extracted" /\ slot = rows[item].slot
                          /\ blobs[slot] <= limits["member_bytes"]
  PROVE  listed' \in Seq(RowType) /\ item' \in Nat \ {0} /\ ListedFollowsRows'
<1>1. Row(status, slot) \in RowType /\ Row(status, slot).slot = slot
  BY DEF Row, RowType
<1>2. /\ listed \in Seq(RowType) /\ item \in Nat \ {0} /\ rows \in Seq(RowType)
      /\ Len(listed) = item - 1
  BY DEF IInv, TypeOK, ListedFollowsRows
<1>3. listed' = Append(listed, Row(status, slot))
  BY DEF List
<1>4. /\ listed' \in Seq(RowType) /\ Len(listed') = item /\ DOMAIN listed' = 1..item
      /\ \A j \in 1..(item - 1) : listed'[j] = listed[j] /\ j \in DOMAIN listed
      /\ listed'[item].slot = slot
  <2> HIDE DEF RowType
  <2> QED
    BY <1>1, <1>2, <1>3
<1>5. ValidResponse' = ValidResponse
  BY DEF ValidResponse, ValidMember, SlotInOrder, ExtractedBefore
<1>6. \A j \in DOMAIN listed' : listed'[j].slot # NoSlot =>
        /\ rows[j].status = "extracted" /\ listed'[j].slot = rows[j].slot
        /\ blobs[rows[j].slot] <= limits["member_bytes"]
  <2>1. SUFFICES ASSUME NEW j \in 1..item, listed'[j].slot # NoSlot
                 PROVE  /\ rows[j].status = "extracted" /\ listed'[j].slot = rows[j].slot
                        /\ blobs[rows[j].slot] <= limits["member_bytes"]
    BY <1>4
  <2>2. CASE j = item
    BY <2>1, <2>2, <1>4
  <2>3. CASE j # item
    <3>1. j \in 1..(item - 1)
      BY <2>3, <1>2
    <3> QED
      BY <2>1, <3>1, <1>4 DEF IInv, ListedFollowsRows
  <2> QED
    BY <2>2, <2>3
<1>7. parent' = "ingest" /\ worker' = "answered" /\ ValidResponse'
  BY <1>5 DEF IInv, ListedFollowsRows
<1>8. Len(rows') = Len(rows) /\ item' \in Nat \ {0} /\ Len(listed') = item' - 1
  BY <1>2, <1>4
<1> QED
  BY <1>2, <1>4, <1>6, <1>7, <1>8 DEF ListedFollowsRows

\* Ingesting a row keeps what was kept within what was counted.
LEMMA IngestStep ==
  ASSUME IInv, IngestRow
  PROVE  IInv'
<1> DEFINE r == rows[item]
<1>1. /\ TypeOK /\ WorkerInBounds /\ ListedFollowsRows /\ KeptWasCounted
      /\ parent = "ingest" /\ item <= Len(rows) /\ item' = item + 1
      /\ UNCHANGED <<setting, workerVars, parent>>
  BY DEF IInv, IngestRow
<1>2. r \in RowType
  <2>1. item \in 1..Len(rows) /\ rows \in Seq(RowType)
    BY <1>1 DEF TypeOK
  <2> QED
    BY <2>1
<1>3. /\ r.status \in EXTRACTION_STATUSES \cup RogueStatuses /\ r.slot \in Nat
      /\ NoSlot \in Nat
      /\ {"malformed", "extracted", "rejected_workspace_budget"} \subseteq EXTRACTION_STATUSES
  BY <1>2 DEF RowType, NoSlot, EXTRACTION_STATUSES
<1>4. limits["workspace"] \in Nat /\ limits["total"] \in Nat
  BY <1>1, LimitTypes DEF TypeOK, LimitNames
<1>5. SUFFICES /\ listed' \in Seq(RowType) /\ item' \in Nat \ {0} /\ ListedFollowsRows'
               /\ budget' \in Nat /\ kept' \in Nat /\ KeptWasCounted'
  BY <1>1 DEF IInv, TypeOK, WorkerInBounds
<1>6. CASE \E status \in EXTRACTION_STATUSES \cup RogueStatuses :
             List(status, NoSlot) /\ UNCHANGED <<budget, kept>>
  <2>1. listed' \in Seq(RowType) /\ item' \in Nat \ {0} /\ ListedFollowsRows'
    BY <1>1, <1>3, <1>6, AppendRow
  <2> QED
    BY <2>1, <1>1, <1>6 DEF TypeOK, KeptWasCounted, Fits
<1>7. CASE r.status = "extracted" /\ Readable(r.slot) /\ budget' = budget + blobs[r.slot]
  <2>1. blobs[r.slot] \in Nat /\ blobs[r.slot] <= limits["member_bytes"]
    BY <1>1, <1>7 DEF Readable, TypeOK
  <2>0. budget \in Nat /\ kept \in Nat
    BY <1>1 DEF TypeOK
  <2>2. budget' \in Nat /\ budget <= budget'
    BY <1>7, <2>0, <2>1
  <2>3. CASE Fits(budget') /\ List("extracted", r.slot) /\ kept' = kept + blobs[r.slot]
    <3>1. listed' \in Seq(RowType) /\ item' \in Nat \ {0} /\ ListedFollowsRows'
      BY <1>1, <1>3, <1>7, <2>1, <2>3, AppendRow
    <3>2. kept' \in Nat /\ kept' <= budget'
      BY <1>1, <1>7, <2>0, <2>1, <2>3 DEF KeptWasCounted
    <3>3. Fits(kept') /\ UNCHANGED limits
      BY <1>1, <1>4, <2>2, <2>3, <3>2 DEF Fits
    <3> QED
      BY <2>2, <3>1, <3>2, <3>3 DEF KeptWasCounted, Fits
  <2>4. CASE List("rejected_workspace_budget", NoSlot) /\ UNCHANGED kept
    <3>1. listed' \in Seq(RowType) /\ item' \in Nat \ {0} /\ ListedFollowsRows'
      BY <1>1, <1>3, <2>4, AppendRow
    <3>2. kept \in Nat /\ kept <= budget' /\ Fits(kept) /\ UNCHANGED limits
      BY <1>1, <2>2 DEF TypeOK, KeptWasCounted
    <3> QED
      BY <2>2, <2>4, <3>1, <3>2 DEF KeptWasCounted, Fits
  <2> QED
    BY <1>7, <2>3, <2>4 DEF IngestRow
<1> QED
  BY <1>3, <1>6, <1>7 DEF IngestRow

\* Taking up an answer, or giving up on one, and finishing.
LEMMA ParentMoves ==
  ASSUME IInv, Validate \/ Complete
  PROVE  IInv'
<1>1. /\ TypeOK /\ WorkerInBounds /\ ListedFollowsRows /\ KeptWasCounted
      /\ UNCHANGED <<setting, workerVars, item, budget, listed, kept>>
      /\ parent' \in {"ingest", "completed", "failed"}
  BY DEF IInv, Validate, Complete
<1>2. TypeOK' /\ WorkerInBounds' /\ KeptWasCounted'
  BY <1>1 DEF TypeOK, WorkerInBounds, KeptWasCounted, Fits
<1>3. ValidResponse' = ValidResponse
  BY <1>1 DEF ValidResponse, ValidMember, SlotInOrder, ExtractedBefore
<1>4. CASE Validate
  <2>1. listed = << >> /\ Len(listed) <= Len(rows)
    BY <1>1, <1>4 DEF Validate, ListedFollowsRows, TypeOK
  <2>2. parent' = "ingest" => worker = "answered" /\ ValidResponse
    BY <1>4 DEF Validate
  <2>3. parent' # "completed"
    BY <1>4 DEF Validate
  <2> QED
    BY <1>1, <1>2, <1>3, <2>1, <2>2, <2>3 DEF ListedFollowsRows, IInv
<1>5. CASE Complete
  <2>1. parent = "ingest" /\ parent' = "completed"
    BY <1>5 DEF Complete
  <2> QED
    BY <1>1, <1>2, <1>3, <2>1 DEF ListedFollowsRows, IInv
<1> QED
  BY <1>4, <1>5

-----------------------------------------------------------------------------

\* The initial states satisfy the invariant.
LEMMA InitInvariant == Init => IInv
<1> SUFFICES ASSUME Init PROVE IInv
  OBVIOUS
<1>1. PICK n \in 0..MaxEntries : archive \in [1..n -> Entries]
  BY DEF Init
<1>2. archive \in Seq(Entries)
  BY <1>1, BoundAssumption, SeqFromFunction
<1>3. limits \in Limits
  BY DEF Init
<1>4. limits["workspace"] \in Nat /\ limits["total"] \in Nat
  BY <1>3, LimitTypes DEF LimitNames
<1>5. TypeOK
  <2>1. blobs \in [DOMAIN blobs -> Nat] /\ DOMAIN blobs = {}
    BY DEF Init
  <2>2. rows \in Seq(RowType) /\ names \in Seq(BOOLEAN) /\ listed \in Seq(RowType)
    BY DEF Init
  <2>3. hitMemberLimit \in BOOLEAN /\ honest \in BOOLEAN
    BY DEF Init
  <2>4. /\ row \in Nat \ {0} /\ item \in Nat \ {0}
        /\ nextSlot \in Nat /\ extractedCount \in Nat /\ extractedBytes \in Nat
        /\ written \in Nat /\ budget \in Nat /\ kept \in Nat
    BY DEF Init
  <2>5. worker = "open" /\ parent = "waiting"
    BY DEF Init
  <2> QED
    BY <1>2, <1>3, <2>1, <2>2, <2>3, <2>4, <2>5 DEF TypeOK
<1>6. WorkerInBounds /\ ListedFollowsRows
  BY DEF Init, WorkerInBounds, ListedFollowsRows
<1>7. KeptWasCounted
  BY <1>4 DEF Init, KeptWasCounted, Fits
<1> QED
  BY <1>5, <1>6, <1>7 DEF IInv

(***************************************************************************)
(* The invariant holds in every reachable state, whatever the archive, the *)
(* limits and the worker's answer (container_runner._ingest reads rows     *)
(* that container_protocol has validated and that no longer change).       *)
(***************************************************************************)
THEOREM Invariant == Spec => []IInv
<1>1. IInv /\ [Next]_vars => IInv'
  <2> SUFFICES ASSUME IInv, [Next]_vars PROVE IInv'
    OBVIOUS
  <2>1. CASE Worker
    BY <2>1, WorkerStep, WorkerKeepsAnswer DEF IInv
  <2>2. CASE IngestRow
    BY <2>2, IngestStep
  <2>3. CASE Validate \/ Complete
    BY <2>3, ParentMoves
  <2>4. CASE UNCHANGED vars
    BY <2>4 DEF vars, IInv, TypeOK, WorkerInBounds, ListedFollowsRows, KeptWasCounted, Fits,
                ValidResponse, ValidMember, SlotInOrder, ExtractedBefore
  <2> QED
    BY <2>1, <2>2, <2>3, <2>4 DEF Next, Parent
<1> QED
  BY <1>1, InitInvariant, PTL DEF Spec

(***************************************************************************)
(* Type correctness, for all archives and limits.                          *)
(***************************************************************************)
THEOREM TypeCorrect == Spec => []TypeOK
BY Invariant, PTL DEF IInv

(***************************************************************************)
(* The parent re-enforces the byte limits on its own count: neither the    *)
(* sum of what it keeps nor any blob exceeds them, for every answer        *)
(* (container_runner.py, the loop over validated rows).                    *)
(***************************************************************************)
THEOREM KeepsWithinLimits == Spec => []KeptWithinLimits
<1>1. IInv => KeptWithinLimits
  BY DEF IInv, KeptWasCounted, ListedFollowsRows, KeptWithinLimits
<1> QED
  BY <1>1, Invariant, PTL

\* A later extracted row counts every extracted row before it and the earlier one.
LEMMA SlotsGrow ==
  ASSUME NEW j \in Nat, NEW m \in Nat, 0 < j, j < m, rows[j].status = "extracted"
  PROVE  /\ Cardinality(ExtractedBefore(j)) \in Nat /\ Cardinality(ExtractedBefore(m)) \in Nat
         /\ Cardinality(ExtractedBefore(j)) < Cardinality(ExtractedBefore(m))
<1>1. IsFiniteSet(ExtractedBefore(j)) /\ IsFiniteSet(ExtractedBefore(m))
  <2>1. IsFiniteSet(1..(j - 1)) /\ IsFiniteSet(1..(m - 1))
    BY FS_Interval
  <2> QED
    BY <2>1, FS_Subset DEF ExtractedBefore
<1>2. Cardinality(ExtractedBefore(j)) \in Nat /\ Cardinality(ExtractedBefore(m)) \in Nat
  BY <1>1, FS_CardinalityType
<1>3. j \notin ExtractedBefore(j) /\ ExtractedBefore(j) \cup {j} \subseteq ExtractedBefore(m)
  BY DEF ExtractedBefore
<1>4. Cardinality(ExtractedBefore(j) \cup {j}) = Cardinality(ExtractedBefore(j)) + 1
  BY <1>1, <1>3, FS_AddElement
<1>5. Cardinality(ExtractedBefore(j) \cup {j}) <= Cardinality(ExtractedBefore(m))
  BY <1>1, <1>3, FS_Subset
<1> QED
  BY <1>2, <1>4, <1>5

(***************************************************************************)
(* A blob becomes at most one member, whatever slots the worker names      *)
(* (container_protocol._validate_member compares every slot with the       *)
(* parent's own count of extracted rows).                                  *)
(***************************************************************************)
THEOREM SlotsAreUsedOnce == Spec => []SlotUsedOnce
<1>1. ASSUME IInv,
             NEW j \in DOMAIN listed, NEW m \in DOMAIN listed, j < m,
             listed[j].slot # NoSlot, listed[m].slot # NoSlot
      PROVE  listed[j].slot # listed[m].slot
  <2>1. /\ DOMAIN listed = 1..Len(listed) /\ Len(listed) \in Nat /\ Len(rows) \in Nat
    BY <1>1 DEF IInv, TypeOK
  <2>2. /\ rows[j].status = "extracted" /\ listed[j].slot = rows[j].slot
        /\ rows[m].status = "extracted" /\ listed[m].slot = rows[m].slot
    BY <1>1 DEF IInv, ListedFollowsRows
  <2>3. ValidResponse /\ Len(listed) <= Len(rows)
    <3>1. listed # << >>
      BY <2>1
    <3> QED
      BY <3>1, <1>1 DEF IInv, ListedFollowsRows, TypeOK
  <2>4. ValidMember(j) /\ ValidMember(m)
    BY <2>1, <2>3 DEF ValidResponse
  <2>5. /\ rows[j].slot = Cardinality(ExtractedBefore(j)) + 1
        /\ rows[m].slot = Cardinality(ExtractedBefore(m)) + 1
    BY <2>2, <2>4 DEF ValidMember, SlotInOrder
  <2>6. j \in Nat /\ m \in Nat /\ 0 < j
    BY <2>1
  <2> QED
    BY <1>1, <2>2, <2>5, <2>6, SlotsGrow
<1>2. IInv => SlotUsedOnce
  <2>1. ASSUME IInv, NEW j \in DOMAIN listed, NEW m \in DOMAIN listed
        PROVE  j = m \/ j < m \/ m < j
    BY <2>1 DEF IInv, TypeOK
  <2> QED
    BY <1>1, <2>1 DEF SlotUsedOnce
<1> QED
  BY <1>2, Invariant, PTL

===========================================================================
