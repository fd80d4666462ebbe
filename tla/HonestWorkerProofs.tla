------------------------ MODULE HonestWorkerProofs ------------------------
(***************************************************************************)
(* Proofs about ContainerBroker when the worker is container_extract:      *)
(* what it has on disk, what it answers and what the parent makes of it.   *)
(*                                                                         *)
(* The slots are filled one after the other, so that the bytes on disk are *)
(* a running total over the slot numbers (FilesStep), the rows name each   *)
(* of them once (RowsStep), and the parent, which takes the slots in the   *)
(* same order, has counted exactly the total of the slots it has taken     *)
(* (IngestCount).  SumLemmas has the facts about sums.                     *)
(***************************************************************************)
EXTENDS ContainerBrokerProofs, SumLemmas

USE DEF setting, counters, workerVars, parentVars

\* The bytes on disk after a step that leaves the files up to k, the last with b bytes.
LEMMA FilesOnTop ==
  ASSUME NEW k \in Nat \ {0}, blobs' \in [1..k -> Nat],
         \A i \in 1..(k - 1) : blobs'[i] = blobs[i]
  PROVE  /\ SumFunctionOnSet(blobs', 1..(k - 1)) = BytesUpTo(k - 1)
         /\ SlotBytes' = BytesUpTo(k - 1) + blobs'[k]
         /\ SumFunctionOnSet(blobs', 1..k) = BytesUpTo(k - 1) + blobs'[k]
<1>1. /\ SumFunctionOnSet(blobs', 1..(k - 1)) = SumFunctionOnSet(blobs, 1..(k - 1))
      /\ SumFunction(blobs') = SumFunctionOnSet(blobs, 1..(k - 1)) + blobs'[k]
  BY SumOnTop
<1>2. SumFunction(blobs') = SumFunctionOnSet(blobs', 1..k)
  BY DEF SumFunction
<1> QED
  BY <1>1, <1>2 DEF SlotBytes, BytesUpTo

\* The bytes on disk after a step that leaves only the files up to k, as they were.
LEMMA FilesBelow ==
  ASSUME NEW k \in Nat, blobs' \in [1..k -> Nat], \A i \in 1..k : blobs'[i] = blobs[i]
  PROVE  SlotBytes' = BytesUpTo(k) /\ SumFunctionOnSet(blobs', 1..k) = BytesUpTo(k)
<1> DEFINE S == 1..k
<1>1. IsFiniteSet(S) /\ \A i \in S : blobs'[i] = blobs[i]
  BY FS_Interval
<1> HIDE DEF S
<1>2. SumFunctionOnSet(blobs', S) = SumFunctionOnSet(blobs, S)
  BY <1>1, SumSame
<1>3. DOMAIN blobs' = S
  BY DEF S
<1> QED
  BY <1>2, <1>3 DEF SlotBytes, BytesUpTo, SumFunction, S

\* A limit does not change, nor what the worker makes of it.
LEMMA SameLimits ==
  ASSUME UNCHANGED limits
  PROVE  /\ Effective("member_bytes")' = Effective("member_bytes")
         /\ Effective("list")' = Effective("list")
         /\ ByteBudget' = ByteBudget
BY DEF Effective, ByteBudget

\* Rejecting a member takes its file away and nothing else.
LEMMA FilesReject ==
  ASSUME IInv, HonestFiles, honest, worker = "copy", NEW status, Reject(status),
         UNCHANGED <<setting, honest, parentVars>>
  PROVE  HonestFiles'
<1>1. /\ nextSlot = extractedCount + 1 /\ extractedCount \in Nat
      /\ blobs \in [1..nextSlot -> Nat]
      /\ \A s \in 1..nextSlot : blobs[s] <= Effective("member_bytes")
      /\ BytesUpTo(extractedCount) = extractedBytes /\ extractedBytes <= ByteBudget
  BY DEF IInv, TypeOK, HonestFiles
<1>2. /\ blobs' = [s \in DOMAIN blobs \ {nextSlot} |-> blobs[s]] /\ worker' = "rows"
      /\ UNCHANGED counters
  BY DEF Reject, Unlink
<1>3. /\ blobs' \in [1..extractedCount -> Nat]
      /\ \A i \in 1..extractedCount : blobs'[i] = blobs[i]
  BY <1>1, <1>2
<1>4. /\ SlotBytes' = BytesUpTo(extractedCount)
      /\ SumFunctionOnSet(blobs', 1..extractedCount) = BytesUpTo(extractedCount)
  BY <1>1, <1>3, FilesBelow
<1>5. BytesUpTo(extractedCount)' = BytesUpTo(extractedCount)
  BY <1>2, <1>4 DEF BytesUpTo
<1>6. /\ Effective("member_bytes")' = Effective("member_bytes")
      /\ ByteBudget' = ByteBudget
  BY SameLimits
<1>7. \A s \in DOMAIN blobs' : blobs'[s] <= Effective("member_bytes")
  BY <1>1, <1>3
<1> QED
  BY <1>1, <1>2, <1>3, <1>4, <1>5, <1>6, <1>7 DEF HonestFiles

\* Every step of the worker keeps the files a running total within the budget.
LEMMA FilesStep ==
  ASSUME HInv, Worker
  PROVE  HonestFiles'
<1>0. IInv /\ HonestFiles /\ OpenIsUntouched /\ TypeOK
  BY DEF HInv, IInv
<1>1. SUFFICES ASSUME honest' PROVE HonestFiles'
  BY DEF HonestFiles
<1>2. honest /\ UNCHANGED <<setting, honest, parentVars>> /\ ~AnswerRogue
  BY <1>0, <1>1 DEF Worker, ListMembers, PassOver, StartMember, MemberBreaks, CopyChunk,
    FinishMember, Answer, WorkerFails, AnswerRogue, TypeOK
<1>3. /\ Effective("member_bytes")' = Effective("member_bytes")
      /\ ByteBudget' = ByteBudget
  BY <1>2, SameLimits
<1>4. Effective("member_bytes") \in Nat /\ ByteBudget \in Nat
  BY <1>0, LimitTypes DEF TypeOK, LimitNames
<1>5. CASE ListMembers \/ PassOver \/ Answer \/ WorkerFails
  <2>1. /\ UNCHANGED <<blobs, nextSlot, extractedCount, extractedBytes>>
        /\ \/ worker' = "failed"
           \/ worker # "copy" /\ worker' # "copy" /\ worker # "failed"
    BY <1>5 DEF ListMembers, PassOver, Answer, WorkerFails
  <2>2. SlotBytes' = SlotBytes /\ BytesUpTo(extractedCount)' = BytesUpTo(extractedCount)
    BY <2>1 DEF SlotBytes, BytesUpTo
  <2> QED
    BY <1>0, <1>2, <1>3, <2>1, <2>2 DEF HonestFiles
<1>6. CASE StartMember
  <2>1. /\ worker # "copy" /\ worker # "failed" /\ worker' = "copy" /\ written' = 0
        /\ blobs' = [s \in DOMAIN blobs \cup {nextSlot} |->
                       IF s = nextSlot THEN 0 ELSE blobs[s]]
        /\ UNCHANGED counters
    BY <1>6 DEF StartMember
  <2>2. /\ nextSlot = extractedCount + 1 /\ extractedCount \in Nat
        /\ blobs \in [1..extractedCount -> Nat]
        /\ \A s \in 1..extractedCount : blobs[s] <= Effective("member_bytes")
        /\ BytesUpTo(extractedCount) = extractedBytes /\ extractedBytes <= ByteBudget
        /\ extractedBytes \in Nat
    BY <1>0, <1>2, <2>1 DEF TypeOK, HonestFiles
  <2>3. /\ blobs' \in [1..nextSlot -> Nat] /\ blobs'[nextSlot] = 0
        /\ \A i \in 1..(nextSlot - 1) : blobs'[i] = blobs[i]
    BY <2>1, <2>2
  <2>4. /\ SumFunctionOnSet(blobs', 1..(nextSlot - 1)) = BytesUpTo(nextSlot - 1)
        /\ SlotBytes' = BytesUpTo(nextSlot - 1) + blobs'[nextSlot]
    BY <2>2, <2>3, FilesOnTop
  <2>5. SlotBytes' = extractedBytes /\ BytesUpTo(extractedCount)' = extractedBytes
    <3>1. nextSlot - 1 = extractedCount
      BY <2>2
    <3>2. /\ SumFunctionOnSet(blobs', 1..extractedCount) = extractedBytes
          /\ SlotBytes' = extractedBytes + 0
      BY <2>2, <2>3, <2>4, <3>1
    <3> QED
      BY <2>1, <2>2, <3>2 DEF BytesUpTo
  <2>6. \A s \in DOMAIN blobs' : blobs'[s] <= Effective("member_bytes")
    BY <1>4, <2>2, <2>3
  <2> QED
    BY <1>3, <2>1, <2>2, <2>3, <2>5, <2>6 DEF HonestFiles
<1>7. CASE MemberBreaks
  BY <1>0, <1>2, <1>7, FilesReject DEF MemberBreaks
<1>8. CASE CopyChunk
  <2>1. worker = "copy"
    BY <1>8 DEF CopyChunk
  <2>2. CASE Reject("rejected_size_limit") \/ Reject("rejected_workspace_budget")
    BY <1>0, <1>2, <2>1, <2>2, FilesReject
  <2>3. CASE ~(Reject("rejected_size_limit") \/ Reject("rejected_workspace_budget"))
    <3> DEFINE total == written + NextChunk
    <3>1. /\ total <= Effective("member_bytes") /\ total <= ByteBudget - extractedBytes
          /\ written' = total /\ blobs' = [blobs EXCEPT ![nextSlot] = total]
          /\ UNCHANGED <<worker, counters>>
      BY <1>8, <2>3 DEF CopyChunk
    <3>2. total \in Nat
      BY <1>0, <1>8, ChunkType DEF CopyChunk, IInv, WorkerInBounds, TypeOK
    <3> HIDE DEF total
    <3>3. /\ nextSlot = extractedCount + 1 /\ extractedCount \in Nat
          /\ blobs \in [1..nextSlot -> Nat]
          /\ \A s \in 1..nextSlot : blobs[s] <= Effective("member_bytes")
          /\ BytesUpTo(extractedCount) = extractedBytes /\ extractedBytes <= ByteBudget
          /\ extractedBytes \in Nat
      BY <1>0, <1>2, <2>1 DEF TypeOK, HonestFiles
    <3>4. /\ blobs' \in [1..nextSlot -> Nat] /\ blobs'[nextSlot] = total
          /\ \A i \in 1..(nextSlot - 1) : blobs'[i] = blobs[i]
      BY <3>1, <3>2, <3>3
    <3>5. /\ SumFunctionOnSet(blobs', 1..(nextSlot - 1)) = BytesUpTo(nextSlot - 1)
          /\ SlotBytes' = BytesUpTo(nextSlot - 1) + blobs'[nextSlot]
      BY <3>3, <3>4, FilesOnTop
    <3>6. SlotBytes' = extractedBytes + total /\ BytesUpTo(extractedCount)' = extractedBytes
      <4>1. nextSlot - 1 = extractedCount
        BY <3>3
      <4>2. /\ SumFunctionOnSet(blobs', 1..extractedCount) = extractedBytes
            /\ SlotBytes' = extractedBytes + total
        BY <3>3, <3>4, <3>5, <4>1
      <4> QED
        BY <3>1, <4>2 DEF BytesUpTo
    <3>7. SlotBytes' <= ByteBudget
      BY <1>4, <3>1, <3>2, <3>3, <3>6
    <3>8. \A s \in DOMAIN blobs' : blobs'[s] <= Effective("member_bytes")
      BY <3>1, <3>3, <3>4
    <3> QED
      BY <1>3, <2>1, <3>1, <3>3, <3>4, <3>6, <3>7, <3>8 DEF HonestFiles
  <2> QED
    BY <2>2, <2>3
<1>9. CASE FinishMember
  <2>1. worker = "copy"
    BY <1>9 DEF FinishMember
  <2>2. CASE Reject("rejected_ratio")
    BY <1>0, <1>2, <2>1, <2>2, FilesReject
  <2>3. CASE ~Reject("rejected_ratio")
    <3>1. /\ nextSlot' = nextSlot + 1 /\ extractedCount' = extractedCount + 1
          /\ extractedBytes' = extractedBytes + written
          /\ worker' = "rows" /\ UNCHANGED blobs
      BY <1>9, <2>3 DEF FinishMember
    <3>2. /\ nextSlot = extractedCount + 1 /\ extractedCount \in Nat
          /\ blobs \in [1..nextSlot -> Nat] /\ blobs[nextSlot] = written
          /\ \A s \in 1..nextSlot : blobs[s] <= Effective("member_bytes")
          /\ BytesUpTo(extractedCount) = extractedBytes
          /\ extractedBytes \in Nat /\ SlotBytes <= ByteBudget
      BY <1>0, <1>2, <2>1 DEF TypeOK, HonestFiles
    <3>3. /\ SlotBytes' = BytesUpTo(nextSlot - 1) + blobs'[nextSlot]
          /\ SumFunctionOnSet(blobs', 1..nextSlot) = BytesUpTo(nextSlot - 1) + blobs'[nextSlot]
      BY <3>1, <3>2, FilesOnTop
    <3>4. SlotBytes' = SlotBytes
      BY <3>1 DEF SlotBytes
    <3>5. SlotBytes' = extractedBytes' /\ BytesUpTo(extractedCount)' = extractedBytes'
      BY <3>1, <3>2, <3>3 DEF BytesUpTo
    <3> QED
      BY <1>3, <3>1, <3>2, <3>4, <3>5 DEF HonestFiles
  <2> QED
    BY <2>2, <2>3
<1> QED
  BY <1>2, <1>5, <1>6, <1>7, <1>8, <1>9 DEF Worker

-----------------------------------------------------------------------------
(* The rows *)

\* The parent's count of extracted rows is a number.
LEMMA ExtractedFinite ==
  ASSUME NEW j \in Int
  PROVE  IsFiniteSet(ExtractedBefore(j)) /\ Cardinality(ExtractedBefore(j)) \in Nat
<1>1. IsFiniteSet(1..(j - 1)) /\ ExtractedBefore(j) \subseteq 1..(j - 1)
  BY FS_Interval DEF ExtractedBefore
<1>2. IsFiniteSet(ExtractedBefore(j))
  BY <1>1, FS_Subset
<1> QED
  BY <1>2, FS_CardinalityType

\* Writing the row the worker is at leaves the others alone.
LEMMA RowWritten ==
  ASSUME IInv, row <= Len(rows), NEW status \in EXTRACTION_STATUSES, NEW slot \in Nat,
         SetRow(status, slot)
  PROVE  /\ row \in 1..Len(rows) /\ Len(rows) \in Nat
         /\ DOMAIN rows = 1..Len(rows) /\ DOMAIN rows' = 1..Len(rows)
         /\ Len(rows') = Len(rows) /\ row' = row + 1
         /\ rows'[row] = Row(status, slot)
         /\ \A j \in 1..Len(rows) : j # row => rows'[j] = rows[j]
<1>1. rows \in Seq(RowType) /\ row \in Nat \ {0}
  BY DEF IInv, TypeOK
<1>2. rows' = [rows EXCEPT ![row] = Row(status, slot)] /\ row' = row + 1
  BY DEF SetRow
<1>3. Row(status, slot) \in RowType
  BY DEF Row, RowType
<1> HIDE DEF RowType, Row
<1> QED
  BY <1>1, <1>2, <1>3

\* What HonestRows says while the worker is at a row.
LEMMA AtRow ==
  ASSUME IInv, HonestRows, honest, worker \in {"rows", "copy"}, row <= Len(rows)
  PROVE  /\ row \in 1..Len(rows) /\ rows[row] = Row("skipped", NoSlot)
         /\ \A j \in row..Len(rows) : rows[j].status # "extracted" /\ rows[j].slot = NoSlot
         /\ Cardinality(ExtractedBefore(row)) = extractedCount
<1>1. row \in 1..Len(rows) /\ \A j \in row..Len(rows) : rows[j] = Row("skipped", NoSlot)
  BY DEF HonestRows, IInv, TypeOK
<1>2. \A j \in row..Len(rows) : rows[j].status # "extracted" /\ rows[j].slot = NoSlot
  BY <1>1 DEF Row
<1>3. ExtractedBefore(Len(rows) + 1) = ExtractedBefore(row)
  BY <1>1, <1>2 DEF ExtractedBefore, IInv, TypeOK
<1> QED
  BY <1>1, <1>2, <1>3 DEF HonestRows

\* A row that is not extracted names no slot and is not counted.
LEMMA MarkRow ==
  ASSUME IInv, HonestRows, honest, worker \in {"rows", "copy"}, row <= Len(rows),
         NEW status \in EXTRACTION_STATUSES \ {"extracted", "skipped"},
         status = "directory" => archive[row].directory,
         SetRow(status, NoSlot), UNCHANGED <<setting, names, honest, extractedCount>>,
         worker' = "rows"
  PROVE  HonestRows'
<1>1. /\ row \in 1..Len(rows) /\ Len(rows) \in Nat
      /\ DOMAIN rows = 1..Len(rows) /\ DOMAIN rows' = 1..Len(rows)
      /\ Len(rows') = Len(rows) /\ row' = row + 1
      /\ rows'[row].status = status /\ rows'[row].slot = NoSlot
      /\ \A j \in 1..Len(rows) : j # row => rows'[j] = rows[j]
  <2>1. NoSlot \in Nat /\ status \in EXTRACTION_STATUSES
    BY DEF NoSlot
  <2>2. Row(status, NoSlot).status = status /\ Row(status, NoSlot).slot = NoSlot
    BY DEF Row
  <2> QED
    BY <2>1, <2>2, RowWritten
<1>2. /\ Len(rows) = Smaller(Len(archive), Effective("list"))
      /\ \A j \in DOMAIN rows : SlotInOrder(j) /\ names[j] = archive[j].named
      /\ extractedCount = Cardinality(ExtractedBefore(Len(rows) + 1))
      /\ NamedSlots = 1..extractedCount
      /\ \A j \in row..Len(rows) : rows[j] = Row("skipped", NoSlot)
  BY DEF HonestRows
<1>3. rows[row].status # "extracted" /\ rows[row].slot = NoSlot
  BY <1>1, AtRow
<1>4. \A j \in 1..(Len(rows) + 1) : ExtractedBefore(j)' = ExtractedBefore(j)
  BY <1>1, <1>3 DEF ExtractedBefore
<1>5. \A j \in 1..Len(rows) : SlotInOrder(j)'
  <2> SUFFICES ASSUME NEW j \in 1..Len(rows) PROVE SlotInOrder(j)'
    OBVIOUS
  <2>1. ExtractedBefore(j)' = ExtractedBefore(j)
    BY <1>1, <1>4
  <2>2. CASE j = row
    BY <1>1, <2>2 DEF SlotInOrder
  <2>3. CASE j # row
    BY <1>1, <1>2, <2>1, <2>3 DEF SlotInOrder
  <2> QED
    BY <2>2, <2>3
<1>6. Cardinality(ExtractedBefore(Len(rows) + 1))' = extractedCount
  <2>1. Len(rows) + 1 \in 1..(Len(rows) + 1)
    BY <1>1
  <2>2. ExtractedBefore(Len(rows) + 1)' = ExtractedBefore(Len(rows) + 1)
    BY <1>1, <1>4, <2>1 DEF ExtractedBefore
  <2> QED
    BY <1>2, <2>2
<1>7. NamedSlots' = NamedSlots
  BY <1>1, <1>3 DEF NamedSlots
<1>8. \A j \in (row + 1)..Len(rows) : rows'[j] = Row("skipped", NoSlot)
  BY <1>1, <1>2
<1>9. Effective("list")' = Effective("list") /\ Office(Len(rows))' = Office(Len(rows))
  BY <1>1, SameLimits DEF Office
<1>10. ASSUME limits["contents"], ~Office(Len(rows)), NEW j \in 1..Len(rows)
       PROVE  /\ j < row + 1 => rows'[j].status # "skipped"
              /\ rows'[j].status = "directory" => archive[j].directory
  <2>1. CASE j = row
    BY <1>1, <2>1
  <2>2. CASE j # row
    <3>1. /\ j < row => rows[j].status # "skipped"
          /\ rows[j].status = "directory" => archive[j].directory
      BY <1>1, <1>10 DEF HonestRows
    <3>2. j < row + 1 => j < row
      BY <1>1, <2>2
    <3> QED
      BY <1>1, <2>2, <3>1, <3>2
  <2> QED
    BY <2>1, <2>2
<1> QED
  BY <1>1, <1>2, <1>5, <1>6, <1>7, <1>8, <1>9, <1>10 DEF HonestRows

\* An extracted row names the next slot, which is the parent's count plus one.
LEMMA ExtractRow ==
  ASSUME IInv, HonestRows, honest, worker = "copy", row <= Len(rows),
         nextSlot = extractedCount + 1, extractedCount' = extractedCount + 1,
         SetRow("extracted", nextSlot), UNCHANGED <<setting, names, honest>>, worker' = "rows"
  PROVE  HonestRows'
<1>0. extractedCount \in Nat /\ nextSlot \in Nat /\ nextSlot # NoSlot
  BY DEF IInv, TypeOK, NoSlot
<1>1. /\ row \in 1..Len(rows) /\ Len(rows) \in Nat
      /\ DOMAIN rows = 1..Len(rows) /\ DOMAIN rows' = 1..Len(rows)
      /\ Len(rows') = Len(rows) /\ row' = row + 1
      /\ rows'[row].status = "extracted" /\ rows'[row].slot = nextSlot
      /\ \A j \in 1..Len(rows) : j # row => rows'[j] = rows[j]
  <2>1. "extracted" \in EXTRACTION_STATUSES
    BY DEF EXTRACTION_STATUSES
  <2>2. Row("extracted", nextSlot).status = "extracted" /\ Row("extracted", nextSlot).slot = nextSlot
    BY DEF Row
  <2> QED
    BY <1>0, <2>1, <2>2, RowWritten
<1>2. /\ Len(rows) = Smaller(Len(archive), Effective("list"))
      /\ \A j \in DOMAIN rows : SlotInOrder(j) /\ names[j] = archive[j].named
      /\ extractedCount = Cardinality(ExtractedBefore(Len(rows) + 1))
      /\ NamedSlots = 1..extractedCount
      /\ \A j \in row..Len(rows) : rows[j] = Row("skipped", NoSlot)
  BY DEF HonestRows
<1>3. /\ \A j \in row..Len(rows) : rows[j].status # "extracted" /\ rows[j].slot = NoSlot
      /\ Cardinality(ExtractedBefore(row)) = extractedCount
  BY AtRow
<1>4. \A j \in 1..row : ExtractedBefore(j)' = ExtractedBefore(j)
  BY <1>1 DEF ExtractedBefore
<1>5. \A j \in 1..Len(rows) : SlotInOrder(j)'
  <2> SUFFICES ASSUME NEW j \in 1..Len(rows) PROVE SlotInOrder(j)'
    OBVIOUS
  <2>1. CASE j = row
    <3>1. ExtractedBefore(j)' = ExtractedBefore(j) /\ ExtractedBefore(j) = ExtractedBefore(row)
      BY <1>1, <1>4, <2>1
    <3> QED
      BY <1>0, <1>1, <1>3, <2>1, <3>1 DEF SlotInOrder, EXTRACTION_STATUSES
  <2>2. CASE j < row
    BY <1>1, <1>2, <1>4, <2>2 DEF SlotInOrder
  <2>3. CASE j > row
    BY <1>1, <1>2, <1>3, <2>3 DEF SlotInOrder
  <2> QED
    BY <1>1, <2>1, <2>2, <2>3
<1>6. Cardinality(ExtractedBefore(Len(rows) + 1))' = extractedCount + 1
  <2> DEFINE E == ExtractedBefore(Len(rows) + 1)
  <2>1. E' = E \cup {row} /\ row \notin E
    BY <1>1, <1>3 DEF ExtractedBefore
  <2>2. IsFiniteSet(E)
    <3>1. Len(rows) + 1 \in Int
      BY <1>1
    <3> QED
      BY <3>1, ExtractedFinite
  <2>3. Cardinality(E \cup {row}) = Cardinality(E) + 1
    BY <2>1, <2>2, FS_AddElement
  <2> QED
    BY <1>2, <2>1, <2>3
<1>7. NamedSlots' = 1..(extractedCount + 1)
  <2>1. NamedSlots' = NamedSlots \cup {nextSlot}
    BY <1>0, <1>1, <1>3 DEF NamedSlots
  <2> QED
    BY <1>0, <1>2, <2>1
<1>8. \A j \in (row + 1)..Len(rows) : rows'[j] = Row("skipped", NoSlot)
  BY <1>1, <1>2
<1>9. Effective("list")' = Effective("list") /\ Office(Len(rows))' = Office(Len(rows))
  BY <1>1, SameLimits DEF Office
<1>10. ASSUME limits["contents"], ~Office(Len(rows)), NEW j \in 1..Len(rows)
       PROVE  /\ j < row + 1 => rows'[j].status # "skipped"
              /\ rows'[j].status = "directory" => archive[j].directory
  <2>1. CASE j = row
    BY <1>1, <2>1
  <2>2. CASE j # row
    <3>1. /\ j < row => rows[j].status # "skipped"
          /\ rows[j].status = "directory" => archive[j].directory
      BY <1>1, <1>10 DEF HonestRows
    <3>2. j < row + 1 => j < row
      BY <1>1, <2>2
    <3> QED
      BY <1>1, <2>2, <3>1, <3>2
  <2> QED
    BY <2>1, <2>2
<1> QED
  BY <1>1, <1>2, <1>5, <1>6, <1>7, <1>8, <1>9, <1>10 DEF HonestRows

\* Steps that leave the rows alone.
LEMMA RowsKept ==
  ASSUME HonestRows, worker \in {"rows", "copy"},
         UNCHANGED <<setting, names, honest, rows, row, extractedCount>>,
         worker' = "answered" => row > Len(rows)
  PROVE  HonestRows'
<1>1. /\ \A j : ExtractedBefore(j)' = ExtractedBefore(j)
      /\ NamedSlots' = NamedSlots
  BY DEF ExtractedBefore, NamedSlots
<1>2. \A j \in DOMAIN rows : SlotInOrder(j)' <=> SlotInOrder(j)
  BY <1>1 DEF SlotInOrder
<1>3. /\ Effective("list")' = Effective("list") /\ Office(Len(rows))' = Office(Len(rows))
      /\ Cardinality(ExtractedBefore(Len(rows) + 1))'
           = Cardinality(ExtractedBefore(Len(rows) + 1))
  BY SameLimits DEF Office, ExtractedBefore
<1> QED
  BY <1>1, <1>2, <1>3 DEF HonestRows

\* The rows of a container that is listed: none is extracted yet.
LEMMA RowsListed ==
  ASSUME HInv, honest, ListMembers
  PROVE  HonestRows'
<1> DEFINE n == Smaller(Len(archive), Effective("list"))
           listOnly == ~limits["contents"] \/ Office(n)
<1>1. /\ IInv /\ TypeOK /\ worker = "open" /\ row = 1 /\ extractedCount = 0
  BY DEF HInv, IInv, OpenIsUntouched, ListMembers
<1>2. n \in Nat
  BY <1>1, LimitTypes DEF TypeOK, LimitNames, Smaller
<1>3. /\ rows' = [j \in 1..n |-> Row(IF listOnly THEN ListedOnly(archive[j])
                                  ELSE "skipped", NoSlot)]
      /\ worker' = IF listOnly THEN "answered" ELSE "rows"
      /\ names' = [j \in 1..n |-> archive[j].named]
      /\ UNCHANGED <<setting, honest, row, extractedCount>>
  BY DEF ListMembers
<1>4. /\ DOMAIN rows' = 1..n
      /\ \A j \in 1..n : /\ rows'[j].status \in EXTRACTION_STATUSES \ {"extracted"}
                         /\ rows'[j].slot = NoSlot
                         /\ ~listOnly => rows'[j] = Row("skipped", NoSlot)
                                         /\ rows'[j].status = "skipped"
  <2> HIDE DEF n, listOnly
  <2>1. \A e : ListedOnly(e) \in EXTRACTION_STATUSES \ {"extracted"}
    BY DEF ListedOnly, EXTRACTION_STATUSES
  <2>2. "skipped" \in EXTRACTION_STATUSES \ {"extracted"}
    BY DEF EXTRACTION_STATUSES
  <2> QED
    BY <1>3, <2>1, <2>2 DEF Row
<1>5. Len(rows') = n
  <2> HIDE DEF n, listOnly
  <2>1. Len(rows') \in Nat /\ DOMAIN rows' = 1..Len(rows')
    <3>1. rows' \in Seq(RowType)
      BY <1>1, WorkerStep DEF Worker, TypeOK
    <3> QED
      BY <3>1
  <2> QED
    BY <1>2, <1>4, <2>1
<1> HIDE DEF n
<1>6. \A j \in 1..n : SlotInOrder(j)' /\ names'[j] = archive'[j].named
  BY <1>3, <1>4 DEF SlotInOrder
<1>7. Cardinality(ExtractedBefore(Len(rows) + 1))' = 0
  <2>1. ExtractedBefore(Len(rows) + 1)' = {}
    BY <1>2, <1>4, <1>5 DEF ExtractedBefore
  <2> QED
    BY <2>1, FS_EmptySet
<1>8. NamedSlots' = 1..0
  <2>1. NamedSlots' = {}
    BY <1>4 DEF NamedSlots
  <2> QED
    BY <2>1
<1>9. n = Smaller(Len(archive), Effective("list"))' /\ Office(Len(rows))' = Office(n)
  <2>1. n = Smaller(Len(archive), Effective("list"))
    BY DEF n
  <2>2. Effective("list")' = Effective("list") /\ archive' = archive
    BY <1>3, SameLimits
  <2>3. Office(Len(rows))' = Office(n)
    BY <1>3, <1>5 DEF Office
  <2> QED
    BY <2>1, <2>2, <2>3 DEF Smaller
<1>10. worker' # "answered" => ~listOnly
  BY <1>3
<1>11. limits'["contents"] /\ ~Office(Len(rows))' => ~listOnly /\ worker' # "answered"
  BY <1>3, <1>9
<1>12. /\ row' = 1 /\ extractedCount' = 0
  BY <1>1, <1>3
<1> HIDE DEF listOnly
<1>13. \A j \in 1..n : ~(j < 1)
  BY <1>2
<1>14. ~listOnly => \A j \in 1..n : rows'[j].status # "directory"
  BY <1>4
<1> QED
  BY <1>2, <1>4, <1>5, <1>6, <1>7, <1>8, <1>9, <1>10, <1>11, <1>12, <1>13, <1>14
     DEF HonestRows

\* Every step of an honest worker keeps its rows in order.
LEMMA RowsStep ==
  ASSUME HInv, Worker
  PROVE  HonestRows'
<1>0. IInv /\ HonestFiles /\ HonestRows /\ TypeOK /\ WorkerInBounds
  BY DEF HInv, IInv
<1>1. SUFFICES ASSUME honest' PROVE HonestRows'
  BY DEF HonestRows
<1>2. honest /\ UNCHANGED <<setting, honest, parentVars>> /\ ~AnswerRogue
  BY <1>0, <1>1 DEF Worker, ListMembers, PassOver, StartMember, MemberBreaks, CopyChunk,
    FinishMember, Answer, WorkerFails, AnswerRogue, TypeOK
<1>a. worker # "open" => UNCHANGED names
  BY <1>2 DEF Worker, ListMembers, PassOver, StartMember, MemberBreaks, CopyChunk,
    FinishMember, Answer, WorkerFails
<1>3. ASSUME worker = "copy",
             NEW status \in {"malformed", "rejected_size_limit",
                             "rejected_workspace_budget", "rejected_ratio"},
             Reject(status)
      PROVE  HonestRows'
  <2>1. /\ row <= Len(rows) /\ SetRow(status, NoSlot) /\ worker' = "rows"
        /\ UNCHANGED extractedCount
    BY <1>0, <1>3 DEF Reject, WorkerInBounds
  <2>2. status \in EXTRACTION_STATUSES \ {"extracted", "skipped"} /\ status # "directory"
    BY <1>3 DEF EXTRACTION_STATUSES
  <2> QED
    BY <1>0, <1>2, <1>a, <1>3, <2>1, <2>2, MarkRow
<1>4. CASE ListMembers
  BY <1>2, <1>4, RowsListed
<1>5. CASE PassOver
  <2> DEFINE e == archive[row]
  <2>1. /\ worker = "rows" /\ worker' = "rows" /\ row <= Len(rows)
        /\ UNCHANGED extractedCount
    BY <1>5 DEF PassOver
  <2>2. CASE (e.directory \/ e.encrypted \/ e.traversal) /\ SetRow(ListedOnly(e), NoSlot)
    <3>1. /\ ListedOnly(e) \in EXTRACTION_STATUSES \ {"extracted", "skipped"}
          /\ ListedOnly(e) = "directory" => e.directory
      BY <2>2 DEF ListedOnly, EXTRACTION_STATUSES
    <3> QED
      BY <1>0, <1>2, <1>a, <2>1, <2>2, <3>1, MarkRow
  <2>3. ASSUME NEW status \in {"not_processed_member_limit", "rejected_workspace_budget"},
               SetRow(status, NoSlot)
        PROVE  HonestRows'
    <3>1. status \in EXTRACTION_STATUSES \ {"extracted", "skipped"} /\ status # "directory"
      BY <2>3 DEF EXTRACTION_STATUSES
    <3> QED
      BY <1>0, <1>2, <1>a, <2>1, <2>3, <3>1, MarkRow
  <2> QED
    BY <1>5, <2>2, <2>3 DEF PassOver
<1>6. CASE StartMember
  BY <1>0, <1>2, <1>6, RowsKept DEF StartMember
<1>7. CASE MemberBreaks
  BY <1>3, <1>7 DEF MemberBreaks
<1>8. CASE CopyChunk
  <2>1. worker = "copy"
    BY <1>8 DEF CopyChunk
  <2>2. CASE UNCHANGED <<worker, row, rows, counters>>
    BY <1>0, <1>2, <1>a, <2>1, <2>2, RowsKept
  <2> QED
    BY <1>3, <1>8, <2>1, <2>2 DEF CopyChunk
<1>9. CASE FinishMember
  <2>1. worker = "copy" /\ row <= Len(rows) /\ nextSlot = extractedCount + 1
    BY <1>0, <1>2, <1>9 DEF FinishMember, WorkerInBounds, HonestFiles
  <2>2. CASE /\ SetRow("extracted", nextSlot) /\ extractedCount' = extractedCount + 1
             /\ worker' = "rows"
    BY <1>0, <1>2, <1>a, <2>1, <2>2, ExtractRow
  <2> QED
    BY <1>3, <1>9, <2>1, <2>2 DEF FinishMember
<1>10. CASE Answer
  BY <1>0, <1>2, <1>10, RowsKept DEF Answer
<1>11. CASE WorkerFails
  BY <1>11 DEF WorkerFails, HonestRows
<1> QED
  BY <1>2, <1>4, <1>5, <1>6, <1>7, <1>8, <1>9, <1>10, <1>11 DEF Worker

-----------------------------------------------------------------------------
(* The parent's count *)

\* Nothing is extracted before the first row.
LEMMA NoneBefore == ExtractedBefore(1) = {} /\ Cardinality(ExtractedBefore(1)) = 0
<1>1. ExtractedBefore(1) = {}
  BY DEF ExtractedBefore
<1> QED
  BY <1>1, FS_EmptySet

\* While the worker works the parent waits and has counted nothing.
LEMMA WorkerStepCount ==
  ASSUME HInv, Worker
  PROVE  HonestCount' /\ ListedToTheEnd' /\ OpenIsUntouched'
<1>1. /\ worker \notin {"answered", "failed"} /\ worker' # "open" /\ UNCHANGED parentVars
  BY DEF Worker, ListMembers, PassOver, StartMember, MemberBreaks, CopyChunk,
         FinishMember, Answer, WorkerFails, AnswerRogue, Reject, HInv, IInv, TypeOK
<1>2. /\ parent = "waiting" /\ budget = 0 /\ listed = << >> /\ item = 1
  BY <1>1 DEF HInv, IInv, TypeOK, ListedFollowsRows, ListedToTheEnd
<1>3. HonestCount'
  <2>1. BytesUpTo(Cardinality(ExtractedBefore(item)))' = 0
    <3>1. ExtractedBefore(item)' = {}
      BY <1>1, <1>2 DEF ExtractedBefore
    <3>2. Cardinality(ExtractedBefore(item))' = 0
      BY <3>1, FS_EmptySet
    <3>3. SumFunctionOnSet(blobs', 1..0) = 0
      BY SumUpTo
    <3> QED
      BY <3>2, <3>3 DEF BytesUpTo
  <2> QED
    BY <1>1, <1>2, <2>1 DEF HonestCount
<1>4. ListedToTheEnd'
  BY <1>1, <1>2 DEF ListedToTheEnd
<1> QED
  BY <1>1, <1>3, <1>4 DEF OpenIsUntouched

\* The parent does not touch the worker's files, nor its rows.
LEMMA ParentLeavesWorker ==
  ASSUME HInv, UNCHANGED <<setting, workerVars>>
  PROVE  HonestFiles' /\ HonestRows' /\ OpenIsUntouched'
<1>1. /\ Effective("member_bytes")' = Effective("member_bytes")
      /\ Effective("list")' = Effective("list") /\ ByteBudget' = ByteBudget
  BY SameLimits
<1>2. HonestFiles'
  BY <1>1 DEF HInv, HonestFiles, BytesUpTo, SlotBytes
<1>3. HonestRows'
  <2>1. /\ NamedSlots' = NamedSlots /\ Office(Len(rows))' = Office(Len(rows))
        /\ Cardinality(ExtractedBefore(Len(rows) + 1))'
             = Cardinality(ExtractedBefore(Len(rows) + 1))
    BY DEF NamedSlots, Office, ExtractedBefore
  <2>2. \A j \in DOMAIN rows : SlotInOrder(j)' <=> SlotInOrder(j)
    BY DEF SlotInOrder, ExtractedBefore
  <2> QED
    BY <1>1, <2>1, <2>2 DEF HInv, HonestRows
<1> QED
  BY <1>2, <1>3 DEF HInv, OpenIsUntouched

\* An honest answer passes the parent's validation, but for its names and a list limit of 0.
LEMMA HonestIsValid ==
  ASSUME HInv, honest, worker = "answered"
  PROVE  ValidResponse <=> ~Refused
<1>1. /\ limits["list"] \in Nat /\ Slack \in Nat
      /\ limits["list"] # 0 => Effective("list") = limits["list"]
  BY LimitTypes, BoundAssumption DEF HInv, IInv, TypeOK, LimitNames, Effective
<1>2. Len(rows) = Smaller(Len(archive), Effective("list")) /\ Len(archive) \in Nat
      /\ Effective("list") \in Nat
      /\ \A j \in DOMAIN rows : SlotInOrder(j) /\ names[j] = archive[j].named
  BY LimitTypes DEF HInv, IInv, TypeOK, HonestRows, LimitNames
<1>3. Len(rows) <= limits["list"] + Slack <=> ~(limits["list"] = 0 /\ Len(rows) > Slack)
  <2>1. limits["list"] # 0 => Len(rows) <= limits["list"]
    BY <1>1, <1>2 DEF Smaller
  <2>2. Len(rows) \in Nat
    BY <1>1, <1>2 DEF Smaller
  <2> QED
    BY <1>1, <2>1, <2>2
<1>4. DOMAIN rows = 1..Len(rows)
  BY DEF HInv, IInv, TypeOK
<1>5. (\A j \in 1..Len(rows) : ValidMember(j)) <=> \A j \in 1..Len(rows) : archive[j].named
  BY <1>2, <1>4 DEF ValidMember
<1> QED
  BY <1>3, <1>5 DEF ValidResponse, Refused

\* Every slot an honest answer names can be read and, with all slots before it, fits.
LEMMA HonestSlot ==
  ASSUME HInv, honest, ByteLimitsGiven, worker = "answered",
         NEW j \in 1..Len(rows), rows[j].status = "extracted"
  PROVE  LET k == Cardinality(ExtractedBefore(j))
         IN  /\ k \in Nat /\ rows[j].slot = k + 1 /\ Readable(k + 1)
             /\ BytesUpTo(k + 1) = BytesUpTo(k) + blobs[k + 1]
             /\ Fits(BytesUpTo(k + 1))
<1> DEFINE k == Cardinality(ExtractedBefore(j))
<1>1. /\ TypeOK /\ Len(rows) \in Nat /\ DOMAIN rows = 1..Len(rows)
      /\ extractedCount \in Nat /\ extractedBytes \in Nat
  BY DEF HInv, IInv, TypeOK
<1>2. /\ blobs \in [1..extractedCount -> Nat]
      /\ \A s \in 1..extractedCount : blobs[s] <= Effective("member_bytes")
      /\ BytesUpTo(extractedCount) <= ByteBudget
  BY <1>1 DEF HInv, HonestFiles, TypeOK
<1>3. k \in Nat
  BY ExtractedFinite
<1>4. rows[j].slot = k + 1
  BY <1>1 DEF HInv, HonestRows, SlotInOrder
<1> HIDE DEF k
<1>5. k + 1 \in 1..extractedCount
  BY <1>1, <1>3, <1>4 DEF HInv, HonestRows, NamedSlots, NoSlot
<1>6. /\ Effective("member_bytes") = limits["member_bytes"]
      /\ limits["workspace"] \in Nat /\ limits["total"] \in Nat
      /\ ByteBudget <= limits["total"] /\ ByteBudget <= limits["workspace"]
      /\ ByteBudget \in Nat
  <2>1. \A n \in {"member_bytes", "total", "workspace"} : limits[n] \in Nat \ {0}
    <3>1. \A n \in LimitNames : limits[n] \in Nat
      BY <1>1, LimitTypes DEF TypeOK
    <3>2. {"member_bytes", "total", "workspace"} \subseteq LimitNames
      BY DEF LimitNames
    <3> QED
      BY <3>1, <3>2 DEF ByteLimitsGiven
  <2>2. /\ Effective("member_bytes") = limits["member_bytes"]
        /\ Effective("total") = limits["total"]
        /\ Effective("workspace") = limits["workspace"]
    BY <2>1 DEF Effective
  <2> QED
    BY <2>1, <2>2 DEF ByteBudget, Smaller
<1>7. Readable(k + 1)
  BY <1>2, <1>5, <1>6 DEF Readable
<1>8. BytesUpTo(k + 1) = BytesUpTo(k) + blobs[k + 1] /\ BytesUpTo(k + 1) \in Nat
  <2>1. \A i \in 1..(k + 1) : blobs[i] \in Nat
    BY <1>1, <1>2, <1>3, <1>5
  <2>2. k + 1 \in Nat /\ k + 1 # 0 /\ (k + 1) - 1 = k
    BY <1>3
  <2>3. /\ SumFunctionOnSet(blobs, 1..(k + 1)) \in Nat
        /\ SumFunctionOnSet(blobs, 1..(k + 1))
              = SumFunctionOnSet(blobs, 1..((k + 1) - 1)) + blobs[k + 1]
    BY <2>1, <2>2, SumUpTo
  <2> QED
    BY <2>2, <2>3 DEF BytesUpTo
<1>9. BytesUpTo(k + 1) <= BytesUpTo(extractedCount) /\ BytesUpTo(extractedCount) \in Nat
  <2> DEFINE S == 1..extractedCount
             T == 1..(k + 1)
  <2>1. IsFiniteSet(S) /\ (\A x \in S : blobs[x] \in Nat) /\ T \in SUBSET S /\ S \in SUBSET S
    <3>1. IsFiniteSet(S)
      BY <1>1, FS_Interval
    <3>2. \A x \in S : blobs[x] \in Nat
      BY <1>2
    <3>3. T \in SUBSET S
      BY <1>1, <1>3, <1>5
    <3> QED
      BY <3>1, <3>2, <3>3
  <2> HIDE DEF S, T
  <2>2. SumFunctionOnSet(blobs, T) <= SumFunctionOnSet(blobs, S)
    BY <2>1, SumMonotone
  <2>3. SumFunctionOnSet(blobs, S) \in Nat
    BY <2>1, SumType
  <2> QED
    BY <2>2, <2>3 DEF BytesUpTo, S, T
<1>10. Fits(BytesUpTo(k + 1))
  BY <1>2, <1>6, <1>8, <1>9 DEF Fits
<1> QED
  BY <1>3, <1>4, <1>7, <1>8, <1>10 DEF k

\* Taking up an answer, or giving up on one, and finishing.
LEMMA ParentMovesCount ==
  ASSUME HInv, Validate \/ Complete
  PROVE  HonestCount' /\ ListedToTheEnd'
<1>1. UNCHANGED <<setting, workerVars, item, budget, listed, kept>>
  BY DEF Validate, Complete
<1>2. /\ BytesUpTo(Cardinality(ExtractedBefore(item)))'
           = BytesUpTo(Cardinality(ExtractedBefore(item)))
      /\ ByteLimitsGiven' = ByteLimitsGiven /\ Refused' = Refused
  BY <1>1 DEF BytesUpTo, ExtractedBefore, ByteLimitsGiven, Refused
<1>3. CASE Validate
  <2>1. parent = "waiting" /\ listed = << >> /\ budget = 0
    BY <1>3 DEF Validate, HInv, IInv, ListedFollowsRows, ListedToTheEnd
  <2>2. /\ parent' \in {"ingest", "failed"} /\ worker \in {"answered", "failed"}
        /\ worker = "answered" => (parent' = "failed" <=> ~ValidResponse)
    BY <1>3 DEF Validate
  <2>3. honest /\ worker = "answered" => (parent' = "failed" <=> Refused)
    BY <2>2, HonestIsValid
  <2>4. HonestCount'
    BY <1>1, <1>2, <2>1, <2>3 DEF HInv, HonestCount
  <2> QED
    BY <1>1, <2>1, <2>2, <2>4 DEF ListedToTheEnd
<1>4. CASE Complete
  <2>1. parent = "ingest" /\ parent' = "completed" /\ item > Len(rows)
    BY <1>4 DEF Complete
  <2>2. Len(listed) = Len(rows)
    BY <2>1 DEF HInv, IInv, TypeOK, ListedFollowsRows
  <2> QED
    BY <1>1, <1>2, <2>1, <2>2 DEF HInv, HonestCount, ListedToTheEnd
<1> QED
  BY <1>3, <1>4

\* What ingesting one row appends and counts.
LEMMA RowIngested ==
  ASSUME HInv, IngestRow
  PROVE  \E status, slot :
           /\ listed' = Append(listed, Row(status, slot))
           /\ status \in {rows[item].status, "malformed", "rejected_workspace_budget"}
           /\ \/ /\ rows[item].status # "extracted" /\ slot = NoSlot
                 /\ status = rows[item].status /\ budget' = budget
              \/ /\ rows[item].status = "extracted"
                 /\ Readable(rows[item].slot) /\ Fits(budget + blobs[rows[item].slot]) =>
                      /\ status = "extracted" /\ slot = rows[item].slot
                      /\ budget' = budget + blobs[rows[item].slot]
<1> DEFINE r == rows[item]
<1>1. CASE r.status # "extracted"
  BY <1>1 DEF IngestRow, List
<1>2. CASE r.status = "extracted" /\ ~Readable(r.slot)
  BY <1>2 DEF IngestRow, List
<1>3. CASE r.status = "extracted" /\ Readable(r.slot)
  <2>1. budget' = budget + blobs[r.slot]
    BY <1>3 DEF IngestRow
  <2>2. Fits(budget') <=> Fits(budget + blobs[r.slot])
    BY <2>1
  <2>3. CASE Fits(budget') /\ List("extracted", r.slot)
    BY <1>3, <2>1, <2>2, <2>3 DEF List
  <2>4. CASE ~Fits(budget') /\ List("rejected_workspace_budget", NoSlot)
    BY <1>3, <2>1, <2>2, <2>4 DEF List
  <2> QED
    BY <1>3, <2>3, <2>4 DEF IngestRow
<1> QED
  BY <1>1, <1>2, <1>3

\* Ingesting a row of an honest answer keeps it as it is and counts its slot.
LEMMA IngestCount ==
  ASSUME HInv, IngestRow
  PROVE  HonestCount' /\ ListedToTheEnd'
<1>1. /\ parent = "ingest" /\ worker = "answered" /\ parent' = "ingest"
      /\ item' = item + 1 /\ UNCHANGED <<setting, workerVars>>
      /\ item \in 1..Len(rows) /\ Len(listed) = item - 1
      /\ rows \in Seq(RowType) /\ listed \in Seq(RowType)
  BY DEF HInv, IInv, TypeOK, ListedFollowsRows, IngestRow
<1>2. PICK status, slot :
           /\ listed' = Append(listed, Row(status, slot))
           /\ status \in {rows[item].status, "malformed", "rejected_workspace_budget"}
           /\ \/ /\ rows[item].status # "extracted" /\ slot = NoSlot
                 /\ status = rows[item].status /\ budget' = budget
              \/ /\ rows[item].status = "extracted"
                 /\ Readable(rows[item].slot) /\ Fits(budget + blobs[rows[item].slot]) =>
                      /\ status = "extracted" /\ slot = rows[item].slot
                      /\ budget' = budget + blobs[rows[item].slot]
  BY RowIngested
<1>3. /\ DOMAIN listed' = 1..item /\ DOMAIN listed = 1..(item - 1)
      /\ listed'[item] = Row(status, slot)
      /\ \A j \in 1..(item - 1) : listed'[j] = listed[j]
  <2> HIDE DEF RowType
  <2> QED
    BY <1>1, <1>2
<1>4. ListedToTheEnd'
  <2>1. \A j \in DOMAIN listed' :
          listed'[j].status \in {rows[j].status, "malformed", "rejected_workspace_budget"}
    <3> SUFFICES ASSUME NEW j \in 1..item
                 PROVE  listed'[j].status \in {rows[j].status, "malformed",
                                               "rejected_workspace_budget"}
      BY <1>3
    <3>1. CASE j = item
      BY <1>2, <1>3, <3>1 DEF Row
    <3>2. CASE j # item
      <4>1. j \in 1..(item - 1)
        BY <1>1, <3>2
      <4> QED
        BY <1>3, <4>1 DEF HInv, ListedToTheEnd
    <3> QED
      BY <3>1, <3>2
  <2> QED
    BY <1>1, <2>1 DEF ListedToTheEnd
<1>5. ASSUME honest, ByteLimitsGiven
      PROVE  /\ Row(status, slot) = rows[item]
             /\ budget' = BytesUpTo(Cardinality(ExtractedBefore(item + 1)))
  <2> DEFINE k == Cardinality(ExtractedBefore(item))
  <2>1. budget = BytesUpTo(k) /\ SlotInOrder(item)
    BY <1>1, <1>5 DEF HInv, HonestCount, HonestRows
  <2>2. rows[item] = Row(rows[item].status, rows[item].slot)
    <3>1. rows[item] \in RowType
      BY <1>1
    <3> QED
      BY <3>1 DEF RowType, Row
  <2>3. CASE rows[item].status # "extracted"
    <3>1. rows[item].slot = NoSlot /\ slot = NoSlot /\ status = rows[item].status
          /\ budget' = budget
      BY <1>2, <2>1, <2>3 DEF SlotInOrder
    <3>2. ExtractedBefore(item + 1) = ExtractedBefore(item)
      BY <1>1, <2>3 DEF ExtractedBefore
    <3> QED
      BY <2>1, <2>2, <3>1, <3>2
  <2>4. CASE rows[item].status = "extracted"
    <3>1. /\ k \in Nat /\ rows[item].slot = k + 1 /\ Readable(k + 1)
          /\ BytesUpTo(k + 1) = BytesUpTo(k) + blobs[k + 1]
          /\ Fits(BytesUpTo(k + 1))
      BY <1>1, <1>5, <2>4, HonestSlot
    <3>2. /\ status = rows[item].status /\ slot = rows[item].slot
          /\ budget' = BytesUpTo(k + 1)
      BY <1>2, <2>1, <2>4, <3>1
    <3>3. Cardinality(ExtractedBefore(item + 1)) = k + 1
      <4>1. /\ ExtractedBefore(item + 1) = ExtractedBefore(item) \cup {item}
            /\ item \notin ExtractedBefore(item)
        BY <1>1, <2>4 DEF ExtractedBefore
      <4>2. IsFiniteSet(ExtractedBefore(item))
        BY <1>1, ExtractedFinite
      <4> QED
        BY <4>1, <4>2, FS_AddElement
    <3> QED
      BY <2>2, <3>2, <3>3
  <2> QED
    BY <2>3, <2>4
<1>6. HonestCount'
  <2>1. SUFFICES ASSUME honest, ByteLimitsGiven
                 PROVE  /\ \A j \in DOMAIN listed' : listed'[j] = rows[j]
                        /\ budget' = BytesUpTo(Cardinality(ExtractedBefore(item)))'
    <3>1. ByteLimitsGiven' = ByteLimitsGiven /\ Refused' = Refused
      BY <1>1 DEF ByteLimitsGiven, Refused
    <3> QED
      BY <1>1, <3>1 DEF HInv, HonestCount
  <2>2. \A j \in DOMAIN listed' : listed'[j] = rows[j]
    <3> SUFFICES ASSUME NEW j \in 1..item PROVE listed'[j] = rows[j]
      BY <1>3
    <3>1. CASE j = item
      BY <1>3, <1>5, <2>1, <3>1
    <3>2. CASE j # item
      <4>1. j \in 1..(item - 1)
        BY <1>1, <3>2
      <4> QED
        BY <1>1, <1>3, <2>1, <4>1 DEF HInv, HonestCount
    <3> QED
      BY <3>1, <3>2
  <2>3. BytesUpTo(Cardinality(ExtractedBefore(item)))'
          = BytesUpTo(Cardinality(ExtractedBefore(item + 1)))
    BY <1>1 DEF BytesUpTo, ExtractedBefore
  <2> QED
    BY <1>5, <2>1, <2>2, <2>3
<1> QED
  BY <1>4, <1>6

-----------------------------------------------------------------------------

\* The initial states satisfy the invariant.
LEMMA InitHonest == Init => HInv
<1> SUFFICES ASSUME Init PROVE HInv
  OBVIOUS
<1>1. IInv /\ TypeOK
  BY InitInvariant DEF IInv
<1>2. ByteBudget \in Nat
  BY <1>1, LimitTypes DEF TypeOK
<1>3. HonestFiles
  <2>1. SumFunctionOnSet(blobs, 1..0) = 0 /\ DOMAIN blobs = 1..0
    BY SumUpTo DEF Init
  <2>2. SlotBytes = 0 /\ BytesUpTo(extractedCount) = 0
    BY <2>1 DEF Init, SlotBytes, BytesUpTo, SumFunction
  <2> QED
    BY <1>2, <2>1, <2>2 DEF Init, HonestFiles
<1>4. HonestRows /\ HonestCount /\ OpenIsUntouched
  BY DEF Init, HonestRows, HonestCount, OpenIsUntouched
<1>5. ListedToTheEnd
  BY DEF Init, ListedToTheEnd
<1> QED
  BY <1>1, <1>3, <1>4, <1>5 DEF HInv

(***************************************************************************)
(* The invariant of the honest worker, for all archives and limits         *)
(* (container_extract.run_extract against container_runner.extract).       *)
(***************************************************************************)
THEOREM HonestInvariant == Spec => []HInv
<1>1. HInv /\ [Next]_vars => HInv'
  <2> SUFFICES ASSUME HInv, [Next]_vars PROVE HInv'
    OBVIOUS
  <2>0. IInv
    BY DEF HInv
  <2>1. CASE Worker
    <3>1. IInv'
      BY <2>0, <2>1, WorkerStep, WorkerKeepsAnswer DEF IInv
    <3> QED
      BY <2>1, <3>1, FilesStep, RowsStep, WorkerStepCount DEF HInv
  <2>2. CASE IngestRow
    <3>1. UNCHANGED <<setting, workerVars>>
      BY <2>2 DEF IngestRow
    <3> QED
      BY <2>0, <2>2, <3>1, IngestStep, ParentLeavesWorker, IngestCount DEF HInv
  <2>3. CASE Validate \/ Complete
    <3>1. UNCHANGED <<setting, workerVars>>
      BY <2>3 DEF Validate, Complete
    <3> QED
      BY <2>0, <2>3, <3>1, ParentMoves, ParentLeavesWorker, ParentMovesCount DEF HInv
  <2>4. CASE UNCHANGED vars
    <3>1. UNCHANGED <<setting, workerVars>> /\ UNCHANGED parentVars
      BY <2>4 DEF vars
    <3>2. IInv'
      BY <2>0, <3>1 DEF IInv, TypeOK, WorkerInBounds, ListedFollowsRows, KeptWasCounted,
                        Fits, ValidResponse, ValidMember, SlotInOrder, ExtractedBefore
    <3>3. HonestCount' /\ ListedToTheEnd'
      BY <3>1 DEF HInv, HonestCount, ListedToTheEnd, BytesUpTo, ExtractedBefore, ByteLimitsGiven,
             Refused
    <3> QED
      BY <3>1, <3>2, <3>3, ParentLeavesWorker DEF HInv
  <2> QED
    BY <2>1, <2>2, <2>3, <2>4 DEF Next, Parent
<1> QED
  BY <1>1, InitHonest, PTL DEF Spec

(***************************************************************************)
(* An honest worker never has more bytes on disk than either byte limit    *)
(* allows, the member being copied included, whatever the archive claims   *)
(* (container_extract.py counts each chunk before it writes it).           *)
(***************************************************************************)
THEOREM DiskStaysWithinBudget == Spec => []DiskWithinBudget
<1>1. HInv => DiskWithinBudget
  <2> SUFFICES ASSUME HInv, honest
               PROVE  SlotBytes <= Effective("total") /\ SlotBytes <= Effective("workspace")
    BY DEF DiskWithinBudget
  <2>1. SlotBytes <= ByteBudget
    BY DEF HInv, HonestFiles
  <2>2. Effective("total") \in Nat /\ Effective("workspace") \in Nat
    BY LimitTypes DEF HInv, IInv, TypeOK, LimitNames
  <2>3. IsFiniteSet(DOMAIN blobs) /\ SlotBytes \in Nat
    <3>1. IsFiniteSet(DOMAIN blobs)
      <4>1. /\ IsFiniteSet(1..extractedCount) /\ IsFiniteSet(1..nextSlot)
        <5>1. extractedCount \in Int /\ nextSlot \in Int
          BY DEF HInv, IInv, TypeOK
        <5> QED
          BY <5>1, FS_Interval
      <4> QED
        BY <4>1 DEF HInv, HonestFiles
    <3>2. \A s \in DOMAIN blobs : blobs[s] \in Nat
      BY DEF HInv, IInv, TypeOK
    <3> QED
      BY <3>1, <3>2, SumType DEF SlotBytes, SumFunction
  <2> QED
    BY <2>1, <2>2, <2>3 DEF ByteBudget, Smaller
<1> QED
  BY <1>1, HonestInvariant, PTL

(***************************************************************************)
(* What an honest worker answers is refused exactly for a listed name the  *)
(* parent does not take, or for a list limit of 0 that the two sides read  *)
(* differently; else the parent, counting again, keeps every member the    *)
(* worker extracted, if no byte limit is 0 (container_protocol.py against  *)
(* container_extract.py).                                                  *)
(***************************************************************************)
THEOREM HonestAnswersAreKept == Spec => []HonestAnswerKept
<1>1. HInv => HonestAnswerKept
  BY DEF HInv, HonestCount, HonestAnswerKept
<1> QED
  BY <1>1, HonestInvariant, PTL

(***************************************************************************)
(* When an honest worker has answered, the files it leaves are exactly the *)
(* slots its rows name.                                                    *)
(***************************************************************************)
THEOREM FilesAreTheSlots == Spec => []SlotsMatchFiles
<1>1. HInv => SlotsMatchFiles
  <2> SUFFICES ASSUME HInv, honest, worker = "answered" PROVE DOMAIN blobs = NamedSlots
    BY DEF SlotsMatchFiles, NamedSlots
  <2> QED
    BY DEF HInv, HonestFiles, HonestRows
<1> QED
  BY <1>1, HonestInvariant, PTL

(***************************************************************************)
(* Nothing of an expanded container disappears: every member is listed or  *)
(* the listing is announced as truncated, and recursion gets its bytes or  *)
(* a finding, unless it is a directory (container_runner._skip_for_status).*)
(***************************************************************************)
THEOREM NothingIsLostSilently == Spec => []NothingLostSilently
<1>1. HInv => NothingLostSilently
  <2> SUFFICES ASSUME HInv, honest, parent = "completed", limits["contents"],
                      ~Office(Len(rows))
               PROVE  /\ Len(listed) = Len(archive) \/ TruncatedListing
                      /\ \A j \in DOMAIN listed :
                           \/ CandidateFor(listed[j]).data
                           \/ CandidateFor(listed[j]).finding # "none"
                           \/ archive[j].directory
    BY DEF NothingLostSilently
  <2>1. /\ worker = "answered" /\ Len(listed) = Len(rows) /\ TypeOK
        /\ DOMAIN listed = 1..Len(rows) /\ DOMAIN rows = 1..Len(rows) /\ Len(rows) \in Nat
        /\ row \in Nat /\ Len(archive) \in Nat
    BY DEF HInv, IInv, ListedFollowsRows, ListedToTheEnd, TypeOK
  <2>2. Len(rows) = Smaller(Len(archive), Effective("list")) /\ Effective("list") \in Nat
    BY <2>1, LimitTypes DEF HInv, HonestRows, TypeOK, LimitNames
  <2>3. Len(listed) = Len(archive) \/ TruncatedListing
    BY <2>1, <2>2 DEF Smaller, TruncatedListing
  <2>4. ASSUME NEW j \in 1..Len(rows)
        PROVE  \/ CandidateFor(listed[j]).data
               \/ CandidateFor(listed[j]).finding # "none"
               \/ archive[j].directory
    <3>1. /\ row > Len(rows) /\ SlotInOrder(j)
          /\ j < row => rows[j].status # "skipped"
          /\ rows[j].status = "directory" => archive[j].directory
      BY <2>1 DEF HInv, HonestRows
    <3>2. rows[j].status \in EXTRACTION_STATUSES \ {"skipped"}
      BY <2>1, <3>1 DEF SlotInOrder
    <3>3. listed[j].status \in {rows[j].status, "malformed", "rejected_workspace_budget"}
      BY <2>1 DEF HInv, ListedToTheEnd
    <3>4. CASE listed[j].status = "directory"
      BY <3>1, <3>3, <3>4
    <3>5. CASE listed[j].status # "directory"
      <4>1. listed[j].status \in EXTRACTION_STATUSES \ {"skipped", "directory"}
        BY <3>2, <3>3, <3>5 DEF EXTRACTION_STATUSES
      <4> QED
        BY <4>1 DEF CandidateFor, SkipFor, Candidate, EXTRACTION_STATUSES
    <3> QED
      BY <3>4, <3>5
  <2> QED
    BY <2>1, <2>3, <2>4
<1> QED
  BY <1>1, HonestInvariant, PTL
=============================================================================
