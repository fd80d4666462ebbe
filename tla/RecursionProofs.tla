-------------------------- MODULE RecursionProofs --------------------------
(***************************************************************************)
(* The properties of Recursion for every set of contents, every nesting,   *)
(* cyclic ones too, and every depth cap.                                   *)
(*                                                                         *)
(* The first lemmas say what pushing, popping and replacing the last       *)
(* element does to a sequence, then what each kind of step does to the     *)
(* stack of calls.  A step either moves the innermost frame on, enters a   *)
(* member or returns.  The inductive invariant IInv is proved in four      *)
(* layers: CallInv (nesting, one analysis per content, only listed ZIPs    *)
(* are walked), and on top of it that started runs are not noted in, that  *)
(* what is not expanded is explained, and that the relationships are       *)
(* exactly those of the members passed so far.  Then come two facts about  *)
(* effort: a content is given to a worker once, and no analysis goes on    *)
(* for ever (WorkLeft, a sum, falls with every step: SumLemmas).           *)
(***************************************************************************)
EXTENDS Recursion, SumLemmas, SequenceTheorems, TLAPS

USE DEF setting, runVars

\* What appending an element does to a sequence.
LEMMA Push ==
  ASSUME NEW S, NEW s \in Seq(S), NEW e \in S
  PROVE  /\ Append(s, e) \in Seq(S) /\ Append(s, e) # << >>
         /\ Len(Append(s, e)) = Len(s) + 1
         /\ Last(Append(s, e)) = e /\ Append(s, e)[Len(s) + 1] = e
         /\ \A j \in 1..Len(s) : Append(s, e)[j] = s[j]
<1>1. /\ Append(s, e) \in Seq(S) /\ Len(Append(s, e)) = Len(s) + 1
      /\ Append(s, e)[Len(s) + 1] = e
      /\ \A j \in 1..Len(s) : Append(s, e)[j] = s[j]
  OBVIOUS
<1>2. Append(s, e) # << >>
  BY <1>1, EmptySeq
<1> QED
  BY <1>1, <1>2 DEF Last

\* What dropping the last element of a sequence leaves.
LEMMA Pop ==
  ASSUME NEW S, NEW s \in Seq(S), s # << >>
  PROVE  /\ Front(s) \in Seq(S) /\ Len(Front(s)) = Len(s) - 1 /\ Len(s) \in Nat \ {0}
         /\ \A j \in 1..(Len(s) - 1) : Front(s)[j] = s[j]
<1>1. Len(s) \in Nat \ {0}
  BY EmptySeq
<1>2. \A j \in 1..(Len(s) - 1) : s[j] \in S
  BY <1>1, ElementOfSeq
<1>3. Len(s) - 1 \in Int /\ 1 \in Int
  BY <1>1
<1>4. /\ SubSeq(s, 1, Len(s) - 1) \in Seq(S)
      /\ Len(SubSeq(s, 1, Len(s) - 1)) = IF 1 <= Len(s) - 1 THEN (Len(s) - 1) - 1 + 1 ELSE 0
      /\ \A i \in 1 .. (Len(s) - 1) - 1 + 1 : SubSeq(s, 1, Len(s) - 1)[i] = s[1 + i - 1]
  BY <1>2, <1>3, SubSeqProperties
<1>5. \A j \in 1..(Len(s) - 1) : SubSeq(s, 1, Len(s) - 1)[j] = s[j]
  BY <1>1, <1>4
<1>6. Len(SubSeq(s, 1, Len(s) - 1)) = Len(s) - 1
  <2> DEFINE n == Len(SubSeq(s, 1, Len(s) - 1))
             m == Len(s)
  <2>1. n = (IF 1 <= m - 1 THEN (m - 1) - 1 + 1 ELSE 0) /\ m \in Nat \ {0}
    BY <1>1, <1>4
  <2> HIDE DEF n, m
  <2>2. n = m - 1
    BY <2>1
  <2> QED
    BY <2>2 DEF n, m
<1> QED
  BY <1>1, <1>4, <1>5, <1>6 DEF Front

\* What replacing the last element of a sequence does.
LEMMA ReplaceLast ==
  ASSUME NEW S, NEW s \in Seq(S), s # << >>, NEW e \in S
  PROVE  /\ Append(Front(s), e) \in Seq(S) /\ Append(Front(s), e) # << >>
         /\ Len(Append(Front(s), e)) = Len(s)
         /\ Last(Append(Front(s), e)) = e /\ Append(Front(s), e)[Len(s)] = e
         /\ \A j \in 1..(Len(s) - 1) : Append(Front(s), e)[j] = s[j]
<1>1. PICK f \in Seq(S) :
        /\ f = Front(s) /\ Len(f) = Len(s) - 1 /\ Len(s) \in Nat \ {0}
        /\ \A j \in 1..(Len(s) - 1) : f[j] = s[j]
  BY Pop
<1>2. /\ Append(f, e) \in Seq(S) /\ Append(f, e) # << >> /\ Len(Append(f, e)) = Len(f) + 1
      /\ Last(Append(f, e)) = e /\ Append(f, e)[Len(f) + 1] = e
      /\ \A j \in 1..Len(f) : Append(f, e)[j] = f[j]
  BY <1>1, Push
<1> QED
  BY <1>1, <1>2

\* An appended element joins those of the sequence.
LEMMA RangeOfAppend ==
  ASSUME NEW S, NEW s \in Seq(S), NEW e \in S
  PROVE  Range(Append(s, e)) = Range(s) \cup {e}
<1>1. DOMAIN Append(s, e) = 1..(Len(s) + 1) /\ DOMAIN s = 1..Len(s) /\ Len(s) \in Nat
  OBVIOUS
<1>2. \A j \in 1..Len(s) : Append(s, e)[j] = s[j]
  OBVIOUS
<1>3. Append(s, e)[Len(s) + 1] = e
  OBVIOUS
<1>4. 1..(Len(s) + 1) = (1..Len(s)) \cup {Len(s) + 1}
  BY <1>1
<1> QED
  BY <1>1, <1>2, <1>3, <1>4 DEF Range

\* What is known of the contents: their kinds and member lists are well typed.
LEMMA Files ==
  ASSUME TypeOK, NEW c \in Contents
  PROVE  /\ files \in [Contents -> FileType]
         /\ files[c].kind \in Types /\ files[c].truncated \in BOOLEAN
         /\ files[c].members \in Seq(MemberType)
         /\ Len(files[c].members) \in Nat
         /\ DOMAIN files[c].members = 1..Len(files[c].members)
BY UniverseAssumption DEF TypeOK, FileType

\* The innermost frame is the last of the stack, and well typed.
LEMMA TopFacts ==
  ASSUME TypeOK, stack # << >>
  PROVE  /\ Top \in FrameType /\ Top = stack[Len(stack)]
         /\ Len(stack) \in Nat \ {0} /\ Len(stack) \in DOMAIN stack
         /\ DOMAIN stack = 1..Len(stack)
         /\ Top.content \in Contents /\ Top.depth \in Nat
         /\ Top.at \in Places /\ Top.inspected \in BOOLEAN /\ Top.type \in Types
         /\ Top.next \in 1..(Len(files[Top.content].members) + 1)
<1>1. stack \in Seq(FrameType)
  BY DEF TypeOK
<1>2. Len(stack) \in Nat \ {0} /\ DOMAIN stack = 1..Len(stack)
  BY <1>1, EmptySeq
<1>3. Len(stack) \in 1..Len(stack)
  BY <1>2
<1>4. Top = stack[Len(stack)]
  BY DEF Top, Last
<1>5. Top \in FrameType
  BY <1>1, <1>3, <1>4, ElementOfSeq
<1>6. Top.next \in 1..(Len(files[Top.content].members) + 1)
  BY <1>2, <1>3, <1>4 DEF TypeOK
<1> QED
  BY <1>2, <1>3, <1>4, <1>5, <1>6 DEF FrameType

\* The frames below the innermost call stay as they are.
SameBelow == \A j \in DOMAIN stack : j # Len(stack) => stack'[j] = stack[j]

\* What replacing the innermost frame does to the stack.
LEMMA TopMoves ==
  ASSUME TypeOK, stack # << >>, NEW f \in FrameType, SetTop(f)
  PROVE  /\ stack' \in Seq(FrameType) /\ stack' # << >> /\ Len(stack') = Len(stack)
         /\ DOMAIN stack' = DOMAIN stack
         /\ Top' = f /\ stack'[Len(stack)] = f /\ SameBelow
<1>1. stack \in Seq(FrameType) /\ DOMAIN stack = 1..Len(stack) /\ Len(stack) \in Nat \ {0}
  BY TopFacts DEF TypeOK
<1> DEFINE t == Append(Front(stack), f)
<1>2. t \in Seq(FrameType) /\ t # << >> /\ Len(t) = Len(stack)
  BY <1>1, ReplaceLast
<1>7. Last(t) = f /\ t[Len(stack)] = f
  BY <1>1, ReplaceLast
<1>3. \A j \in 1..(Len(stack) - 1) : t[j] = stack[j]
  BY <1>1, ReplaceLast
<1>4. stack' = t
  BY DEF SetTop
<1> HIDE DEF t
<1>5. SameBelow
  BY <1>1, <1>3, <1>4 DEF SameBelow
<1>6. Top' = f
  BY <1>4, <1>7 DEF Top
<1> QED
  BY <1>1, <1>2, <1>4, <1>5, <1>6, <1>7

\* What entering a member does to the stack.
LEMMA Descends ==
  ASSUME TypeOK, stack # << >>, NEW e \in FrameType, NEW f \in FrameType,
         stack' = Append(Append(Front(stack), e), f)
  PROVE  /\ stack' \in Seq(FrameType) /\ stack' # << >> /\ Len(stack') = Len(stack) + 1
         /\ DOMAIN stack' = DOMAIN stack \cup {Len(stack) + 1}
         /\ Len(stack) + 1 \notin DOMAIN stack
         /\ Top' = f /\ stack'[Len(stack) + 1] = f
         /\ stack'[Len(stack)] = e /\ SameBelow
<1>1. stack \in Seq(FrameType) /\ DOMAIN stack = 1..Len(stack) /\ Len(stack) \in Nat \ {0}
  BY TopFacts DEF TypeOK
<1> DEFINE t == Append(Front(stack), e)
<1>2. t \in Seq(FrameType) /\ Len(t) = Len(stack) /\ t[Len(stack)] = e
  BY <1>1, ReplaceLast
<1>3. \A j \in 1..(Len(stack) - 1) : t[j] = stack[j]
  BY <1>1, ReplaceLast
<1>4. stack' = Append(t, f)
  OBVIOUS
<1> HIDE DEF t
<1>5. /\ stack' \in Seq(FrameType) /\ stack' # << >> /\ Len(stack') = Len(stack) + 1
      /\ Last(stack') = f /\ stack'[Len(stack) + 1] = f
  BY <1>2, <1>4, Push
<1>6. \A j \in 1..Len(stack) : stack'[j] = t[j]
  BY <1>2, <1>4, Push
<1>7. DOMAIN stack' = DOMAIN stack \cup {Len(stack) + 1} /\ Len(stack) + 1 \notin DOMAIN stack
  <2>1. DOMAIN stack' = 1..(Len(stack) + 1)
    BY <1>5
  <2> QED
    BY <1>1, <2>1
<1>8. SameBelow
  <2> SUFFICES ASSUME NEW j \in DOMAIN stack, j # Len(stack) PROVE stack'[j] = stack[j]
    BY DEF SameBelow
  <2>1. j \in 1..Len(stack) /\ j \in 1..(Len(stack) - 1)
    BY <1>1
  <2>2. t[j] = stack[j]
    BY <1>3, <2>1
  <2>3. stack'[j] = t[j]
    BY <1>6, <2>1
  <2> QED
    BY <2>2, <2>3
<1>10. stack'[Len(stack)] = e
  <2>1. Len(stack) \in 1..Len(stack)
    BY <1>1
  <2>2. stack'[Len(stack)] = t[Len(stack)]
    BY <1>6, <2>1
  <2> QED
    BY <1>2, <2>2
<1>9. Top' = f
  BY <1>5 DEF Top
<1> QED
  BY <1>5, <1>7, <1>8, <1>9, <1>10

\* What returning from a call does to the stack.
LEMMA Returns ==
  ASSUME TypeOK, stack # << >>, stack' = Front(stack)
  PROVE  /\ stack' \in Seq(FrameType) /\ Len(stack') = Len(stack) - 1
         /\ DOMAIN stack' = DOMAIN stack \ {Len(stack)}
         /\ \A j \in DOMAIN stack' : stack'[j] = stack[j]
         /\ stack' # << >> => Top' = stack[Len(stack) - 1] /\ Len(stack) - 1 \in DOMAIN stack'
<1>1. stack \in Seq(FrameType) /\ DOMAIN stack = 1..Len(stack) /\ Len(stack) \in Nat \ {0}
  BY TopFacts DEF TypeOK
<1>2. /\ stack' \in Seq(FrameType) /\ Len(stack') = Len(stack) - 1
      /\ \A j \in 1..(Len(stack) - 1) : stack'[j] = stack[j]
  BY <1>1, Pop
<1>3. DOMAIN stack' = 1..(Len(stack) - 1)
  BY <1>2
<1>4. ASSUME stack' # << >> PROVE Top' = stack[Len(stack) - 1] /\ Len(stack) - 1 \in DOMAIN stack'
  <2>1. Len(stack') \in Nat \ {0}
    BY <1>2, <1>4, EmptySeq
  <2> QED
    BY <1>1, <1>2, <1>3, <2>1 DEF Top, Last
<1> QED
  BY <1>1, <1>2, <1>3, <1>4

\* Replacing the innermost frame by a well-typed one leaves the stack well typed.
LEMMA MoveTyped ==
  ASSUME TypeOK, stack # << >>, NEW f \in FrameType, SetTop(f), UNCHANGED setting,
         f.next \in 1..(Len(files[f.content].members) + 1)
  PROVE  /\ files' \in Universes /\ maxDepth' \in Depths /\ recursion' \in BOOLEAN
         /\ stack' \in Seq(FrameType)
         /\ \A j \in DOMAIN stack' : stack'[j].next \in 1..(Len(files'[stack'[j].content].members) + 1)
<1>1. /\ stack' \in Seq(FrameType) /\ DOMAIN stack' = DOMAIN stack
      /\ stack'[Len(stack)] = f /\ SameBelow
  BY TopMoves
<1>2. files' = files
  BY DEF setting
<1>3. ASSUME NEW j \in DOMAIN stack'
      PROVE  stack'[j].next \in 1..(Len(files'[stack'[j].content].members) + 1)
  <2>1. CASE j = Len(stack)
    BY <1>1, <1>2, <2>1
  <2>2. CASE j # Len(stack)
    <3>1. stack'[j] = stack[j] /\ j \in DOMAIN stack
      BY <1>1, <1>3, <2>2 DEF SameBelow
    <3> QED
      BY <1>2, <3>1 DEF TypeOK
  <2> QED
    BY <2>1, <2>2
<1> QED
  BY <1>1, <1>3 DEF TypeOK, setting

\* _ingest_limit appends a run or changes one of the same artifact; findings only grow.
LEMMA Ingested ==
  ASSUME TypeOK, NEW c \in Contents, NEW ids, IngestLimits(c, ids)
  PROVE  /\ runs' \in Seq(RunType) /\ DOMAIN runs \subseteq DOMAIN runs'
         /\ started' = started /\ findings \subseteq findings'
         /\ \A i \in ids : [artifact |-> c, id |-> i] \in findings'
         /\ \A j \in DOMAIN runs :
              runs'[j] # runs[j] => runs[j].artifact = c /\ runs'[j].artifact = c
<1>1. runs \in Seq(RunType) /\ Run(c, "completed") \in RunType /\ DOMAIN runs = 1..Len(runs)
  BY DEF TypeOK, Run, RunType, RunStatus
<1>2. started' = started /\ findings \subseteq findings'
      /\ \A i \in ids : [artifact |-> c, id |-> i] \in findings'
  BY DEF IngestLimits
<1>3. CASE UNCHANGED runs
  BY <1>1, <1>2, <1>3
<1>4. CASE runs' = Append(runs, Run(c, "completed"))
  <2>1. runs' \in Seq(RunType) /\ Len(runs') = Len(runs) + 1 /\ Len(runs) \in Nat
    BY <1>1, <1>4
  <2>2. \A j \in 1..Len(runs) : runs'[j] = runs[j]
    BY <1>1, <1>4
  <2>3. DOMAIN runs \subseteq DOMAIN runs'
    BY <1>1, <2>1
  <2> QED
    BY <1>1, <1>2, <2>1, <2>2, <2>3
<1>5. CASE \E j \in DOMAIN runs : LastRun(c, j) /\ runs' = [runs EXCEPT ![j] = Run(c, "completed")]
  <2>1. PICK j \in DOMAIN runs : LastRun(c, j) /\ runs' = [runs EXCEPT ![j] = Run(c, "completed")]
    BY <1>5
  <2>2. runs' \in Seq(RunType) /\ DOMAIN runs' = DOMAIN runs
    BY <1>1, <2>1, ExceptSeq
  <2>3. runs[j].artifact = c /\ runs'[j] = Run(c, "completed")
    BY <2>1 DEF LastRun
  <2>4. \A k \in DOMAIN runs : k # j => runs'[k] = runs[k]
    BY <1>1, <2>1
  <2>5. Run(c, "completed").artifact = c
    BY DEF Run
  <2> QED
    BY <1>2, <2>2, <2>3, <2>4, <2>5
<1> QED
  BY <1>3, <1>4, <1>5 DEF IngestLimits

\* What starting a broker worker adds to their record.
LEMMA BrokersGrow ==
  ASSUME TypeOK, NEW c \in Contents, NEW kind \in {"zip", "ole"}, NEW status \in RunStatus,
         brokers' = Append(brokers, Broker(c, kind, status))
  PROVE  /\ brokers' \in Seq(BrokerType)
         /\ Range(brokers') = Range(brokers) \cup {Broker(c, kind, status)}
<1>1. brokers \in Seq(BrokerType) /\ Broker(c, kind, status) \in BrokerType
  BY DEF TypeOK, Broker, BrokerType
<1> QED
  BY <1>1, RangeOfAppend

\* Every file on the stack has a frame that is well typed.
LEMMA FrameTyped ==
  ASSUME NEW c \in Contents, NEW d \in Nat, TypeOK
  PROVE  /\ Frame(c, d) \in FrameType
         /\ Frame(c, d).content = c /\ Frame(c, d).depth = d
         /\ Frame(c, d).at = "open" /\ Frame(c, d).inspected = FALSE
         /\ Frame(c, d).type = MagicType(c)
         /\ Frame(c, d).next = Len(files[c].members) + 1
<1>1. files[c].kind \in Types /\ Len(files[c].members) \in Nat
  BY Files
<1>2. MagicType(c) \in Types
  BY <1>1 DEF MagicType, Types
<1> QED
  BY <1>1, <1>2 DEF Frame, FrameType, Places

\* The initial states are well typed.
LEMMA TypeInit == Init => TypeOK
<1> SUFFICES ASSUME Init PROVE TypeOK
  OBVIOUS
<1>1. /\ files \in Universes /\ maxDepth \in Depths /\ recursion \in BOOLEAN
      /\ stack = <<Frame(Root, 0)>> /\ artifacts = {Root} /\ contains = {}
      /\ runs = << >> /\ started = {} /\ findings = {}
      /\ brokers = << >> /\ analyzed = << >>
  BY DEF Init
<1>2. /\ files[Root].kind \in Types /\ Len(files[Root].members) \in Nat
  BY <1>1, RootAssumption, UniverseAssumption DEF FileType
<1>3. MagicType(Root) \in Types
  BY <1>2 DEF MagicType, Types
<1>4. /\ Frame(Root, 0) \in FrameType /\ Frame(Root, 0).content = Root
      /\ Frame(Root, 0).next = Len(files[Root].members) + 1
  BY <1>2, <1>3, RootAssumption DEF Frame, FrameType, Places
<1> DEFINE f == Frame(Root, 0)
<1> HIDE DEF f
<1>5. stack \in Seq(FrameType) /\ DOMAIN stack = {1} /\ stack[1] = f
  BY <1>1, <1>4 DEF f
<1>6. \A j \in DOMAIN stack : stack[j].next \in 1..(Len(files[stack[j].content].members) + 1)
  BY <1>2, <1>4, <1>5 DEF f
<1>7. runs \in Seq(RunType) /\ started \subseteq DOMAIN runs /\ brokers \in Seq(BrokerType)
      /\ analyzed \in Seq(Contents)
  BY <1>1
<1> QED
  BY <1>1, <1>5, <1>6, <1>7, RootAssumption DEF TypeOK

\* A step that replaces the innermost frame by f.
Move(f) ==
  /\ stack # << >> /\ f \in FrameType /\ SetTop(f) /\ UNCHANGED setting
  /\ f.content = Top.content /\ f.depth = Top.depth

\* Each action but Descend and Return moves the innermost call on.
Moved ==
  \E f \in FrameType : Move(f) /\ f.next \in 1..(Len(files[f.content].members) + 1)

\* Opening, refining and analyzing a file move its frame on.
LEMMA OpeningMoves ==
  ASSUME TypeOK,
         PassUnopened \/ StopAtDepth \/ OpenFails \/ OpenContainer \/ RefineOle \/ RunAnalyzers
  PROVE  Moved
<1>1. stack # << >>
  BY DEF PassUnopened, StopAtDepth, OpenFails, OpenContainer, RefineOle, RunAnalyzers, At
<1>2. Top \in FrameType /\ Top.next \in 1..(Len(files[Top.content].members) + 1)
  BY <1>1, TopFacts
<1>3. /\ Top.content \in Contents /\ Len(files[Top.content].members) \in Nat
      /\ files[Top.content].kind \in Types
  BY <1>1, TopFacts, Files
<1>4. 1 \in 1..(Len(files[Top.content].members) + 1) /\ 1 \in Nat
  BY <1>3
<1>5. UNCHANGED setting
  BY DEF PassUnopened, StopAtDepth, OpenFails, OpenContainer, RefineOle, RunAnalyzers
<1> DEFINE Ok(f) == /\ f \in FrameType /\ SetTop(f) /\ f.content = Top.content
                    /\ f.depth = Top.depth /\ f.next \in {1, Top.next}
<1>6. CASE PassUnopened
  <2> DEFINE f == [Top EXCEPT !.at = IF Top.type = "ole" THEN "refine" ELSE "analyze"]
  <2>1. Ok(f)
    BY <1>2, <1>6 DEF PassUnopened, FrameType, Places
  <2> QED
    BY <1>1, <1>2, <1>5, <2>1, <1>4 DEF Moved, Move
<1>7. CASE StopAtDepth
  <2> DEFINE f == [Top EXCEPT !.at = "analyze"]
  <2>1. Ok(f)
    BY <1>2, <1>7 DEF StopAtDepth, FrameType, Places
  <2> QED
    BY <1>1, <1>2, <1>5, <2>1, <1>4 DEF Moved, Move
<1>8. CASE OpenFails
  <2> DEFINE f == [Top EXCEPT !.at = "analyze", !.inspected = TRUE]
  <2>1. Ok(f)
    BY <1>2, <1>8 DEF OpenFails, FrameType, Places
  <2> QED
    BY <1>1, <1>2, <1>5, <2>1, <1>4 DEF Moved, Move
<1>9. CASE OpenContainer
  <2> DEFINE file == files[Top.content]
             f == [Top EXCEPT !.at = "analyze", !.inspected = TRUE, !.type = file.kind,
                              !.next = IF recursion /\ file.kind = "zip" THEN 1 ELSE @]
  <2>1. SetTop(f)
    BY <1>9 DEF OpenContainer
  <2>2. f \in FrameType /\ f.content = Top.content /\ f.depth = Top.depth /\ f.next \in {1, Top.next}
    BY <1>2, <1>3, <1>4 DEF FrameType, Places
  <2> QED
    BY <1>1, <1>2, <1>5, <2>1, <2>2, <1>4 DEF Moved, Move
<1>10. CASE RefineOle
  <2> DEFINE f == [Top EXCEPT !.at = "analyze"]
  <2>1. Ok(f)
    BY <1>2, <1>10 DEF RefineOle, FrameType, Places
  <2> QED
    BY <1>1, <1>2, <1>5, <2>1, <1>4 DEF Moved, Move
<1>11. CASE RunAnalyzers
  <2> DEFINE f == [Top EXCEPT !.at = "walk"]
  <2>1. Ok(f)
    BY <1>2, <1>11 DEF RunAnalyzers, FrameType, Places
  <2> QED
    BY <1>1, <1>2, <1>5, <2>1, <1>4 DEF Moved, Move
<1> QED
  BY <1>6, <1>7, <1>8, <1>9, <1>10, <1>11

\* A member of the file that is being walked.
LEMMA MemberFacts ==
  ASSUME TypeOK, NEW status, AtMember(status)
  PROVE  /\ stack # << >> /\ Top.at = "walk"
         /\ Top.content \in Contents /\ Top.next \in DOMAIN files[Top.content].members
         /\ Member \in MemberType /\ Member.status \in status
         /\ Member.content \in Contents \cup {"none"}
         /\ (Member.status = "extracted" <=> Member.content # "none")
         /\ Advance \in FrameType /\ Advance.content = Top.content
         /\ Advance.depth = Top.depth /\ Advance.at = "walk" /\ Advance.next = Top.next + 1
         /\ Advance.type = Top.type /\ Advance.inspected = Top.inspected
         /\ Advance.next \in 1..(Len(files[Top.content].members) + 1)
<1>1. stack # << >> /\ Top.at = "walk" /\ Member.status \in status
      /\ Top.next <= Len(files[Top.content].members)
  BY DEF AtMember, At
<1>2. /\ Top \in FrameType /\ Top.content \in Contents
      /\ Top.next \in 1..(Len(files[Top.content].members) + 1)
  BY <1>1, TopFacts
<1>3. /\ files[Top.content].members \in Seq(MemberType)
      /\ Len(files[Top.content].members) \in Nat
      /\ DOMAIN files[Top.content].members = 1..Len(files[Top.content].members)
  BY <1>2, Files
<1>4. Top.next \in 1..Len(files[Top.content].members)
  BY <1>1, <1>2, <1>3
<1>5. Member \in MemberType
  BY <1>3, <1>4, ElementOfSeq DEF Member
<1>6. /\ Member.content \in Contents \cup {"none"}
      /\ (Member.status = "extracted" <=> Member.content # "none")
  BY <1>5 DEF MemberType
<1>7. /\ Advance \in FrameType /\ Advance.content = Top.content
      /\ Advance.depth = Top.depth /\ Advance.at = "walk" /\ Advance.next = Top.next + 1
      /\ Advance.type = Top.type /\ Advance.inspected = Top.inspected
  BY <1>1, <1>2 DEF Advance, FrameType
<1>8. Advance.next \in 1..(Len(files[Top.content].members) + 1)
  BY <1>3, <1>4, <1>7
<1> QED
  BY <1>1, <1>2, <1>3, <1>4, <1>5, <1>6, <1>7, <1>8

\* Passing a member moves the frame of its container on.
LEMMA WalkingMoves ==
  ASSUME TypeOK, PassDirectory \/ StubMember \/ LinkDuplicate
  PROVE  Moved
<1>1. PICK status : AtMember(status)
  BY DEF PassDirectory, StubMember, LinkDuplicate
<1>2. SetTop(Advance) /\ UNCHANGED setting
  BY DEF PassDirectory, StubMember, LinkDuplicate
<1>3. /\ stack # << >> /\ Advance \in FrameType /\ Advance.content = Top.content
      /\ Advance.depth = Top.depth
      /\ Advance.next \in 1..(Len(files[Top.content].members) + 1)
  BY <1>1, MemberFacts
<1> QED
  BY <1>2, <1>3 DEF Moved, Move

\* The stack and the settings stay typed when a file is entered or left.
StackTyped ==
  /\ files \in Universes /\ maxDepth \in Depths /\ recursion \in BOOLEAN
  /\ stack \in Seq(FrameType)
  /\ \A j \in DOMAIN stack : stack[j].next \in 1..(Len(files[stack[j].content].members) + 1)

\* What entering a member does.
LEMMA DescentFacts ==
  ASSUME TypeOK, Descend
  PROVE  /\ stack # << >> /\ Top.at = "walk" /\ AtMember({"extracted"})
         /\ Member.content \in Contents \ artifacts
         /\ Frame(Member.content, Top.depth + 1) \in FrameType
         /\ Top.depth + 1 \in Nat /\ Advance \in FrameType
         /\ stack' \in Seq(FrameType) /\ Len(stack') = Len(stack) + 1
         /\ stack' # << >>
         /\ DOMAIN stack' = DOMAIN stack \cup {Len(stack) + 1}
         /\ Len(stack) + 1 \notin DOMAIN stack /\ Len(stack) \in DOMAIN stack
         /\ Top' = Frame(Member.content, Top.depth + 1)
         /\ stack'[Len(stack) + 1] = Frame(Member.content, Top.depth + 1)
         /\ stack'[Len(stack)] = Advance /\ SameBelow
         /\ artifacts' = artifacts \cup {Member.content}
         /\ UNCHANGED setting
<1>1. /\ AtMember({"extracted"}) /\ Member.content \notin artifacts
      /\ artifacts' = artifacts \cup {Member.content}
      /\ stack' = Append(Append(Front(stack), Advance), Frame(Member.content, Top.depth + 1))
      /\ UNCHANGED setting
  BY DEF Descend
<1>2. /\ stack # << >> /\ Top.at = "walk" /\ Advance \in FrameType
      /\ Member.content \in Contents \cup {"none"} /\ Member.content # "none"
  BY <1>1, MemberFacts
<1>3. Top.depth \in Nat /\ Len(stack) \in DOMAIN stack
  BY <1>2, TopFacts
<1>4. Top.depth + 1 \in Nat /\ Member.content \in Contents
  BY <1>2, <1>3
<1>5. Frame(Member.content, Top.depth + 1) \in FrameType
  BY <1>4, FrameTyped
<1> DEFINE e == Advance
           f == Frame(Member.content, Top.depth + 1)
<1>6. e \in FrameType /\ f \in FrameType /\ stack' = Append(Append(Front(stack), e), f)
  BY <1>1, <1>2, <1>5
<1> HIDE DEF e, f
<1>7. /\ stack' \in Seq(FrameType) /\ stack' # << >> /\ Len(stack') = Len(stack) + 1
      /\ DOMAIN stack' = DOMAIN stack \cup {Len(stack) + 1}
      /\ Len(stack) + 1 \notin DOMAIN stack
      /\ Top' = f /\ stack'[Len(stack) + 1] = f
      /\ stack'[Len(stack)] = e /\ SameBelow
  BY <1>2, <1>6, Descends
<1> QED
  BY <1>1, <1>2, <1>3, <1>4, <1>5, <1>7 DEF e, f

\* Every step leaves the stack and the settings well typed.
LEMMA StackStaysTyped ==
  ASSUME TypeOK, Next
  PROVE  StackTyped'
<1>1. ASSUME Moved PROVE StackTyped'
  BY <1>1, MoveTyped DEF Moved, Move, StackTyped
<1>2. CASE PassUnopened \/ StopAtDepth \/ OpenFails \/ OpenContainer \/ RefineOle \/ RunAnalyzers
  BY <1>1, <1>2, OpeningMoves
<1>3. CASE PassDirectory \/ StubMember \/ LinkDuplicate
  BY <1>1, <1>3, WalkingMoves
<1>4. CASE Descend
  <2>1. /\ stack' \in Seq(FrameType) /\ DOMAIN stack' = DOMAIN stack \cup {Len(stack) + 1}
        /\ stack'[Len(stack) + 1] = Frame(Member.content, Top.depth + 1)
        /\ stack'[Len(stack)] = Advance /\ SameBelow /\ UNCHANGED setting
        /\ Member.content \in Contents /\ Top.depth + 1 \in Nat /\ AtMember({"extracted"})
    BY <1>4, DescentFacts
  <2>2. ASSUME NEW j \in DOMAIN stack'
        PROVE  stack'[j].next \in 1..(Len(files'[stack'[j].content].members) + 1)
    <3>1. CASE j = Len(stack) + 1
      <4>1. /\ stack'[j].content = Member.content
            /\ stack'[j].next = Len(files[Member.content].members) + 1
        <5>1. stack'[j] = Frame(Member.content, Top.depth + 1)
          BY <2>1, <3>1
        <5>2. /\ Frame(Member.content, Top.depth + 1).content = Member.content
              /\ Frame(Member.content, Top.depth + 1).next = Len(files[Member.content].members) + 1
          BY <2>1, FrameTyped
        <5> QED
          BY <5>1, <5>2
      <4>2. Len(files[Member.content].members) \in Nat
        BY <2>1, Files
      <4> QED
        BY <2>1, <4>1, <4>2 DEF setting
    <3>2. CASE j = Len(stack)
      <4>1. /\ Advance.content = Top.content
            /\ Advance.next \in 1..(Len(files[Top.content].members) + 1)
        BY <2>1, MemberFacts
      <4> QED
        BY <2>1, <3>2, <4>1 DEF setting
    <3>3. CASE j \in DOMAIN stack /\ j # Len(stack)
      <4>1. stack'[j] = stack[j]
        BY <2>1, <3>3 DEF SameBelow
      <4> QED
        BY <2>1, <3>3, <4>1 DEF TypeOK, setting
    <3> QED
      BY <2>1, <2>2, <3>1, <3>2, <3>3
  <2> QED
    BY <2>1, <2>2 DEF StackTyped, TypeOK, setting
<1>5. CASE Return
  <2>1. stack # << >> /\ stack' = Front(stack) /\ UNCHANGED setting
    BY <1>5 DEF Return, At
  <2>2. /\ stack' \in Seq(FrameType) /\ DOMAIN stack' \subseteq DOMAIN stack
        /\ \A j \in DOMAIN stack' : stack'[j] = stack[j]
    BY <2>1, Returns
  <2> QED
    BY <2>1, <2>2 DEF StackTyped, TypeOK, setting
<1>6. CASE Finished
  BY <1>6 DEF Finished, vars, StackTyped, TypeOK
<1> QED
  BY <1>2, <1>3, <1>4, <1>5, <1>6 DEF Next

\* What RunAnalyzers appends.
LEMMA AnalyzersRun ==
  ASSUME TypeOK, RunAnalyzers
  PROVE  /\ stack # << >> /\ Top.at = "analyze" /\ Top.content \in Contents
         /\ analyzed' = Append(analyzed, Top.content) /\ analyzed' \in Seq(Contents)
         /\ runs' \in Seq(RunType) /\ Len(runs') = Len(runs) + 1
         /\ DOMAIN runs \subseteq DOMAIN runs'
         /\ \A j \in DOMAIN runs : runs'[j] = runs[j]
         /\ runs'[Len(runs')].artifact = Top.content
         /\ Len(runs') \in DOMAIN runs' /\ Len(runs') \notin DOMAIN runs
         /\ \/ started' = started
            \/ ~CoveredByContainer(Top) /\ started' = started \cup {Len(runs')}
<1>1. /\ stack # << >> /\ Top.at = "analyze"
      /\ analyzed' = Append(analyzed, Top.content)
  BY DEF RunAnalyzers, At
<1>2. Top.content \in Contents
  BY <1>1, TopFacts
<1>3. PICK status \in RunStatus : runs' = Append(runs, Run(Top.content, status))
  BY DEF RunAnalyzers, RunStatus
<1>4. Run(Top.content, status) \in RunType /\ Run(Top.content, status).artifact = Top.content
  BY <1>2 DEF Run, RunType
<1>5. runs \in Seq(RunType) /\ analyzed \in Seq(Contents)
  BY DEF TypeOK
<1> DEFINE r == Run(Top.content, status)
<1> HIDE DEF r
<1>6. runs' = Append(runs, r) /\ r \in RunType /\ r.artifact = Top.content
  BY <1>3, <1>4 DEF r
<1>7. /\ runs' \in Seq(RunType) /\ Len(runs') = Len(runs) + 1 /\ Len(runs) \in Nat
      /\ runs'[Len(runs) + 1] = r
  BY <1>5, <1>6
<1>8. \A j \in DOMAIN runs : runs'[j] = runs[j]
  BY <1>5, <1>6
<1>9. /\ DOMAIN runs \subseteq DOMAIN runs' /\ Len(runs') \in DOMAIN runs'
      /\ Len(runs') \notin DOMAIN runs
  BY <1>5, <1>7
<1>10. analyzed' \in Seq(Contents)
  BY <1>1, <1>2, <1>5
<1>11. started' = started \/ (~CoveredByContainer(Top) /\ started' = started \cup {Len(runs')})
  BY DEF RunAnalyzers
<1> QED
  BY <1>1, <1>2, <1>6, <1>7, <1>8, <1>9, <1>10, <1>11

\* Every step leaves runs, brokers, artifacts and analyses well typed.
LEMMA RecordsStayTyped ==
  ASSUME TypeOK, Next
  PROVE  /\ artifacts' \subseteq Contents
         /\ runs' \in Seq(RunType) /\ started' \subseteq DOMAIN runs'
         /\ brokers' \in Seq(BrokerType) /\ analyzed' \in Seq(Contents)
<1> DEFINE Typed == /\ artifacts' \subseteq Contents
                    /\ runs' \in Seq(RunType) /\ started' \subseteq DOMAIN runs'
                    /\ brokers' \in Seq(BrokerType) /\ analyzed' \in Seq(Contents)
<1>1. CASE PassUnopened \/ PassDirectory \/ StubMember \/ Return \/ Finished
  BY <1>1 DEF PassUnopened, PassDirectory, StubMember, Return, Finished, TypeOK, vars
<1>2. ASSUME NEW ids, IngestLimits(Top.content, ids), stack # << >>
      PROVE  runs' \in Seq(RunType) /\ started' \subseteq DOMAIN runs'
  <2>1. Top.content \in Contents
    BY <1>2, TopFacts
  <2> QED
    BY <1>2, <2>1, Ingested DEF TypeOK
<1>3. CASE StopAtDepth
  BY <1>2, <1>3 DEF StopAtDepth, At, TypeOK
<1>4. ASSUME NEW kind \in {"zip", "ole"}, NEW status \in RunStatus, stack # << >>,
             brokers' = Append(brokers, Broker(Top.content, kind, status))
      PROVE  brokers' \in Seq(BrokerType)
  BY <1>4, TopFacts, BrokersGrow
<1>5. CASE OpenFails
  <2>1. PICK status \in {"failed", "timeout"} :
          /\ brokers' = Append(brokers, Broker(Top.content, "zip", status))
          /\ IngestLimits(Top.content, {IF status = "timeout" THEN "rec.container-timeout"
                                        ELSE "archive.bad-zip"})
    BY <1>5 DEF OpenFails
  <2>2. stack # << >> /\ status \in RunStatus /\ UNCHANGED <<artifacts, analyzed>>
    BY <1>5, <2>1 DEF OpenFails, At, RunStatus
  <2> QED
    BY <1>2, <1>4, <2>1, <2>2 DEF TypeOK
<1>6. CASE OpenContainer
  <2>1. /\ brokers' = Append(brokers, Broker(Top.content, "zip", "completed"))
        /\ stack # << >> /\ "completed" \in RunStatus /\ UNCHANGED <<artifacts, analyzed>>
    BY <1>6 DEF OpenContainer, At, RunStatus
  <2>2. \E ids : IngestLimits(Top.content, ids)
    BY <1>6 DEF OpenContainer
  <2> QED
    BY <1>2, <1>4, <2>1, <2>2 DEF TypeOK
<1>7. CASE RefineOle
  <2>1. PICK status \in RunStatus : brokers' = Append(brokers, Broker(Top.content, "ole", status))
    BY <1>7 DEF RefineOle, RunStatus
  <2>2. stack # << >> /\ UNCHANGED <<artifacts, analyzed, runs, started>>
    BY <1>7 DEF RefineOle, At
  <2> QED
    BY <1>4, <2>1, <2>2 DEF TypeOK
<1>8. CASE RunAnalyzers
  <2>1. UNCHANGED <<artifacts, brokers>>
    BY <1>8 DEF RunAnalyzers
  <2> QED
    BY <1>8, <2>1, AnalyzersRun DEF TypeOK
<1>9. CASE LinkDuplicate
  <2>1. IngestLimits(Top.content, {"rec.duplicate"}) /\ stack # << >>
    BY <1>9 DEF LinkDuplicate, AtMember, At
  <2>2. UNCHANGED <<artifacts, brokers, analyzed>>
    BY <1>9 DEF LinkDuplicate
  <2> QED
    BY <1>2, <2>1, <2>2 DEF TypeOK
<1>10. CASE Descend
  <2>1. UNCHANGED <<runs, started, brokers, analyzed>>
    BY <1>10 DEF Descend
  <2> QED
    BY <1>10, <2>1, DescentFacts DEF TypeOK
<1> QED
  BY <1>1, <1>3, <1>5, <1>6, <1>7, <1>8, <1>9, <1>10 DEF Next

\* Every step leaves the relationships well typed.
LEMMA EdgesStayTyped ==
  ASSUME TypeOK, Next
  PROVE  contains' \subseteq [parent : Contents, index : Nat, child : Contents \cup {"none"}]
<1> DEFINE EdgeType == [parent : Contents, index : Nat, child : Contents \cup {"none"}]
<1>1. contains \subseteq EdgeType
  BY DEF TypeOK
<1>2. ASSUME NEW status, AtMember(status), NEW c \in Contents \cup {"none"} PROVE Edge(c) \in EdgeType
  <2>1. stack # << >> /\ Top.content \in Contents
    BY <1>2, MemberFacts
  <2>2. Top.next \in Nat
    BY <2>1, TopFacts DEF FrameType
  <2> QED
    BY <1>2, <2>1, <2>2 DEF Edge
<1> SUFFICES contains' \subseteq EdgeType
  OBVIOUS
<1> HIDE DEF EdgeType
<1>3. CASE UNCHANGED contains
  BY <1>1, <1>3
<1>4. CASE StubMember
  <2>1. /\ AtMember(MemberStatus \ {"extracted", "directory"})
        /\ contains' = contains \cup {Edge("none")}
    BY <1>4 DEF StubMember
  <2> QED
    BY <1>1, <1>2, <2>1
<1>5. CASE LinkDuplicate \/ Descend
  <2>1. AtMember({"extracted"}) /\ contains' = contains \cup {Edge(Member.content)}
    BY <1>5 DEF LinkDuplicate, Descend
  <2>2. Member.content \in Contents \cup {"none"}
    BY <2>1, MemberFacts
  <2> QED
    BY <1>1, <1>2, <2>1, <2>2
<1>6. CASE Finished
  BY <1>3, <1>6 DEF Finished, vars
<1>7. PassUnopened \/ StopAtDepth \/ OpenFails \/ OpenContainer \/ RefineOle
      \/ RunAnalyzers \/ PassDirectory \/ Return => UNCHANGED contains
  BY DEF PassUnopened, StopAtDepth, OpenFails, OpenContainer, RefineOle, RunAnalyzers,
         PassDirectory, Return
<1> QED
  BY <1>3, <1>4, <1>5, <1>6, <1>7 DEF Next

\* Every step leaves every variable well typed.
LEMMA TypeStep == TypeOK /\ [Next]_vars => TypeOK'
<1> SUFFICES ASSUME TypeOK, [Next]_vars PROVE TypeOK'
  OBVIOUS
<1>1. CASE Next
  BY <1>1, StackStaysTyped, RecordsStayTyped, EdgesStayTyped DEF TypeOK, StackTyped
<1>2. CASE UNCHANGED vars
  BY <1>2 DEF TypeOK, vars
<1> QED
  BY <1>1, <1>2

(***************************************************************************)
(* Every variable has its type: a call's member index points at a member   *)
(* of its file or just behind the last, and a started run is a run.        *)
(***************************************************************************)
THEOREM TypeCorrect == Spec => []TypeOK
BY TypeInit, TypeStep, PTL DEF Spec

-----------------------------------------------------------------------------
(* How deep the calls nest *)

\* A step changes the stack in one of four ways.
LEMMA StackSteps ==
  ASSUME TypeOK, Next
  PROVE  Moved \/ Descend \/ Return \/ (UNCHANGED <<stack, setting>>)
BY OpeningMoves, WalkingMoves DEF Next, Finished, vars

\* What Moved does to each frame.
LEMMA MovedFrames ==
  ASSUME TypeOK, Moved
  PROVE  /\ stack # << >> /\ stack' # << >> /\ Len(stack') = Len(stack)
         /\ DOMAIN stack' = DOMAIN stack
         /\ Len(stack) \in DOMAIN stack /\ Top' = stack'[Len(stack)]
         /\ SameBelow /\ UNCHANGED setting
         /\ \A j \in DOMAIN stack : /\ stack'[j].content = stack[j].content
                                    /\ stack'[j].depth = stack[j].depth
<1>1. PICK f \in FrameType : Move(f)
  BY DEF Moved
<1>2. /\ stack # << >> /\ SetTop(f) /\ UNCHANGED setting
      /\ f.content = Top.content /\ f.depth = Top.depth
  BY <1>1 DEF Move
<1>3. /\ stack' # << >> /\ Len(stack') = Len(stack) /\ DOMAIN stack' = DOMAIN stack
      /\ Top' = f /\ stack'[Len(stack)] = f /\ SameBelow
  BY <1>2, TopMoves
<1>4. Len(stack) \in DOMAIN stack /\ Top = stack[Len(stack)]
  BY <1>2, TopFacts
<1>5. \A j \in DOMAIN stack : /\ stack'[j].content = stack[j].content
                              /\ stack'[j].depth = stack[j].depth
  BY <1>2, <1>3, <1>4 DEF SameBelow
<1> QED
  BY <1>2, <1>3, <1>4, <1>5

-----------------------------------------------------------------------------
(* What the actions do to the innermost frame *)

Opening == PassUnopened \/ StopAtDepth \/ OpenFails \/ OpenContainer
Walking == PassDirectory \/ StubMember \/ LinkDuplicate

\* What opening a file does to its frame and to the record of brokers.
LEMMA OpeningTop ==
  ASSUME TypeOK, Opening
  PROVE  /\ Moved /\ Top.at = "open" /\ Top'.at \in {"refine", "analyze"}
         /\ Top'.content = Top.content /\ UNCHANGED <<analyzed, artifacts>>
         /\ Top'.next = Top.next \/ Enterable(Top)' 
         /\ Range(brokers) \subseteq Range(brokers')
         /\ Range(brokers') \subseteq Range(brokers) \cup
              {Broker(Top.content, "zip", status) : status \in RunStatus}
<1>1. Moved
  BY OpeningMoves DEF Opening
<1>2. stack # << >> /\ Top.at = "open" /\ UNCHANGED <<analyzed, artifacts>> /\ UNCHANGED setting
  BY DEF Opening, PassUnopened, StopAtDepth, OpenFails, OpenContainer, At
<1>3. /\ Top \in FrameType /\ Top.content \in Contents /\ files[Top.content].kind \in Types
      /\ Top.depth \in Nat
  BY <1>2, TopFacts, Files
<1>4. CASE PassUnopened
  <2> DEFINE f == [Top EXCEPT !.at = IF Top.type = "ole" THEN "refine" ELSE "analyze"]
  <2>1. /\ f \in FrameType /\ SetTop(f) /\ f.at \in {"refine", "analyze"}
        /\ f.content = Top.content /\ f.next = Top.next
    BY <1>3, <1>4 DEF PassUnopened, FrameType, Places
  <2> HIDE DEF f
  <2>2. Top' = f
    BY <1>2, <2>1, TopMoves
  <2>3. UNCHANGED brokers
    BY <1>4 DEF PassUnopened
  <2> QED
    BY <1>1, <1>2, <2>1, <2>2, <2>3
<1>5. CASE StopAtDepth
  <2> DEFINE f == [Top EXCEPT !.at = "analyze"]
  <2>1. /\ f \in FrameType /\ SetTop(f) /\ f.at \in {"refine", "analyze"}
        /\ f.content = Top.content /\ f.next = Top.next
    BY <1>3, <1>5 DEF StopAtDepth, FrameType, Places
  <2> HIDE DEF f
  <2>2. Top' = f
    BY <1>2, <2>1, TopMoves
  <2>3. UNCHANGED brokers
    BY <1>5 DEF StopAtDepth
  <2> QED
    BY <1>1, <1>2, <2>1, <2>2, <2>3
<1>6. ASSUME NEW status \in RunStatus, brokers' = Append(brokers, Broker(Top.content, "zip", status))
      PROVE  /\ Range(brokers') = Range(brokers) \cup {Broker(Top.content, "zip", status)}
             /\ Range(brokers') \subseteq Range(brokers) \cup
                  {Broker(Top.content, "zip", st) : st \in RunStatus}
  BY <1>3, <1>6, BrokersGrow
<1>7. CASE OpenFails
  <2> DEFINE f == [Top EXCEPT !.at = "analyze", !.inspected = TRUE]
  <2>1. /\ f \in FrameType /\ SetTop(f) /\ f.at \in {"refine", "analyze"}
        /\ f.content = Top.content /\ f.next = Top.next
    BY <1>3, <1>7 DEF OpenFails, FrameType, Places
  <2> HIDE DEF f
  <2>2. Top' = f
    BY <1>2, <2>1, TopMoves
  <2>3. PICK status \in RunStatus : brokers' = Append(brokers, Broker(Top.content, "zip", status))
    BY <1>7 DEF OpenFails, RunStatus
  <2> QED
    BY <1>1, <1>2, <1>6, <2>1, <2>2, <2>3
<1>8. CASE OpenContainer
  <2> DEFINE file == files[Top.content]
             expand == recursion /\ file.kind = "zip"
             f == [Top EXCEPT !.at = "analyze", !.inspected = TRUE, !.type = file.kind,
                              !.next = IF expand THEN 1 ELSE @]
  <2>1. SetTop(f) /\ Top.depth < maxDepth
    BY <1>8 DEF OpenContainer
  <2>2. /\ f \in FrameType /\ f.content = Top.content /\ f.depth = Top.depth
        /\ f.at = "analyze" /\ f.inspected = TRUE /\ f.type = file.kind
        /\ expand \/ f.next = Top.next
    BY <1>3 DEF FrameType, Places
  <2> HIDE DEF f
  <2>3. Top' = f
    BY <1>2, <2>1, <2>2, TopMoves
  <2>4. brokers' = Append(brokers, Broker(Top.content, "zip", "completed")) /\ "completed" \in RunStatus
    BY <1>8 DEF OpenContainer, RunStatus
  <2>5. Broker(Top.content, "zip", "completed") \in Range(brokers')
    BY <1>6, <2>4
  <2>6. ASSUME expand PROVE Enterable(Top)'
    BY <1>2, <2>1, <2>2, <2>3, <2>5, <2>6 DEF Enterable, CoveredByContainer, Expanded, setting
  <2> QED
    BY <1>1, <1>2, <1>6, <2>2, <2>3, <2>4, <2>6
<1> QED
  BY <1>4, <1>5, <1>7, <1>8 DEF Opening

\* What refining an OLE file does to its frame and to the record of brokers.
LEMMA RefineTop ==
  ASSUME TypeOK, RefineOle
  PROVE  /\ Moved /\ Top.at = "refine" /\ Top'.at = "analyze"
         /\ Top'.content = Top.content /\ Top'.depth = Top.depth
         /\ Top'.type = Top.type /\ Top'.inspected = Top.inspected /\ Top'.next = Top.next
         /\ UNCHANGED <<analyzed, artifacts>>
         /\ \E status \in RunStatus :
              Range(brokers') = Range(brokers) \cup {Broker(Top.content, "ole", status)}
<1>1. stack # << >> /\ Top.at = "refine" /\ UNCHANGED <<analyzed, artifacts>>
  BY DEF RefineOle, At
<1>2. Top \in FrameType /\ Top.content \in Contents
  BY <1>1, TopFacts
<1> DEFINE f == [Top EXCEPT !.at = "analyze"]
<1>3. /\ f \in FrameType /\ SetTop(f) /\ f.at = "analyze"
      /\ f.content = Top.content /\ f.depth = Top.depth
      /\ f.type = Top.type /\ f.inspected = Top.inspected /\ f.next = Top.next
  BY <1>2 DEF RefineOle, FrameType, Places
<1> HIDE DEF f
<1>4. Top' = f
  BY <1>1, <1>3, TopMoves
<1>5. PICK status \in RunStatus : brokers' = Append(brokers, Broker(Top.content, "ole", status))
  BY DEF RefineOle, RunStatus
<1>6. Range(brokers') = Range(brokers) \cup {Broker(Top.content, "ole", status)}
  BY <1>2, <1>5, BrokersGrow
<1> QED
  BY <1>1, <1>3, <1>4, <1>6, OpeningMoves

\* What running the analyzers does to the frame of the file.
LEMMA AnalyzeTop ==
  ASSUME TypeOK, RunAnalyzers
  PROVE  /\ Moved /\ Top.at = "analyze" /\ Top'.at = "walk"
         /\ Top'.content = Top.content /\ Top'.depth = Top.depth
         /\ Top'.type = Top.type /\ Top'.inspected = Top.inspected /\ Top'.next = Top.next
         /\ UNCHANGED <<artifacts, brokers>>
<1>1. stack # << >> /\ Top.at = "analyze" /\ UNCHANGED <<artifacts, brokers>>
  BY DEF RunAnalyzers, At
<1>2. Top \in FrameType
  BY <1>1, TopFacts
<1> DEFINE f == [Top EXCEPT !.at = "walk"]
<1>3. /\ f \in FrameType /\ SetTop(f) /\ f.at = "walk"
      /\ f.content = Top.content /\ f.depth = Top.depth
      /\ f.type = Top.type /\ f.inspected = Top.inspected /\ f.next = Top.next
  BY <1>2 DEF RunAnalyzers, FrameType, Places
<1> HIDE DEF f
<1>4. Top' = f
  BY <1>1, <1>3, TopMoves
<1> QED
  BY <1>1, <1>3, <1>4, OpeningMoves

\* What passing a member does to the frame of its container.
LEMMA WalkTop ==
  ASSUME TypeOK, Walking
  PROVE  /\ Moved /\ Top.at = "walk" /\ Top'.at = "walk"
         /\ Top'.content = Top.content /\ Top'.depth = Top.depth
         /\ Top'.type = Top.type /\ Top'.inspected = Top.inspected
         /\ Top'.next = Top.next + 1
         /\ Top.next \in DOMAIN files[Top.content].members
         /\ UNCHANGED <<artifacts, brokers, analyzed>>
<1>1. PICK status : AtMember(status)
  BY DEF Walking, PassDirectory, StubMember, LinkDuplicate
<1>2. SetTop(Advance) /\ UNCHANGED <<artifacts, brokers, analyzed>>
  BY DEF Walking, PassDirectory, StubMember, LinkDuplicate
<1> DEFINE f == Advance
<1>3. /\ stack # << >> /\ Top.at = "walk"
      /\ f \in FrameType /\ SetTop(f) /\ f.at = "walk"
      /\ f.content = Top.content /\ f.depth = Top.depth
      /\ f.type = Top.type /\ f.inspected = Top.inspected /\ f.next = Top.next + 1
      /\ Top.next \in DOMAIN files[Top.content].members
  BY <1>1, <1>2, MemberFacts
<1> HIDE DEF f
<1>4. Top' = f
  BY <1>3, TopMoves
<1> QED
  BY <1>2, <1>3, <1>4, WalkingMoves DEF Walking

\* The steps by what they do to the stack.
LEMMA Steps ==
  ASSUME Next
  PROVE  Opening \/ RefineOle \/ RunAnalyzers \/ Walking \/ Descend \/ Return \/ UNCHANGED vars
BY DEF Next, Opening, Walking, Finished

-----------------------------------------------------------------------------
(* The part of the invariant about the calls in progress *)

CallInv == TypeOK /\ NestingBounded /\ CallsInOrder /\ WalkedWasOpened /\ KnownOrAnalyzed

\* The invariant of the calls holds initially.
LEMMA CallInit == Init => CallInv
<1> SUFFICES ASSUME Init PROVE CallInv
  OBVIOUS
<1>1. TypeOK
  BY TypeInit
<1>2. stack = <<Frame(Root, 0)>> /\ artifacts = {Root} /\ analyzed = << >>
  BY DEF Init
<1> DEFINE f == Frame(Root, 0)
<1>3. /\ f.at = "open" /\ f.depth = 0 /\ f.content = Root
      /\ f.next = Len(files[f.content].members) + 1
  <2>1. /\ Frame(Root, 0).at = "open" /\ Frame(Root, 0).depth = 0 /\ Frame(Root, 0).content = Root
        /\ Frame(Root, 0).next = Len(files[Root].members) + 1
    BY DEF Frame
  <2> QED
    BY <2>1
<1>4. Len(files[Root].members) \in Nat /\ maxDepth \in Nat
  BY <1>1, RootAssumption, Files, DepthAssumption DEF TypeOK
<1> HIDE DEF f
<1>5. stack = <<f>>
  BY <1>2 DEF f
<1>6. DOMAIN stack = {1} /\ stack[1] = f /\ Len(stack) = 1 /\ stack # << >>
  BY <1>5
<1>7. Top = f
  BY <1>6 DEF Top, Last
<1>8. NestingBounded
  BY <1>3, <1>4, <1>6 DEF NestingBounded
<1>9. CallsInOrder
  BY <1>3, <1>6 DEF CallsInOrder
<1>10. WalkedWasOpened
  BY <1>3, <1>4, <1>6 DEF WalkedWasOpened
<1>11. KnownOrAnalyzed
  <2>1. Analyzed = {} /\ DOMAIN analyzed = {}
    BY <1>2 DEF Analyzed, Range
  <2>2. Pending = {Root}
    BY <1>3, <1>6, <1>7 DEF Pending, Done
  <2> QED
    BY <1>2, <2>1, <2>2 DEF KnownOrAnalyzed
<1> QED
  BY <1>1, <1>8, <1>9, <1>10, <1>11 DEF CallInv

\* Moving a frame on does not change how deep it is.
LEMMA NestingMoved ==
  ASSUME TypeOK, NestingBounded, Moved
  PROVE  NestingBounded'
BY MovedFrames DEF NestingBounded, setting

\* The frame of a walked member was opened below the cap: its members may nest one deeper.
LEMMA NestingStep ==
  ASSUME CallInv, Next
  PROVE  NestingBounded'
<1> USE DEF CallInv
<1>1. CASE Moved
  BY <1>1, NestingMoved
<1>2. CASE Descend
  <2>1. /\ Len(stack) \in DOMAIN stack /\ Top = stack[Len(stack)] /\ stack # << >>
        /\ Len(stack) \in Nat /\ maxDepth \in Nat
    BY <1>2, DescentFacts, TopFacts, DepthAssumption DEF TypeOK
  <2>2. Top.next <= Len(files[Top.content].members)
    BY <1>2 DEF Descend, AtMember
  <2>3. Top.depth < maxDepth /\ Top.depth = Len(stack) - 1
    BY <2>1, <2>2 DEF WalkedWasOpened, Enterable, NestingBounded
  <2>4. /\ Len(stack') = Len(stack) + 1 /\ DOMAIN stack' = DOMAIN stack \cup {Len(stack) + 1}
        /\ stack'[Len(stack) + 1] = Frame(Member.content, Top.depth + 1)
        /\ stack'[Len(stack)] = Advance /\ SameBelow /\ UNCHANGED setting
        /\ Member.content \in Contents /\ Top.depth + 1 \in Nat /\ AtMember({"extracted"})
    BY <1>2, DescentFacts
  <2>5. Frame(Member.content, Top.depth + 1).depth = Top.depth + 1
    BY <2>4, FrameTyped
  <2>6. Advance.depth = Top.depth
    BY <2>4, MemberFacts
  <2>7. ASSUME NEW j \in DOMAIN stack' PROVE stack'[j].depth = j - 1
    <3>1. CASE j = Len(stack) + 1
      BY <2>1, <2>3, <2>4, <2>5, <3>1
    <3>2. CASE j = Len(stack)
      BY <2>3, <2>4, <2>6, <3>2
    <3>3. CASE j \in DOMAIN stack /\ j # Len(stack)
      BY <2>4, <3>3 DEF SameBelow, NestingBounded
    <3> QED
      BY <2>4, <2>7, <3>1, <3>2, <3>3
  <2> QED
    BY <2>1, <2>3, <2>4, <2>7 DEF NestingBounded, setting
<1>3. CASE Return
  <2>1. stack # << >> /\ stack' = Front(stack) /\ UNCHANGED setting
    BY <1>3 DEF Return, At
  <2>2. /\ Len(stack') = Len(stack) - 1 /\ DOMAIN stack' = DOMAIN stack \ {Len(stack)}
        /\ \A j \in DOMAIN stack' : stack'[j] = stack[j] 
    BY <2>1, Returns
  <2>3. Len(stack) \in Nat /\ maxDepth \in Nat
    BY <2>1, TopFacts, DepthAssumption DEF TypeOK
  <2> QED
    BY <2>1, <2>2, <2>3 DEF NestingBounded, setting
<1>4. CASE UNCHANGED <<stack, setting>>
  BY <1>4 DEF NestingBounded, setting
<1> QED
  BY <1>1, <1>2, <1>3, <1>4, StackSteps

\* The contents on the stack are known.
LEMMA StackKnown ==
  ASSUME CallInv
  PROVE  \A j \in DOMAIN stack : stack[j].content \in artifacts
<1> SUFFICES ASSUME NEW j \in DOMAIN stack PROVE stack[j].content \in artifacts
  OBVIOUS
<1>1. stack # << >> /\ Top = stack[Len(stack)]
  BY TopFacts DEF CallInv, TypeOK
<1>2. CASE stack[j].at = "walk"
  BY <1>2 DEF CallInv, CallsInOrder, KnownOrAnalyzed
<1>3. CASE stack[j].at # "walk"
  BY <1>1, <1>3 DEF CallInv, CallsInOrder, KnownOrAnalyzed, Pending, Done
<1> QED
  BY <1>2, <1>3

\* The analyzers' record only grows.
LEMMA AnalyzedGrows ==
  ASSUME TypeOK, Next
  PROVE  \/ UNCHANGED analyzed
         \/ RunAnalyzers /\ Analyzed' = Analyzed \cup {Top.content}
<1>1. ASSUME RunAnalyzers PROVE Analyzed' = Analyzed \cup {Top.content}
  <2>1. Top.content \in Contents /\ analyzed' = Append(analyzed, Top.content)
    BY <1>1, AnalyzersRun
  <2>2. analyzed \in Seq(Contents)
    BY DEF TypeOK
  <2> QED
    BY <2>1, <2>2, RangeOfAppend DEF Analyzed
<1> QED
  BY <1>1, Steps, OpeningTop, RefineTop, WalkTop DEF Descend, Return, vars

\* Every step keeps all calls but the innermost at their members, each of another file.
LEMMA CallsStep ==
  ASSUME CallInv, Next
  PROVE  CallsInOrder'
<1> USE DEF CallInv
<1>1. Analyzed \subseteq Analyzed'
  BY AnalyzedGrows DEF Analyzed
<1>2. CASE Opening \/ RefineOle \/ RunAnalyzers \/ Walking
  <2>1. Moved
    BY <1>2, OpeningTop, RefineTop, AnalyzeTop, WalkTop
  <2>2. /\ stack # << >> /\ Len(stack') = Len(stack) /\ DOMAIN stack' = DOMAIN stack
        /\ Len(stack) \in DOMAIN stack /\ Top' = stack'[Len(stack)] /\ SameBelow
        /\ \A j \in DOMAIN stack : stack'[j].content = stack[j].content
    BY <2>1, MovedFrames
  <2>3. Top = stack[Len(stack)]
    BY <2>2, TopFacts
  <2>4. ASSUME stack'[Len(stack)].at = "walk" PROVE stack'[Len(stack)].content \in Analyzed'
    <3>1. RunAnalyzers \/ (Walking /\ Top.at = "walk")
      BY <1>2, <2>2, <2>4, OpeningTop, RefineTop, WalkTop
    <3>2. CASE RunAnalyzers
      <4>1. analyzed' = Append(analyzed, Top.content) /\ Top.content \in Contents
        BY <3>2, AnalyzersRun
      <4>2. Analyzed' = Analyzed \cup {Top.content}
        BY <4>1, RangeOfAppend DEF Analyzed, TypeOK
      <4> QED
        BY <2>2, <2>3, <4>2
    <3>3. CASE Top.at = "walk"
      BY <1>1, <2>2, <2>3, <3>3 DEF CallsInOrder
    <3> QED
      BY <3>1, <3>2, <3>3
  <2>5. \A j \in DOMAIN stack' : stack'[j].at = "walk" => stack'[j].content \in Analyzed'
    BY <1>1, <2>2, <2>4 DEF SameBelow, CallsInOrder
  <2>6. \A j \in DOMAIN stack' : j # Len(stack') => stack'[j].at = "walk"
    BY <2>2 DEF SameBelow, CallsInOrder
  <2>7. \A j, k \in DOMAIN stack' : stack'[j].content = stack'[k].content => j = k
    BY <2>2 DEF CallsInOrder
  <2> QED
    BY <2>5, <2>6, <2>7 DEF CallsInOrder
<1>3. CASE Descend
  <2>1. /\ Len(stack') = Len(stack) + 1 /\ DOMAIN stack' = DOMAIN stack \cup {Len(stack) + 1}
        /\ Len(stack) \in DOMAIN stack /\ Len(stack) + 1 \notin DOMAIN stack
        /\ stack'[Len(stack) + 1] = Frame(Member.content, Top.depth + 1)
        /\ stack'[Len(stack)] = Advance /\ SameBelow
        /\ Member.content \in Contents \ artifacts /\ Top.depth + 1 \in Nat
        /\ AtMember({"extracted"}) /\ stack # << >> /\ Top.at = "walk"
    BY <1>3, DescentFacts
  <2>2. /\ Frame(Member.content, Top.depth + 1).content = Member.content
        /\ Frame(Member.content, Top.depth + 1).at = "open"
    BY <2>1, FrameTyped
  <2>3. Advance.content = Top.content /\ Advance.at = "walk" /\ Top = stack[Len(stack)]
    BY <2>1, MemberFacts, TopFacts
  <2>4. \A j \in DOMAIN stack : /\ stack'[j].content = stack[j].content
                                /\ stack'[j].content # Member.content
                                /\ stack'[j].at = "walk" 
    BY <2>1, <2>3, StackKnown DEF SameBelow, CallsInOrder
  <2>5. stack'[Len(stack) + 1].content = Member.content /\ stack'[Len(stack) + 1].at = "open"
    BY <2>1, <2>2
  <2>6. \A j \in DOMAIN stack' : stack'[j].at = "walk" => stack'[j].content \in Analyzed'
    BY <1>1, <2>1, <2>3, <2>4, <2>5 DEF CallsInOrder
  <2>7. \A j \in DOMAIN stack' : j # Len(stack') => stack'[j].at = "walk"
    BY <2>1, <2>4
  <2>8. \A j, k \in DOMAIN stack' : stack'[j].content = stack'[k].content => j = k
    BY <2>1, <2>4, <2>5 DEF CallsInOrder
  <2> QED
    BY <2>6, <2>7, <2>8 DEF CallsInOrder
<1>4. CASE Return
  <2>1. stack # << >> /\ stack' = Front(stack)
    BY <1>4 DEF Return, At
  <2>2. /\ Len(stack') = Len(stack) - 1 /\ DOMAIN stack' = DOMAIN stack \ {Len(stack)}
        /\ \A j \in DOMAIN stack' : stack'[j] = stack[j] 
    BY <2>1, Returns
  <2> QED
    BY <1>1, <2>2 DEF CallsInOrder
<1>5. CASE UNCHANGED vars
  BY <1>5 DEF vars, CallsInOrder, Analyzed
<1> QED
  BY <1>2, <1>3, <1>4, <1>5, Steps

\* Being enterable outlives any step in which the frame stays as it is.
LEMMA BrokersKept ==
  ASSUME TypeOK, Next
  PROVE  Range(brokers) \subseteq Range(brokers')
BY Steps, OpeningTop, RefineTop, AnalyzeTop, WalkTop DEF Descend, Return, vars

\* A frame that stays as it is stays enterable.
LEMMA OpenedKept ==
  ASSUME TypeOK, Next, WalkedWasOpened, NEW j \in DOMAIN stack, j \in DOMAIN stack',
         stack'[j] = stack[j], UNCHANGED setting,
         stack[j].next <= Len(files[stack[j].content].members)
  PROVE  Enterable(stack[j])'
<1>1. Range(brokers) \subseteq Range(brokers')
  BY BrokersKept
<1> QED
  BY <1>1 DEF WalkedWasOpened, Enterable, CoveredByContainer, Expanded, setting

\* Every step keeps files with members left to walk listed and above the cap.
LEMMA OpenedStep ==
  ASSUME CallInv, Next
  PROVE  WalkedWasOpened'
<1> USE DEF CallInv
<1>n. PICK n \in Nat : n = Len(stack)
  BY DEF TypeOK
<1> DEFINE Ok(j) == stack[j].next <= Len(files[stack[j].content].members) => Enterable(stack[j])
<1>1. ASSUME NEW j \in DOMAIN stack, j \in DOMAIN stack', stack'[j] = stack[j], UNCHANGED setting
      PROVE  Ok(j)'
  BY <1>1, OpenedKept DEF setting
<1>2. Range(brokers) \subseteq Range(brokers')
  BY BrokersKept
<1>3. CASE Opening \/ RefineOle \/ RunAnalyzers \/ Walking
  <2>1. Moved
    BY <1>3, OpeningTop, RefineTop, AnalyzeTop, WalkTop
  <2>2. /\ stack # << >> /\ DOMAIN stack' = DOMAIN stack /\ UNCHANGED setting
        /\ Len(stack) \in DOMAIN stack /\ Top' = stack'[Len(stack)] /\ SameBelow
    BY <2>1, MovedFrames
  <2>3. /\ Top = stack[Len(stack)] /\ Top.content \in Contents
        /\ Top.next \in 1..(Len(files[Top.content].members) + 1)
        /\ Len(files[Top.content].members) \in Nat
    BY <2>2, TopFacts, Files
  <2>4. Ok(n)'
    <3>1. CASE Opening
      <4>1. Top.at = "open" /\ Top'.content = Top.content
            /\ (Top'.next = Top.next \/ Enterable(Top)')
        BY <3>1, OpeningTop
      <4>2. Top.next > Len(files[Top.content].members)
        BY <2>2, <2>3, <4>1 DEF WalkedWasOpened, Enterable
      <4> QED
        BY <1>n, <2>2, <2>3, <4>1, <4>2 DEF Enterable, CoveredByContainer, Expanded, setting
    <3>2. CASE RefineOle \/ RunAnalyzers \/ Walking
      <4>1. /\ Top'.content = Top.content /\ Top'.depth = Top.depth /\ Top'.at # "open"
            /\ Top'.type = Top.type /\ Top'.inspected = Top.inspected
            /\ Top'.next \in {Top.next, Top.next + 1}
        BY <3>2, RefineTop, AnalyzeTop, WalkTop
      <4>2. ASSUME Top'.next <= Len(files[Top.content].members)
            PROVE  Top.next <= Len(files[Top.content].members)
        BY <2>3, <4>1, <4>2
      <4>3. ASSUME Top.next <= Len(files[Top.content].members)
            PROVE  Top.depth < maxDepth /\ CoveredByContainer(Top) /\ Expanded(Top.content)
        BY <2>2, <2>3, <4>3 DEF WalkedWasOpened, Enterable, Enterable
      <4> QED
        BY <1>n, <1>2, <2>2, <2>3, <4>1, <4>2, <4>3 DEF setting, Enterable, CoveredByContainer, Expanded
    <3> QED
      BY <1>3, <3>1, <3>2
  <2>5. ASSUME NEW j \in DOMAIN stack' PROVE Ok(j)'
    BY <1>1, <1>n, <2>2, <2>4 DEF SameBelow
  <2> QED
    BY <2>5 DEF WalkedWasOpened
<1>4. CASE Descend
  <2>1. /\ Len(stack') = Len(stack) + 1 /\ DOMAIN stack' = DOMAIN stack \cup {Len(stack) + 1}
        /\ Len(stack) \in DOMAIN stack
        /\ stack'[Len(stack) + 1] = Frame(Member.content, Top.depth + 1)
        /\ stack'[Len(stack)] = Advance /\ SameBelow /\ UNCHANGED setting
        /\ Member.content \in Contents /\ Top.depth + 1 \in Nat
        /\ AtMember({"extracted"}) /\ stack # << >>
    BY <1>4, DescentFacts
  <2>2. Ok(n + 1)'
    <3>1. /\ Frame(Member.content, Top.depth + 1).content = Member.content
          /\ Frame(Member.content, Top.depth + 1).next = Len(files[Member.content].members) + 1
      BY <2>1, FrameTyped
    <3>2. Len(files[Member.content].members) \in Nat
      BY <2>1, Files
    <3> QED
      BY <1>n, <2>1, <3>1, <3>2 DEF setting
  <2>3. Ok(n)'
    <3>1. /\ Advance.content = Top.content /\ Advance.depth = Top.depth /\ Advance.at = "walk"
          /\ Advance.type = Top.type /\ Advance.inspected = Top.inspected
      BY <2>1, MemberFacts
    <3>2. Top = stack[Len(stack)] /\ Top.next <= Len(files[Top.content].members)
      BY <2>1, TopFacts DEF AtMember
    <3>3. Top.depth < maxDepth /\ CoveredByContainer(Top) /\ Expanded(Top.content)
      BY <2>1, <3>2 DEF WalkedWasOpened, Enterable
    <3> QED
      BY <1>n, <1>2, <2>1, <3>1, <3>3 DEF setting, Enterable, CoveredByContainer, Expanded
  <2>4. ASSUME NEW j \in DOMAIN stack' PROVE Ok(j)'
    BY <1>1, <1>n, <2>1, <2>2, <2>3 DEF SameBelow
  <2> QED
    BY <2>4 DEF WalkedWasOpened
<1>5. CASE Return
  <2>1. stack # << >> /\ stack' = Front(stack) /\ UNCHANGED setting
    BY <1>5 DEF Return, At
  <2>2. /\ DOMAIN stack' = DOMAIN stack \ {Len(stack)}
        /\ \A j \in DOMAIN stack' : stack'[j] = stack[j] 
    BY <2>1, Returns
  <2>3. \A j \in DOMAIN stack' : Ok(j)'
    BY <1>1, <2>1, <2>2
  <2> QED
    BY <2>3 DEF WalkedWasOpened
<1>6. CASE UNCHANGED vars
  BY <1>6 DEF vars, setting, WalkedWasOpened, Enterable, CoveredByContainer, Expanded
<1> QED
  BY <1>3, <1>4, <1>5, <1>6, Steps

\* Whose analysis is outstanding after a step.
LEMMA PendingAfter ==
  ASSUME TypeOK, Next
  PROVE  /\ Opening \/ RefineOle => UNCHANGED <<analyzed, artifacts>> /\ Pending' = Pending
         /\ RunAnalyzers => /\ Pending = {Top.content} /\ Pending' = {}
                            /\ UNCHANGED artifacts
         /\ Walking => UNCHANGED <<analyzed, artifacts>> /\ Pending = {} /\ Pending' = {}
<1>1. ASSUME Moved PROVE stack # << >> /\ stack' # << >>
  BY <1>1, MovedFrames
<1>2. ASSUME Opening \/ RefineOle
      PROVE  UNCHANGED <<analyzed, artifacts>> /\ Pending' = Pending
  <2>1. /\ Moved /\ Top.at # "walk" /\ Top'.at # "walk" /\ Top'.content = Top.content
        /\ UNCHANGED <<analyzed, artifacts>>
    BY <1>2, OpeningTop, RefineTop
  <2> QED
    BY <1>1, <2>1 DEF Pending, Done
<1>3. ASSUME RunAnalyzers
      PROVE  Pending = {Top.content} /\ Pending' = {} /\ UNCHANGED artifacts
  <2>1. Moved /\ Top.at = "analyze" /\ Top'.at = "walk" /\ UNCHANGED artifacts
    BY <1>3, AnalyzeTop
  <2> QED
    BY <1>1, <2>1 DEF Pending, Done
<1>4. ASSUME Walking
      PROVE  UNCHANGED <<analyzed, artifacts>> /\ Pending = {} /\ Pending' = {}
  <2>1. Moved /\ Top.at = "walk" /\ Top'.at = "walk" /\ UNCHANGED <<analyzed, artifacts>>
    BY <1>4, WalkTop
  <2> QED
    BY <1>1, <2>1 DEF Pending, Done
<1> QED
  BY <1>2, <1>3, <1>4

\* Every step keeps the artifacts those analyzed, each once, and the one under way.
LEMMA KnownStep ==
  ASSUME CallInv, Next
  PROVE  KnownOrAnalyzed'
<1> USE DEF CallInv
<1>1. CASE Opening \/ RefineOle \/ Walking
  <2>1. UNCHANGED <<analyzed, artifacts>> /\ Pending' = Pending
    BY <1>1, PendingAfter
  <2> QED
    BY <2>1 DEF KnownOrAnalyzed, Analyzed
<1>2. CASE RunAnalyzers
  <2>1. Pending = {Top.content} /\ Pending' = {} /\ UNCHANGED artifacts
    BY <1>2, PendingAfter
  <2>2. Top.content \in Contents /\ analyzed' = Append(analyzed, Top.content)
    BY <1>2, AnalyzersRun
  <2>3. analyzed \in Seq(Contents)
    BY DEF TypeOK
  <2>4. Analyzed' = Analyzed \cup {Top.content}
    BY <2>2, <2>3, RangeOfAppend DEF Analyzed
  <2>5. Top.content \notin Analyzed
    BY <2>1 DEF KnownOrAnalyzed
  <2>6. \A j \in DOMAIN analyzed : analyzed[j] # Top.content
    BY <2>5 DEF Analyzed, Range
  <2> DEFINE c == Top.content
             n == Len(analyzed)
  <2> HIDE DEF c
  <2>7. /\ n \in Nat /\ DOMAIN analyzed = 1..n /\ DOMAIN analyzed' = 1..(n + 1)
        /\ analyzed'[n + 1] = c /\ \A j \in 1..n : analyzed'[j] = analyzed[j]
    BY <2>2, <2>3 DEF c
  <2> HIDE DEF n
  <2>8. \A j, k \in DOMAIN analyzed' : analyzed'[j] = analyzed'[k] => j = k
    <3> SUFFICES ASSUME NEW j \in 1..(n + 1), NEW k \in 1..(n + 1), analyzed'[j] = analyzed'[k]
                 PROVE  j = k
      BY <2>7
    <3>1. CASE j \in 1..n /\ k \in 1..n
      BY <2>7, <3>1 DEF KnownOrAnalyzed
    <3>2. CASE j = n + 1 /\ k \in 1..n
      BY <2>6, <2>7, <3>2 DEF c
    <3>3. CASE j \in 1..n /\ k = n + 1
      BY <2>6, <2>7, <3>3 DEF c
    <3> QED
      BY <2>7, <3>1, <3>2, <3>3
  <2> QED
    BY <2>1, <2>4, <2>8 DEF KnownOrAnalyzed
<1>3. CASE Descend
  <2>1. /\ Member.content \in Contents \ artifacts /\ stack # << >> /\ Top.at = "walk"
        /\ artifacts' = artifacts \cup {Member.content} /\ stack' # << >>
        /\ Top' = Frame(Member.content, Top.depth + 1) /\ Top.depth + 1 \in Nat
    BY <1>3, DescentFacts
  <2>2. /\ Frame(Member.content, Top.depth + 1).content = Member.content
        /\ Frame(Member.content, Top.depth + 1).at = "open"
    BY <2>1, FrameTyped
  <2>3. Pending = {} /\ Pending' = {Member.content}
    <3>1. Top'.content = Member.content /\ Top'.at = "open"
      BY <2>1, <2>2
    <3> QED
      BY <2>1, <3>1 DEF Pending, Done
  <2>4. UNCHANGED analyzed
    BY <1>3 DEF Descend
  <2> QED
    BY <2>1, <2>3, <2>4 DEF KnownOrAnalyzed, Analyzed
<1>4. CASE Return
  <2>1. stack # << >> /\ stack' = Front(stack) /\ Top.at = "walk"
        /\ UNCHANGED <<artifacts, analyzed>>
    BY <1>4 DEF Return, At
  <2>2. Pending = {}
    BY <2>1 DEF Pending, Done
  <2>3. Pending' = {}
    <3>1. /\ Len(stack') = Len(stack) - 1 /\ DOMAIN stack' = DOMAIN stack \ {Len(stack)}
          /\ stack' # << >> => Top' = stack[Len(stack) - 1] /\ Len(stack) - 1 \in DOMAIN stack'
      BY <2>1, Returns
    <3>2. ASSUME stack' # << >> PROVE Top'.at = "walk"
      BY <3>1, <3>2 DEF CallsInOrder
    <3> QED
      BY <3>2 DEF Pending, Done
  <2> QED
    BY <2>1, <2>2, <2>3 DEF KnownOrAnalyzed, Analyzed
<1>5. CASE UNCHANGED vars
  BY <1>5 DEF vars, KnownOrAnalyzed, Analyzed, Pending, Done, Top
<1> QED
  BY <1>1, <1>2, <1>3, <1>4, <1>5, Steps

\* Every step keeps the invariant of the calls.
LEMMA CallStep == CallInv /\ [Next]_vars => CallInv'
<1> SUFFICES ASSUME CallInv, [Next]_vars PROVE CallInv'
  OBVIOUS
<1>1. CASE Next
  BY <1>1, TypeStep, NestingStep, CallsStep, OpenedStep, KnownStep DEF CallInv
<1>2. CASE UNCHANGED vars
  BY <1>2 DEF vars, setting, CallInv, TypeOK, NestingBounded, CallsInOrder, WalkedWasOpened,
              Enterable, CoveredByContainer, Expanded, KnownOrAnalyzed, Analyzed, Pending,
              Done, Top
<1> QED
  BY <1>1, <1>2

\* The invariant of the calls holds in every reachable state.
LEMMA CallInvariant == Spec => []CallInv
BY CallInit, CallStep, PTL DEF Spec

(***************************************************************************)
(* Calls never nest deeper than max_depth + 1, whatever the files contain: *)
(* the depth every child is entered with is one more than its parent's,    *)
(* and only a file opened below the cap has members that are entered.      *)
(***************************************************************************)
THEOREM NestingIsBounded == Spec => []NestingBounded
<1>1. CallInv => NestingBounded
  BY DEF CallInv
<1> QED
  BY <1>1, CallInvariant, PTL

(***************************************************************************)
(* No content is analyzed twice, even one that is nested in itself, and    *)
(* when the report is built every artifact has been analyzed.              *)
(***************************************************************************)
THEOREM EachAnalyzedOnce == Spec => []AnalyzedOnce
<1>1. CallInv => AnalyzedOnce
  BY DEF CallInv, KnownOrAnalyzed, AnalyzedOnce, Analyzed, Pending, Range
<1> QED
  BY <1>1, CallInvariant, PTL

-----------------------------------------------------------------------------
(* Started runs keep their records *)

\* The file of an innermost call that has not come to its members is not analyzed yet.
LEMMA OpenNotAnalyzed ==
  ASSUME CallInv, stack # << >>, Top.at # "walk"
  PROVE  Top.content \notin Analyzed
BY DEF CallInv, KnownOrAnalyzed, Pending, Done

\* A step leaves the record of a started run as it is.
LEMMA StartedKept ==
  ASSUME CallInv, StartedUncovered, Next, NEW j \in started
  PROVE  j \in DOMAIN runs' /\ runs'[j] = runs[j]
<1>1. j \in DOMAIN runs /\ runs[j].artifact \in Analyzed
  BY DEF CallInv, TypeOK, StartedUncovered
<1>2. ASSUME NEW ids, IngestLimits(Top.content, ids), stack # << >>,
             runs[j].artifact # Top.content
      PROVE  j \in DOMAIN runs' /\ runs'[j] = runs[j]
  <2>1. Top.content \in Contents
    BY <1>2, TopFacts DEF CallInv
  <2> QED
    BY <1>1, <1>2, <2>1, Ingested DEF CallInv
<1>3. CASE StopAtDepth \/ OpenFails \/ OpenContainer
  <2>1. /\ stack # << >> /\ Top.at = "open" 
        /\ \E ids : IngestLimits(Top.content, ids)
    BY <1>3 DEF StopAtDepth, OpenFails, OpenContainer, At
  <2>2. runs[j].artifact # Top.content
    BY <1>1, <2>1, OpenNotAnalyzed
  <2> QED
    BY <1>2, <2>1, <2>2
<1>4. CASE LinkDuplicate
  <2>1. IngestLimits(Top.content, {"rec.duplicate"}) /\ AtMember({"extracted"})
    BY <1>4 DEF LinkDuplicate
  <2>2. stack # << >> /\ Top.next <= Len(files[Top.content].members)
    BY <2>1 DEF AtMember, At
  <2>3. Len(stack) \in DOMAIN stack /\ Top = stack[Len(stack)]
    BY <2>2, TopFacts DEF CallInv
  <2>4. CoveredByContainer(stack[Len(stack)])
    BY <2>2, <2>3 DEF CallInv, WalkedWasOpened, Enterable
  <2>5. runs[j].artifact # Top.content
    BY <2>3, <2>4 DEF StartedUncovered
  <2> QED
    BY <1>2, <2>1, <2>2, <2>5
<1>5. CASE RunAnalyzers
  BY <1>1, <1>5, AnalyzersRun DEF CallInv
<1>6. CASE UNCHANGED runs
  BY <1>1, <1>6
<1>7. PassUnopened \/ RefineOle \/ PassDirectory \/ StubMember \/ Descend \/ Return \/ Finished
      => UNCHANGED runs
  BY DEF PassUnopened, RefineOle, PassDirectory, StubMember, Descend, Return, Finished, vars
<1> QED
  BY <1>3, <1>4, <1>5, <1>6, <1>7 DEF Next

\* Runs become started only when an analyzer runs on an uncovered file.
LEMMA StartedGrows ==
  ASSUME TypeOK, Next
  PROVE  \/ UNCHANGED started
         \/ RunAnalyzers /\ ~CoveredByContainer(Top) /\ started' = started \cup {Len(runs')}
<1>1. ASSUME StopAtDepth \/ OpenFails \/ OpenContainer \/ LinkDuplicate PROVE UNCHANGED started
  BY <1>1 DEF StopAtDepth, OpenFails, OpenContainer, LinkDuplicate, IngestLimits
<1>2. PassUnopened \/ RefineOle \/ PassDirectory \/ StubMember \/ Descend \/ Return \/ Finished
      => UNCHANGED started
  BY DEF PassUnopened, RefineOle, PassDirectory, StubMember, Descend, Return, Finished, vars
<1> QED
  BY <1>1, <1>2, AnalyzersRun DEF Next

\* Every step keeps started runs to analyzed files that are not covered.
LEMMA UncoveredStep ==
  ASSUME CallInv, StartedUncovered, Next, CallInv'
  PROVE  StartedUncovered'
<1> USE DEF CallInv
<1>n. PICK n \in Nat : n = Len(stack)
  BY DEF TypeOK
<1>1. Analyzed \subseteq Analyzed'
  BY AnalyzedGrows DEF Analyzed
<1> DEFINE Fine(c) == \A k \in DOMAIN stack : stack[k].content = c => ~CoveredByContainer(stack[k])
<1>2. ASSUME NEW j \in started
      PROVE  runs[j].artifact \in Analyzed /\ Fine(runs[j].artifact)
             /\ runs'[j] = runs[j] /\ runs'[j].artifact \in Analyzed'
  BY <1>1, <1>2, StartedKept DEF StartedUncovered
<1>3. ASSUME NEW c \in Analyzed, Fine(c)
      PROVE  Fine(c)'
  <2>1. CASE RefineOle \/ RunAnalyzers \/ Walking
    <3>1. /\ Moved /\ Top'.content = Top.content
          /\ Top'.type = Top.type /\ Top'.inspected = Top.inspected
      BY <2>1, RefineTop, AnalyzeTop, WalkTop
    <3>2. /\ stack # << >> /\ DOMAIN stack' = DOMAIN stack /\ UNCHANGED setting
          /\ n \in DOMAIN stack /\ Top' = stack'[n] /\ SameBelow
      BY <1>n, <3>1, MovedFrames
    <3>3. Top = stack[n]
      BY <1>n, <3>2, TopFacts
    <3> SUFFICES ASSUME NEW k \in DOMAIN stack, stack'[k].content = c
                 PROVE  ~CoveredByContainer(stack[k])'
      BY <3>2
    <3>4. CASE k = n
      BY <1>3, <3>1, <3>2, <3>3, <3>4 DEF CoveredByContainer, setting
    <3>5. CASE k # n
      <4>1. stack'[k] = stack[k]
        BY <1>n, <3>2, <3>5 DEF SameBelow
      <4> QED
        BY <1>3, <3>2, <4>1 DEF CoveredByContainer, setting
    <3> QED
      BY <3>4, <3>5
  <2>2. CASE Opening
    <3>1. Moved /\ Top'.content = Top.content /\ Top.at = "open"
      BY <2>2, OpeningTop
    <3>2. /\ stack # << >> /\ DOMAIN stack' = DOMAIN stack /\ UNCHANGED setting
          /\ n \in DOMAIN stack /\ Top' = stack'[n] /\ SameBelow
      BY <1>n, <3>1, MovedFrames
    <3>3. Top.content # c
      BY <1>3, <3>1, <3>2, OpenNotAnalyzed
    <3> SUFFICES ASSUME NEW k \in DOMAIN stack, stack'[k].content = c
                 PROVE  ~CoveredByContainer(stack[k])'
      BY <3>2
    <3>4. k # n
      BY <3>1, <3>2, <3>3
    <3>5. stack'[k] = stack[k]
      BY <1>n, <3>2, <3>4 DEF SameBelow
    <3> QED
      BY <1>3, <3>2, <3>5 DEF CoveredByContainer, setting
  <2>3. CASE Descend
    <3>1. /\ DOMAIN stack' = DOMAIN stack \cup {n + 1} /\ n \in DOMAIN stack
          /\ stack'[n + 1] = Frame(Member.content, Top.depth + 1)
          /\ stack'[n] = Advance /\ SameBelow /\ UNCHANGED setting
          /\ Member.content \in Contents \ artifacts /\ Top.depth + 1 \in Nat
          /\ AtMember({"extracted"}) /\ stack # << >>
      BY <1>n, <2>3, DescentFacts
    <3>2. Frame(Member.content, Top.depth + 1).content = Member.content
      BY <3>1, FrameTyped
    <3>3. /\ Advance.content = Top.content /\ Advance.type = Top.type
          /\ Advance.inspected = Top.inspected /\ Top = stack[n]
      BY <1>n, <3>1, MemberFacts, TopFacts
    <3>4. c # Member.content
      BY <1>3, <3>1 DEF KnownOrAnalyzed
    <3> SUFFICES ASSUME NEW k \in DOMAIN stack', stack'[k].content = c
                 PROVE  ~CoveredByContainer(stack[k])'
      OBVIOUS
    <3>5. CASE k = n + 1
      BY <3>1, <3>2, <3>4, <3>5
    <3>6. CASE k = n
      BY <1>3, <3>1, <3>3, <3>6 DEF CoveredByContainer, setting
    <3>7. CASE k \in DOMAIN stack /\ k # n
      <4>1. stack'[k] = stack[k]
        BY <1>n, <3>1, <3>7 DEF SameBelow
      <4> QED
        BY <1>3, <3>1, <3>7, <4>1 DEF CoveredByContainer, setting
    <3> QED
      BY <3>1, <3>5, <3>6, <3>7
  <2>4. CASE Return
    <3>1. stack # << >> /\ stack' = Front(stack) /\ UNCHANGED setting
      BY <2>4 DEF Return, At
    <3>2. DOMAIN stack' \subseteq DOMAIN stack /\ \A k \in DOMAIN stack' : stack'[k] = stack[k]
      BY <3>1, Returns
    <3> QED
      BY <1>3, <3>1, <3>2 DEF CoveredByContainer, setting
  <2>5. CASE UNCHANGED vars
    BY <1>3, <2>5 DEF vars, setting, CoveredByContainer
  <2> QED
    BY <2>1, <2>2, <2>3, <2>4, <2>5, Steps
<1>4. ASSUME NEW j \in started'
      PROVE  runs'[j].artifact \in Analyzed' /\ Fine(runs[j].artifact)'
  <2>1. CASE j \in started
    <3>1. Fine(runs[j].artifact)' <=> \A k \in DOMAIN stack' :
            stack'[k].content = runs[j].artifact => ~CoveredByContainer(stack[k])'
      BY <1>2, <2>1
    <3>2. \A k \in DOMAIN stack' :
            stack'[k].content = runs[j].artifact => ~CoveredByContainer(stack[k])'
      <4>1. PICK c \in Analyzed : c = runs[j].artifact
        BY <1>2, <2>1
      <4> QED
        BY <1>2, <1>3, <2>1, <4>1
    <3> QED
      BY <1>2, <2>1, <3>1, <3>2
  <2>2. CASE j \notin started
    <3>1. RunAnalyzers /\ ~CoveredByContainer(Top) /\ j = Len(runs')
      BY <1>4, <2>2, StartedGrows
    <3>2. runs'[j].artifact = Top.content /\ stack # << >> /\ Top.at = "analyze"
      BY <3>1, AnalyzersRun
    <3>3. /\ Moved /\ Top'.content = Top.content /\ Top'.at = "walk"
          /\ Top'.type = Top.type /\ Top'.inspected = Top.inspected
      BY <3>1, AnalyzeTop
    <3>4. /\ DOMAIN stack' = DOMAIN stack /\ UNCHANGED setting
          /\ n \in DOMAIN stack /\ Top' = stack'[n]
      BY <1>n, <3>3, MovedFrames
    <3>5. Top'.content \in Analyzed'
      BY <3>3, <3>4 DEF CallsInOrder
    <3>6. \A k \in DOMAIN stack' : stack'[k].content = Top.content => k = n
      BY <3>3, <3>4 DEF CallsInOrder
    <3>7. ~CoveredByContainer(stack[n])'
      BY <3>1, <3>3, <3>4 DEF CoveredByContainer, setting
    <3> QED
      BY <3>2, <3>3, <3>5, <3>6, <3>7
  <2> QED
    BY <2>1, <2>2
<1> QED
  BY <1>4 DEF StartedUncovered

UncoveredInv == CallInv /\ StartedUncovered

\* Started runs are never noted in, in every reachable state.
LEMMA UncoveredInvariant == Spec => []UncoveredInv
<1>1. Init => UncoveredInv
  BY CallInit DEF Init, UncoveredInv, StartedUncovered
<1>2. UncoveredInv /\ [Next]_vars => UncoveredInv'
  <2> SUFFICES ASSUME UncoveredInv, [Next]_vars PROVE UncoveredInv'
    OBVIOUS
  <2>1. CallInv'
    BY CallStep DEF UncoveredInv
  <2>2. CASE Next
    BY <2>1, <2>2, UncoveredStep DEF UncoveredInv
  <2>3. CASE UNCHANGED vars
    BY <2>1, <2>3 DEF vars, setting, UncoveredInv, StartedUncovered, Analyzed, CoveredByContainer
  <2> QED
    BY <2>2, <2>3
<1> QED
  BY <1>1, <1>2, PTL DEF Spec

(***************************************************************************)
(* A run that the archive analyzer was really started for keeps its record *)
(* in every step: members are noted only in the runs of files the          *)
(* container worker covers, and for those no analyzer was started.         *)
(***************************************************************************)
THEOREM StartedRunsAreKept == Spec => StartedRunKept
<1>1. UncoveredInv /\ [Next]_vars => [\A j \in started : runs'[j] = runs[j]]_vars
  BY StartedKept DEF UncoveredInv
<1> QED
  BY <1>1, UncoveredInvariant, PTL DEF Spec, StartedRunKept

-----------------------------------------------------------------------------
(* What was not expanded is explained *)

\* A call is about to open its file only right after the file was entered.
LEMMA OpenAfter ==
  ASSUME CallInv, Next, At("open")'
  PROVE  \/ Descend /\ Top'.content = Member.content /\ Top'.type = MagicType(Member.content)
                    /\ UNCHANGED setting
         \/ UNCHANGED vars
<1> USE DEF CallInv
<1>1. stack' # << >> /\ Top'.at = "open"
  BY DEF At
<1>2. ~(Opening \/ RefineOle \/ RunAnalyzers \/ Walking)
  BY <1>1, OpeningTop, RefineTop, AnalyzeTop, WalkTop
<1>3. ASSUME Return PROVE FALSE
  <2>1. stack # << >> /\ stack' = Front(stack)
    BY <1>3 DEF Return, At
  <2>2. /\ Len(stack') = Len(stack) - 1 /\ DOMAIN stack' = DOMAIN stack \ {Len(stack)}
        /\ Top' = stack[Len(stack) - 1] /\ Len(stack) - 1 \in DOMAIN stack'
    BY <1>1, <2>1, Returns
  <2> QED
    BY <1>1, <2>2 DEF CallsInOrder
<1>4. ASSUME Descend
      PROVE  /\ Top'.content = Member.content /\ Top'.type = MagicType(Member.content)
             /\ UNCHANGED setting
  <2>1. /\ Top' = Frame(Member.content, Top.depth + 1) /\ UNCHANGED setting
        /\ Member.content \in Contents /\ Top.depth + 1 \in Nat
    BY <1>4, DescentFacts
  <2>2. /\ Frame(Member.content, Top.depth + 1).content = Member.content
        /\ Frame(Member.content, Top.depth + 1).type = MagicType(Member.content)
    BY <2>1, FrameTyped
  <2> QED
    BY <2>1, <2>2
<1> QED
  BY <1>2, <1>3, <1>4, Steps

\* Every step keeps files from being opened twice.
LEMMA FirstStep ==
  ASSUME CallInv, FirstOpening, Next
  PROVE  FirstOpening'
<1> USE DEF CallInv
<1>1. \A b \in Range(brokers') : b.artifact \in artifacts'
  <2>1. CASE Opening \/ RefineOle
    <3>1. /\ Range(brokers') \subseteq Range(brokers) \cup
               {Broker(Top.content, kind, status) : kind \in {"zip", "ole"}, status \in RunStatus}
          /\ UNCHANGED artifacts /\ Moved
      BY <2>1, OpeningTop, RefineTop
    <3>2. Top.content \in artifacts
      BY <3>1, StackKnown, MovedFrames, TopFacts
    <3>3. \A kind, status : Broker(Top.content, kind, status).artifact = Top.content
      BY DEF Broker
    <3> QED
      BY <3>1, <3>2, <3>3 DEF FirstOpening
  <2>2. CASE RunAnalyzers \/ Walking \/ Descend \/ Return \/ UNCHANGED vars
    <3>1. UNCHANGED brokers /\ artifacts \subseteq artifacts'
      BY <2>2, AnalyzeTop, WalkTop DEF Descend, Return, vars
    <3> QED
      BY <3>1 DEF FirstOpening
  <2> QED
    BY <2>1, <2>2, Steps
<1>2. ASSUME At("open")'
      PROVE  /\ (Top.type = MagicType(Top.content))'
             /\ \A b \in Range(brokers') : b.artifact # Top'.content
  <2>1. CASE Descend /\ Top'.content = Member.content /\ Top'.type = MagicType(Member.content)
             /\ UNCHANGED setting
    <3>1. Member.content \notin artifacts /\ UNCHANGED brokers
      BY <2>1 DEF Descend
    <3> QED
      BY <2>1, <3>1 DEF MagicType, setting, FirstOpening
  <2>2. CASE UNCHANGED vars
    BY <1>2, <2>2 DEF vars, setting, FirstOpening, At, Top, MagicType
  <2> QED
    BY <1>2, <2>1, <2>2, OpenAfter
<1> QED
  BY <1>1, <1>2 DEF FirstOpening

\* A file stays explained.
LEMMA ExplainedKept ==
  ASSUME TypeOK, Next, NEW c \in Contents, Explained(c)
  PROVE  Explained(c)'
<1>1. Range(brokers) \subseteq Range(brokers')
  BY BrokersKept
<1>2. findings \subseteq findings'
  <2>1. ASSUME StopAtDepth \/ OpenFails \/ OpenContainer \/ LinkDuplicate
        PROVE  findings \subseteq findings'
    BY <2>1 DEF StopAtDepth, OpenFails, OpenContainer, LinkDuplicate, IngestLimits
  <2>2. PassUnopened \/ RefineOle \/ RunAnalyzers \/ PassDirectory \/ StubMember \/ Descend
        \/ Return \/ Finished => UNCHANGED findings
    BY DEF PassUnopened, RefineOle, RunAnalyzers, PassDirectory, StubMember, Descend, Return,
           Finished, vars
  <2> QED
    BY <2>1, <2>2 DEF Next
<1>3. UNCHANGED setting
  BY StackSteps, MovedFrames, DescentFacts DEF Return
<1> QED
  BY <1>1, <1>2, <1>3 DEF Explained, Expanded, setting

\* Opening a ZIP expands it or says why not.
LEMMA OpeningExplains ==
  ASSUME CallInv, FirstOpening, Opening, recursion, files[Top.content].kind = "zip"
  PROVE  Explained(Top.content)'

<1> USE DEF CallInv
<1>1. stack # << >> /\ Top.at = "open" /\ Top.type = "zip"
  BY DEF Opening, PassUnopened, StopAtDepth, OpenFails, OpenContainer, At, FirstOpening, MagicType
<1>2. Top.content \in Contents /\ UNCHANGED setting /\ Top'.content = Top.content
  BY <1>1, TopFacts, OpeningTop, MovedFrames
<1> DEFINE c == Top.content
<1>3. ASSUME NEW id \in {"rec.limit-depth", "rec.container-timeout", "archive.bad-zip"},
             [artifact |-> c, id |-> id] \in findings'
      PROVE  Explained(Top.content)'
  BY <1>2, <1>3 DEF Explained
<1>4. CASE StopAtDepth
  <2>1. IngestLimits(c, {"rec.limit-depth"})
    BY <1>4 DEF StopAtDepth
  <2>2. [artifact |-> c, id |-> "rec.limit-depth"] \in findings'
    BY <1>2, <2>1, Ingested
  <2> QED
    BY <1>3, <2>2
<1>5. CASE OpenFails
  <2>1. PICK id \in {"rec.container-timeout", "archive.bad-zip"} : IngestLimits(c, {id})
    BY <1>5 DEF OpenFails
  <2>2. [artifact |-> c, id |-> id] \in findings'
    BY <1>2, <2>1, Ingested
  <2> QED
    BY <1>3, <2>2
<1>6. CASE OpenContainer
  <2>1. brokers' = Append(brokers, Broker(c, "zip", "completed"))
    BY <1>6 DEF OpenContainer
  <2>2. Broker(c, "zip", "completed") \in Range(brokers')
    BY <1>2, <2>1, BrokersGrow DEF RunStatus
  <2> QED
    BY <1>2, <2>2 DEF Explained, Expanded, setting
<1> QED
  BY <1>1, <1>4, <1>5, <1>6 DEF Opening, PassUnopened

\* Every step keeps ZIPs that were opened explained.
LEMMA ExplainedStep ==
  ASSUME CallInv, FirstOpening, ExplainedOnceOpened, Next
  PROVE  ExplainedOnceOpened'
<1> USE DEF CallInv
<1>1. UNCHANGED setting
  BY StackSteps, MovedFrames, DescentFacts DEF Return
<1>2. ASSUME NEW c \in artifacts', recursion', files'[c].kind = "zip"
      PROVE  Explained(c)' \/ (At("open")' /\ Top'.content = c)
  <2>1. recursion /\ files[c].kind = "zip"
    BY <1>1, <1>2 DEF setting
  <2>2. CASE c \in artifacts /\ Explained(c)
    BY <2>2, ExplainedKept DEF TypeOK
  <2>3. CASE c \in artifacts /\ ~Explained(c)
    <3>1. At("open") /\ Top.content = c
      BY <2>1, <2>3 DEF ExplainedOnceOpened
    <3>2. Opening \/ UNCHANGED vars
      BY <3>1, Steps, RefineTop, AnalyzeTop, WalkTop, DescentFacts DEF At, Return
    <3>3. CASE Opening
      <4>1. Top'.content = c
        BY <3>1, <3>3, OpeningTop
      <4>2. Explained(Top.content)'
        BY <2>1, <3>1, <3>3, OpeningExplains
      <4>3. Explained(c)'
        BY <4>1, <4>2 DEF Explained, Expanded
      <4> QED
        BY <4>3
    <3>4. CASE UNCHANGED vars
      BY <3>1, <3>4 DEF vars, At, Top
    <3> QED
      BY <3>2, <3>3, <3>4
  <2>4. CASE c \notin artifacts
    <3>1. Descend
      BY <1>2, <2>4, Steps, OpeningTop, RefineTop, AnalyzeTop, WalkTop DEF Return, vars
    <3>2. /\ stack' # << >> /\ artifacts' = artifacts \cup {Member.content}
          /\ Top' = Frame(Member.content, Top.depth + 1)
          /\ Member.content \in Contents /\ Top.depth + 1 \in Nat
      BY <3>1, DescentFacts
    <3>3. /\ Frame(Member.content, Top.depth + 1).content = Member.content
          /\ Frame(Member.content, Top.depth + 1).at = "open"
      BY <3>2, FrameTyped
    <3> QED
      BY <1>2, <2>4, <3>2, <3>3 DEF At
  <2> QED
    BY <2>2, <2>3, <2>4
<1> QED
  BY <1>2 DEF ExplainedOnceOpened

ExplainedInv == CallInv /\ FirstOpening /\ ExplainedOnceOpened

\* Initially the root is about to be opened.
LEMMA ExplainedInit == Init => ExplainedInv
<1> SUFFICES ASSUME Init PROVE ExplainedInv
  OBVIOUS
<1>1. CallInv
  BY CallInit
<1>2. stack = <<Frame(Root, 0)>> /\ artifacts = {Root} /\ brokers = << >>
  BY DEF Init
<1>3. /\ Frame(Root, 0).at = "open" /\ Frame(Root, 0).content = Root
      /\ Frame(Root, 0).type = MagicType(Root)
  BY DEF Frame
<1> DEFINE f == Frame(Root, 0)
<1>4. stack = <<f>> /\ f.at = "open" /\ f.content = Root /\ f.type = MagicType(Root)
  BY <1>2, <1>3
<1> HIDE DEF f
<1>5. stack # << >> /\ Len(stack) = 1 /\ stack[1] = f
  BY <1>4
<1>6. Top = f
  BY <1>5 DEF Top, Last
<1>7. At("open") /\ Top.content = Root /\ Range(brokers) = {}
  BY <1>2, <1>4, <1>5, <1>6 DEF At, Range
<1> QED
  BY <1>1, <1>2, <1>4, <1>6, <1>7 DEF ExplainedInv, FirstOpening, ExplainedOnceOpened

\* ZIPs that were opened are explained, in every reachable state.
LEMMA ExplainedInvariant == Spec => []ExplainedInv
<1>1. ExplainedInv /\ [Next]_vars => ExplainedInv'
  <2> SUFFICES ASSUME ExplainedInv, [Next]_vars PROVE ExplainedInv'
    OBVIOUS
  <2>1. CallInv'
    BY CallStep DEF ExplainedInv
  <2>2. CASE Next
    BY <2>1, <2>2, FirstStep, ExplainedStep DEF ExplainedInv
  <2>3. CASE UNCHANGED vars
    BY <2>1, <2>3 DEF vars, setting, runVars, ExplainedInv, FirstOpening, MagicType,
                      ExplainedOnceOpened, Explained, Expanded, At, Top
  <2> QED
    BY <2>2, <2>3
<1> QED
  BY ExplainedInit, <1>1, PTL DEF Spec

(***************************************************************************)
(* With recursion on, every ZIP of the finished report was expanded, or a  *)
(* finding of its own says that the depth cap or the worker prevented it.  *)
(***************************************************************************)
THEOREM NothingUnexplained == Spec => []UnexpandedIsExplained
<1>1. ExplainedInv => UnexpandedIsExplained
  BY DEF ExplainedInv, ExplainedOnceOpened, UnexpandedIsExplained, At, Done
<1> QED
  BY <1>1, ExplainedInvariant, PTL

-----------------------------------------------------------------------------
(* Every member is linked *)

\* Passing a member, with or without entering it.
LEMMA PassFacts ==
  ASSUME CallInv, Walking \/ Descend, NEW n, n = Len(stack)
  PROVE  /\ n \in DOMAIN stack /\ Top = stack[n] /\ Top.at = "walk"
         /\ Top.content \in Contents /\ Top.next \in DOMAIN files[Top.content].members
         /\ Top.next \in Nat /\ UNCHANGED <<brokers, setting>>
         /\ DOMAIN stack \subseteq DOMAIN stack'
         /\ \A k \in DOMAIN stack : /\ stack'[k].content = stack[k].content
                                    /\ k # n => stack'[k].next = stack[k].next
         /\ stack'[n].next = Top.next + 1
         /\ \A k \in DOMAIN stack' \ DOMAIN stack : stack'[k].content \notin artifacts
         /\ contains' = contains \cup
              (IF files[Top.content].members[Top.next].status = "directory" THEN {}
               ELSE {MemberEdge(Top.content, Top.next)})
<1> USE DEF CallInv
<1>1. PICK status : AtMember(status)
  BY DEF Walking, PassDirectory, StubMember, LinkDuplicate, Descend
<1>2. /\ stack # << >> /\ Top.at = "walk" /\ Top.content \in Contents
      /\ Top.next \in DOMAIN files[Top.content].members
      /\ Member = files[Top.content].members[Top.next]
      /\ (Member.status = "extracted" <=> Member.content # "none")
      /\ Advance.content = Top.content /\ Advance.next = Top.next + 1
  BY <1>1, MemberFacts DEF Member
<1>3. /\ n \in DOMAIN stack /\ Top = stack[n] /\ Top.next \in Nat
  BY <1>2, TopFacts DEF FrameType
<1>4. UNCHANGED brokers
  BY WalkTop DEF Descend
<1>5. contains' = contains \cup
        (IF files[Top.content].members[Top.next].status = "directory" THEN {}
         ELSE {MemberEdge(Top.content, Top.next)})
  <2>1. CASE PassDirectory
    BY <1>2, <2>1 DEF PassDirectory, AtMember
  <2>2. CASE StubMember
    <3>1. /\ Member.status \notin {"extracted", "directory"}
          /\ contains' = contains \cup {Edge("none")}
      BY <2>2 DEF StubMember, AtMember
    <3>2. Edge("none") = MemberEdge(Top.content, Top.next)
      BY <1>2, <3>1 DEF Edge, MemberEdge
    <3> QED
      BY <1>2, <3>1, <3>2
  <2>3. CASE LinkDuplicate \/ Descend
    <3>1. /\ Member.status = "extracted"
          /\ contains' = contains \cup {Edge(Member.content)}
      BY <2>3 DEF LinkDuplicate, Descend, AtMember
    <3>2. Edge(Member.content) = MemberEdge(Top.content, Top.next)
      BY <1>2 DEF Edge, MemberEdge
    <3> QED
      BY <1>2, <3>1, <3>2
  <2> QED
    BY <2>1, <2>2, <2>3 DEF Walking
<1>6. CASE Walking
  <2>1. /\ Moved /\ Top'.next = Top.next + 1 /\ Top'.content = Top.content
        /\ UNCHANGED artifacts
    BY <1>6, WalkTop
  <2>2. /\ DOMAIN stack' = DOMAIN stack /\ Top' = stack'[n] /\ SameBelow
        /\ UNCHANGED setting
        /\ \A k \in DOMAIN stack : stack'[k].content = stack[k].content
    BY <2>1, MovedFrames
  <2> QED
    BY <1>2, <1>3, <1>4, <1>5, <2>1, <2>2 DEF SameBelow
<1>7. CASE Descend
  <2>1. /\ DOMAIN stack' = DOMAIN stack \cup {n + 1}
        /\ stack'[n + 1] = Frame(Member.content, Top.depth + 1)
        /\ stack'[n] = Advance /\ SameBelow /\ UNCHANGED setting
        /\ Member.content \in Contents \ artifacts /\ Top.depth + 1 \in Nat
        /\ artifacts' = artifacts \cup {Member.content}
    BY <1>7, DescentFacts
  <2>2. Frame(Member.content, Top.depth + 1).content = Member.content
    BY <2>1, FrameTyped
  <2>3. \A k \in DOMAIN stack' \ DOMAIN stack : stack'[k].content \notin artifacts
    BY <2>1, <2>2
  <2>4. \A k \in DOMAIN stack : /\ stack'[k].content = stack[k].content
                                /\ k # n => stack'[k].next = stack[k].next
    BY <1>2, <1>3, <2>1 DEF SameBelow
  <2> QED
    BY <1>2, <1>3, <1>4, <1>5, <2>1, <2>3, <2>4
<1> QED
  BY <1>6, <1>7

\* Only a known file was expanded, and not one that is about to be opened.
LEMMA ExpandedKnown ==
  ASSUME FirstOpening, NEW c, Expanded(c)
  PROVE  c \in artifacts /\ (At("open") => c # Top.content)
<1>1. Broker(c, "zip", "completed").artifact = c
  BY DEF Broker
<1> QED
  BY <1>1 DEF FirstOpening, Expanded

\* Opening a file expands it only by starting the walk at its first member.
LEMMA ExpandingStarts ==
  ASSUME CallInv, FirstOpening, Opening, NEW c, c = Top.content, Expanded(c)'
  PROVE  Top'.next = 1
<1> USE DEF CallInv
<1>1. stack # << >> /\ Top.at = "open" /\ UNCHANGED setting
  BY OpeningTop, MovedFrames
<1>2. c \in Contents /\ Top \in FrameType
  BY <1>1, TopFacts
<1>3. recursion /\ files[c].kind = "zip" /\ Broker(c, "zip", "completed") \in Range(brokers')
  BY <1>1 DEF Expanded, setting
<1>4. Broker(c, "zip", "completed") \notin Range(brokers)
  <2>1. Broker(c, "zip", "completed").artifact = c
    BY DEF Broker
  <2> QED
    BY <1>1, <2>1 DEF FirstOpening, At
<1>5. ~(PassUnopened \/ StopAtDepth)
  BY <1>3, <1>4 DEF PassUnopened, StopAtDepth
<1>6. ~OpenFails
  <2> SUFFICES ASSUME OpenFails PROVE FALSE
    OBVIOUS
  <2>1. PICK status \in {"failed", "timeout"} : brokers' = Append(brokers, Broker(c, "zip", status))
    BY DEF OpenFails
  <2>2. Range(brokers') = Range(brokers) \cup {Broker(c, "zip", status)}
    BY <1>2, <2>1, BrokersGrow DEF RunStatus
  <2>3. Broker(c, "zip", status) # Broker(c, "zip", "completed")
    BY <2>1 DEF Broker
  <2> QED
    BY <1>3, <1>4, <2>2, <2>3
<1>7. OpenContainer
  BY <1>5, <1>6 DEF Opening
<1> DEFINE f == [Top EXCEPT !.at = "analyze", !.inspected = TRUE, !.type = files[c].kind,
                            !.next = IF recursion /\ files[c].kind = "zip" THEN 1 ELSE @]
<1>8. SetTop(f)
  BY <1>7 DEF OpenContainer
<1>9. f \in FrameType /\ f.next = 1
  BY <1>2, <1>3, Files DEF FrameType, Places, Types
<1> HIDE DEF f
<1> QED
  BY <1>1, <1>8, <1>9, TopMoves

\* How the set of linked members grows.
LEMMA LinkedChange ==
  ASSUME CallInv, FirstOpening, Next, NEW c \in Contents, NEW i \in DOMAIN files[c].members
  PROVE  Linked(c, i)' <=>
           \/ Linked(c, i)
           \/ /\ Walking \/ Descend
              /\ c = Top.content /\ i = Top.next /\ files[c].members[i].status # "directory"
<1> USE DEF CallInv
<1>n. PICK n \in Nat : n = Len(stack)
  BY DEF TypeOK
<1>i. i \in Nat \ {0} /\ i <= Len(files[c].members) /\ Len(files[c].members) \in Nat
  BY Files
<1> DEFINE Passed == \A k \in DOMAIN stack : stack[k].content = c => i < stack[k].next
<1>s. UNCHANGED setting
  BY StackSteps, MovedFrames, DescentFacts DEF Return
<1>l. /\ Linked(c, i) <=> Expanded(c) /\ files[c].members[i].status # "directory" /\ Passed
      /\ Linked(c, i)' <=> /\ Expanded(c)' /\ files[c].members[i].status # "directory"
                           /\ Passed'
  BY <1>s DEF Linked, setting
<1>1. CASE Walking \/ Descend
  <2>1. /\ n \in DOMAIN stack /\ Top = stack[n] /\ Top.at = "walk"
        /\ Top.next \in DOMAIN files[Top.content].members
        /\ Top.content \in Contents /\ Top.next \in Nat /\ UNCHANGED brokers
        /\ DOMAIN stack \subseteq DOMAIN stack'
        /\ \A k \in DOMAIN stack : /\ stack'[k].content = stack[k].content
                                   /\ k # n => stack'[k].next = stack[k].next
        /\ stack'[n].next = Top.next + 1
        /\ \A k \in DOMAIN stack' \ DOMAIN stack : stack'[k].content \notin artifacts
    BY <1>1, <1>n, PassFacts
  <2>2. Expanded(c)' = Expanded(c)
    BY <1>s, <2>1 DEF Expanded, setting
  <2>3. Expanded(c) => c \in artifacts
    BY ExpandedKnown
  <2>4. CASE c # Top.content
    <3>1. ASSUME Expanded(c) PROVE Passed' <=> Passed
      BY <2>1, <2>3, <2>4, <3>1
    <3> QED
      BY <1>l, <2>2, <2>4, <3>1
  <2>5. CASE c = Top.content
    <3>1. Top.next <= Len(files[Top.content].members)
      BY <2>1, Files
    <3>2. Expanded(c)
      BY <2>1, <2>5, <3>1 DEF WalkedWasOpened, Enterable
    <3>3. \A k \in DOMAIN stack : stack[k].content = c <=> k = n
      BY <2>1, <2>5 DEF CallsInOrder
    <3>4. \A k \in DOMAIN stack' : stack'[k].content = c <=> k = n
      BY <2>1, <2>3, <3>2, <3>3
    <3>5. Passed <=> i < Top.next
      BY <2>1, <3>3
    <3>6. Passed' <=> i < Top.next + 1
      BY <2>1, <3>4
    <3>7. Passed' <=> Passed \/ i = Top.next
      BY <1>i, <2>1, <3>5, <3>6
    <3> QED
      BY <1>1, <1>l, <2>2, <2>5, <3>2, <3>7
  <2> QED
    BY <2>4, <2>5
<1>2. CASE Opening
  <2>1. /\ Moved /\ Top.at = "open" /\ Top'.content = Top.content
        /\ Range(brokers) \subseteq Range(brokers')
        /\ Range(brokers') \subseteq Range(brokers) \cup
             {Broker(Top.content, "zip", status) : status \in RunStatus}
    BY <1>2, OpeningTop
  <2>2. /\ stack # << >> /\ DOMAIN stack' = DOMAIN stack /\ n \in DOMAIN stack
        /\ Top' = stack'[n] /\ SameBelow
        /\ \A k \in DOMAIN stack : stack'[k].content = stack[k].content
    BY <1>n, <2>1, MovedFrames
  <2>3. Top = stack[n] /\ ~(Walking \/ Descend)
    BY <1>n, <2>1, <2>2, TopFacts, WalkTop, DescentFacts
  <2>4. CASE c = Top.content
    <3>1. ~Expanded(c)
      BY <2>1, <2>2, <2>4, ExpandedKnown DEF At
    <3>2. ASSUME Expanded(c)' PROVE ~Passed'
      <4>1. stack'[n].next = 1
        BY <1>2, <2>2, <2>4, <3>2, ExpandingStarts
      <4> QED
        BY <1>i, <2>2, <2>3, <2>4, <4>1
    <3> QED
      BY <1>l, <2>3, <3>1, <3>2
  <2>5. CASE c # Top.content
    <3>1. Broker(c, "zip", "completed") \in Range(brokers') <=>
            Broker(c, "zip", "completed") \in Range(brokers)
      <4>1. \A status : Broker(Top.content, "zip", status) # Broker(c, "zip", "completed")
        BY <2>5 DEF Broker
      <4> QED
        BY <2>1, <4>1
    <3>2. Expanded(c)' <=> Expanded(c)
      BY <1>s, <3>1 DEF Expanded, setting
    <3>3. \A k \in DOMAIN stack : stack[k].content = c => stack'[k] = stack[k]
      BY <1>n, <2>2, <2>3, <2>5 DEF SameBelow
    <3>4. Passed' <=> Passed
      BY <2>2, <3>3
    <3> QED
      BY <1>l, <2>3, <3>2, <3>4
  <2> QED
    BY <2>4, <2>5
<1>3. CASE RefineOle \/ RunAnalyzers
  <2>1. /\ Moved /\ Top.at \in {"refine", "analyze"} /\ Top'.next = Top.next
        /\ \/ UNCHANGED brokers
           \/ \E status \in RunStatus :
                Range(brokers') = Range(brokers) \cup {Broker(Top.content, "ole", status)}
    BY <1>3, RefineTop, AnalyzeTop
  <2>2. /\ stack # << >> /\ DOMAIN stack' = DOMAIN stack /\ n \in DOMAIN stack
        /\ Top' = stack'[n] /\ SameBelow
        /\ \A k \in DOMAIN stack : stack'[k].content = stack[k].content
    BY <1>n, <2>1, MovedFrames
  <2>3. Top = stack[n]
    BY <1>n, <2>2, TopFacts
  <2>4. ~(Walking \/ Descend)
    BY <2>1, WalkTop, DescentFacts
  <2>5. \A status : Broker(Top.content, "ole", status) # Broker(c, "zip", "completed")
    BY DEF Broker
  <2>6. Expanded(c)' <=> Expanded(c)
    BY <1>s, <2>1, <2>5 DEF Expanded, setting
  <2>7. \A k \in DOMAIN stack : stack'[k].next = stack[k].next
    BY <1>n, <2>1, <2>2, <2>3 DEF SameBelow
  <2>8. Passed' <=> Passed
    BY <2>2, <2>7
  <2> QED
    BY <1>l, <2>4, <2>6, <2>8
<1>4. CASE Return
  <2>1. /\ stack # << >> /\ stack' = Front(stack) /\ UNCHANGED brokers
        /\ Top.next > Len(files[Top.content].members) 
    BY <1>4 DEF Return, At
  <2>2. /\ DOMAIN stack' = DOMAIN stack \ {n}
        /\ \A k \in DOMAIN stack' : stack'[k] = stack[k]
    BY <1>n, <2>1, Returns
  <2>3. Top = stack[n] /\ Top.next \in Nat
    BY <1>n, <2>1, TopFacts DEF FrameType
  <2>4. stack[n].content = c => i < stack[n].next
    BY <1>i, <2>1, <2>3
  <2>5. Passed' <=> Passed
    BY <2>2, <2>4
  <2>6. Expanded(c)' <=> Expanded(c)
    BY <1>s, <2>1 DEF Expanded, setting
  <2>7. ~(Walking \/ Descend)
    <3>1. Top.content \in Contents
      BY <2>1, TopFacts
    <3>2. Len(files[Top.content].members) \in Nat
          /\ DOMAIN files[Top.content].members = 1..Len(files[Top.content].members)
      BY <3>1, Files
    <3> QED
      BY <1>n, <2>1, <2>3, <3>2, PassFacts
  <2> QED
    BY <1>l, <2>5, <2>6, <2>7
<1>5. CASE UNCHANGED vars
  <2>1. ~(Walking \/ Descend)
    <3>1. ASSUME Walking PROVE Top'.next = Top.next + 1 /\ Top.next \in Nat
      BY <1>n, <3>1, WalkTop, PassFacts
    <3>2. ASSUME Descend PROVE Len(stack') = Len(stack) + 1
      BY <3>2, DescentFacts
    <3> QED
      BY <1>n, <1>5, <3>1, <3>2 DEF vars, Top
  <2> QED
    BY <1>5, <2>1 DEF vars, setting, Linked, Expanded
<1> QED
  BY <1>1, <1>2, <1>3, <1>4, <1>5, Steps

\* Every step keeps the relationships those of the members passed.
LEMMA LinkedStep ==
  ASSUME CallInv, FirstOpening, LinkedSoFar, Next
  PROVE  LinkedSoFar'
<1> USE DEF CallInv
<1>n. PICK n : n = Len(stack)
  OBVIOUS
<1>s. UNCHANGED setting
  BY StackSteps, MovedFrames, DescentFacts DEF Return
<1>f. files' = files
  BY <1>s DEF setting
<1>e. \A c, i : MemberEdge(c, i)' = MemberEdge(c, i)
  BY <1>f DEF MemberEdge
<1>1. CASE Walking \/ Descend
  <2> DEFINE dir == files[Top.content].members[Top.next].status = "directory"
  <2>1. /\ Top.content \in Contents /\ Top.next \in DOMAIN files[Top.content].members
        /\ contains' = contains \cup (IF dir THEN {} ELSE {MemberEdge(Top.content, Top.next)})
    BY <1>1, <1>n, PassFacts
  <2>2. \A c \in Contents : \A i \in DOMAIN files[c].members :
          Linked(c, i)' <=> Linked(c, i) \/ (c = Top.content /\ i = Top.next /\ ~dir)
    BY <1>1, LinkedChange
  <2>3. ASSUME NEW e \in contains'
        PROVE  \E c \in Contents : \E i \in DOMAIN files[c].members :
                 Linked(c, i)' /\ e = MemberEdge(c, i)
    <3>1. CASE e \in contains
      BY <2>2, <3>1 DEF LinkedSoFar
    <3>2. CASE ~dir /\ e = MemberEdge(Top.content, Top.next)
      <4>1. PICK c \in Contents : c = Top.content
        BY <2>1
      <4>2. PICK i \in DOMAIN files[c].members : i = Top.next
        BY <2>1, <4>1
      <4>3. Linked(c, i)' /\ e = MemberEdge(c, i)
        BY <2>2, <3>2, <4>1, <4>2
      <4> QED
        BY <4>3
    <3> QED
      BY <2>1, <2>3, <3>1, <3>2
  <2>4. ASSUME NEW c \in Contents, NEW i \in DOMAIN files[c].members, Linked(c, i)'
        PROVE  MemberEdge(c, i) \in contains'
    BY <2>1, <2>2, <2>4 DEF LinkedSoFar
  <2> QED
    BY <1>e, <1>f, <2>3, <2>4 DEF LinkedSoFar
<1>2. CASE ~(Walking \/ Descend)
  <2>1. UNCHANGED contains
    BY <1>2 DEF Next, Walking, PassUnopened, StopAtDepth, OpenFails, OpenContainer, RefineOle,
                RunAnalyzers, Return, Finished, vars
  <2>2. \A c \in Contents : \A i \in DOMAIN files[c].members : Linked(c, i)' <=> Linked(c, i)
    BY <1>2, LinkedChange
  <2> QED
    BY <1>e, <1>f, <2>1, <2>2 DEF LinkedSoFar
<1> QED
  BY <1>1, <1>2

LinkedInv == CallInv /\ FirstOpening /\ LinkedSoFar

\* The relationships are those of the members passed, in every reachable state.
LEMMA LinkedInvariant == Spec => []LinkedInv
<1>1. Init => LinkedInv
  <2> SUFFICES ASSUME Init PROVE LinkedInv
    OBVIOUS
  <2>1. ExplainedInv
    BY ExplainedInit
  <2>2. contains = {} /\ brokers = << >>
    BY DEF Init
  <2>3. Range(brokers) = {}
    BY <2>2 DEF Range
  <2>4. LinkedSoFar
    BY <2>2, <2>3 DEF LinkedSoFar, Linked, Expanded
  <2> QED
    BY <2>1, <2>4 DEF ExplainedInv, LinkedInv
<1>2. LinkedInv /\ [Next]_vars => LinkedInv'
  <2> SUFFICES ASSUME LinkedInv, [Next]_vars PROVE LinkedInv'
    OBVIOUS
  <2>1. CallInv'
    BY CallStep DEF LinkedInv
  <2>2. CASE Next
    BY <2>1, <2>2, FirstStep, LinkedStep DEF LinkedInv
  <2>3. CASE UNCHANGED vars
    BY <2>1, <2>3 DEF vars, setting, LinkedInv, FirstOpening, MagicType, LinkedSoFar,
                      Linked, MemberEdge, Expanded, At, Top
  <2> QED
    BY <2>2, <2>3
<1> QED
  BY <1>1, <1>2, PTL DEF Spec

(***************************************************************************)
(* The finished report has exactly one CONTAINS relationship for each      *)
(* member of each expanded container that is not a directory, leading to   *)
(* its content or to a stub, and no others.                                *)
(***************************************************************************)
THEOREM AllMembersLinked == Spec => []EveryMemberLinked
<1>1. LinkedInv => EveryMemberLinked
  <2> SUFFICES ASSUME LinkedInv, Done
               PROVE  contains = UNION {{MemberEdge(c, i) :
                         i \in {j \in DOMAIN files[c].members :
                                  files[c].members[j].status # "directory"}} :
                      c \in {d \in artifacts : Expanded(d)}}
    BY DEF EveryMemberLinked
  <2>1. DOMAIN stack = {}
    BY DEF Done
  <2>2. \A c, i : Linked(c, i) <=> Expanded(c) /\ files[c].members[i].status # "directory"
    BY <2>1 DEF Linked
  <2>3. \A c \in Contents : Expanded(c) => c \in artifacts
    BY ExpandedKnown DEF LinkedInv
  <2>4. artifacts \subseteq Contents
    BY DEF LinkedInv, CallInv, TypeOK
  <2> QED
    BY <2>2, <2>3, <2>4 DEF LinkedInv, LinkedSoFar
<1> QED
  BY <1>1, LinkedInvariant, PTL

(***************************************************************************)
(* The inductive invariant of the model as a whole.                        *)
(***************************************************************************)
THEOREM InductiveInvariant == Spec => []IInv
<1>1. UncoveredInv /\ ExplainedInv /\ LinkedInv => IInv
  BY DEF UncoveredInv, ExplainedInv, LinkedInv, CallInv, IInv
<1> QED
  BY <1>1, UncoveredInvariant, ExplainedInvariant, LinkedInvariant, PTL

-----------------------------------------------------------------------------
(* How often a content is given to a worker *)

\* A file waiting to be refined has not been given to a worker either.
FirstRefining ==
  At("refine") => \A b \in Range(brokers) : b.artifact # Top.content

\* A broker's worker is started for a file that no worker was started for before.
LEMMA OpeningIsFirst ==
  ASSUME TypeOK, FirstOpening, FirstRefining, OpenedOnce, Opening \/ RefineOle
  PROVE  OpenedOnce'
<1>1. CASE UNCHANGED brokers
  BY <1>1 DEF OpenedOnce
<1>2. ASSUME NEW kind \in {"zip", "ole"}, NEW status \in RunStatus,
             brokers' = Append(brokers, Broker(Top.content, kind, status)),
             At("open") \/ At("refine")
      PROVE  OpenedOnce'
  <2>1. \A b \in Range(brokers) : b.artifact # Top.content
    BY <1>2 DEF FirstOpening, FirstRefining
  <2> DEFINE new == Broker(Top.content, kind, status)
  <2>2. brokers \in Seq(BrokerType) /\ new \in BrokerType /\ new.artifact = Top.content
    BY <1>2, TopFacts DEF TypeOK, Broker, BrokerType, At
  <2> HIDE DEF new
  <2>3. /\ DOMAIN brokers' = 1..(Len(brokers) + 1) /\ DOMAIN brokers = 1..Len(brokers)
        /\ Len(brokers) \in Nat /\ brokers'[Len(brokers) + 1] = new
        /\ \A j \in 1..Len(brokers) : brokers'[j] = brokers[j]
    BY <1>2, <2>2 DEF new
  <2>4. \A j \in 1..Len(brokers) : brokers[j].artifact # Top.content
    BY <2>1, <2>3 DEF Range
  <2>5. ASSUME NEW j \in DOMAIN brokers', NEW k \in DOMAIN brokers',
               brokers'[j].artifact = brokers'[k].artifact
        PROVE  j = k
    BY <2>2, <2>3, <2>4, <2>5 DEF OpenedOnce
  <2> QED
    BY <2>5 DEF OpenedOnce
<1>3. CASE PassUnopened \/ StopAtDepth
  BY <1>1, <1>3 DEF PassUnopened, StopAtDepth
<1>4. CASE OpenFails \/ OpenContainer
  BY <1>2, <1>4 DEF OpenFails, OpenContainer, RunStatus
<1>5. CASE RefineOle
  BY <1>2, <1>5 DEF RefineOle, RunStatus
<1> QED
  BY <1>3, <1>4, <1>5 DEF Opening

\* A file that is to be refined was passed over by the broker of ZIPs.
LEMMA RefiningStep ==
  ASSUME CallInv, FirstOpening, FirstRefining, Next
  PROVE  FirstRefining'
<1> USE DEF CallInv
<1>1. SUFFICES ASSUME At("refine")'
               PROVE  \A b \in Range(brokers') : b.artifact # Top'.content
  BY DEF FirstRefining
<1>2. stack' # << >> /\ Top'.at = "refine"
  BY <1>1 DEF At
<1>3. CASE Opening
  <2>1. stack # << >> /\ Top \in FrameType
    BY <1>3, OpeningTop, TopFacts, MovedFrames
  <2>2. ~(StopAtDepth \/ OpenFails \/ OpenContainer)
    <3>1. ASSUME NEW f \in FrameType, SetTop(f), f.at = "analyze" PROVE FALSE
      BY <1>2, <2>1, <3>1, TopMoves
    <3>2. CASE StopAtDepth
      <4> DEFINE f == [Top EXCEPT !.at = "analyze"]
      <4>1. f \in FrameType /\ f.at = "analyze" /\ SetTop(f)
        BY <2>1, <3>2 DEF StopAtDepth, FrameType, Places
      <4> QED
        BY <3>1, <4>1
    <3>3. CASE OpenFails
      <4> DEFINE f == [Top EXCEPT !.at = "analyze", !.inspected = TRUE]
      <4>1. f \in FrameType /\ f.at = "analyze" /\ SetTop(f)
        BY <2>1, <3>3 DEF OpenFails, FrameType, Places
      <4> QED
        BY <3>1, <4>1
    <3>4. CASE OpenContainer
      <4> DEFINE kind == files[Top.content].kind
                 f == [Top EXCEPT !.at = "analyze", !.inspected = TRUE, !.type = kind,
                                  !.next = IF recursion /\ kind = "zip" THEN 1 ELSE @]
      <4>1. kind \in Types
        BY <2>1, TopFacts, Files
      <4>2. SetTop(f)
        BY <3>4 DEF OpenContainer
      <4> HIDE DEF kind
      <4>3. f \in FrameType /\ f.at = "analyze"
        BY <2>1, <4>1 DEF FrameType, Places
      <4> QED
        BY <3>1, <4>2, <4>3
    <3> QED
      BY <3>2, <3>3, <3>4
  <2>3. At("open") /\ UNCHANGED brokers /\ Top'.content = Top.content
    BY <1>3, <2>2, OpeningTop DEF Opening, PassUnopened
  <2> QED
    BY <2>3 DEF FirstOpening
<1>4. ~(RefineOle \/ RunAnalyzers \/ Walking)
  BY <1>2, RefineTop, AnalyzeTop, WalkTop
<1>5. ASSUME Descend PROVE FALSE
  BY <1>2, <1>5, DescentFacts DEF Frame
<1>6. ASSUME Return PROVE FALSE
  <2>1. stack # << >> /\ stack' = Front(stack)
    BY <1>6 DEF Return, At
  <2>2. /\ Len(stack') = Len(stack) - 1 /\ DOMAIN stack' = DOMAIN stack \ {Len(stack)}
        /\ Top' = stack[Len(stack) - 1] /\ Len(stack) - 1 \in DOMAIN stack'
    BY <1>2, <2>1, Returns
  <2> QED
    BY <1>2, <2>2 DEF CallsInOrder
<1>7. CASE UNCHANGED vars
  BY <1>2, <1>7 DEF vars, FirstRefining, At, Top
<1> QED
  BY <1>3, <1>4, <1>5, <1>6, <1>7, Steps

\* A report starts at most one broker's worker for each of its files, however often a
\* container occurs in others, and whether or not the worker completed: an archive
\* whose worker failed is not tried again when it is met again.
THEOREM EachOpenedOnce == Spec => []OpenedOnce
<1> DEFINE Inv == ExplainedInv /\ FirstRefining /\ OpenedOnce
<1>1. Init => Inv
  <2> SUFFICES ASSUME Init PROVE Inv
    OBVIOUS
  <2>1. brokers = << >>
    BY DEF Init
  <2>2. FirstRefining /\ OpenedOnce
    BY <2>1 DEF FirstRefining, OpenedOnce, Range
  <2> QED
    BY <2>2, ExplainedInit
<1>2. ASSUME ExplainedInv, FirstRefining, OpenedOnce, Next
      PROVE  FirstRefining' /\ OpenedOnce'
  <2>1. CASE Opening \/ RefineOle
    BY <1>2, <2>1, RefiningStep, OpeningIsFirst DEF ExplainedInv, CallInv
  <2>2. CASE RunAnalyzers \/ Walking \/ Descend \/ Return \/ UNCHANGED vars
    <3>1. UNCHANGED brokers
      BY <1>2, <2>2, AnalyzeTop, WalkTop DEF Descend, Return, vars, ExplainedInv, CallInv
    <3> QED
      BY <1>2, <3>1, RefiningStep DEF OpenedOnce, ExplainedInv
  <2> QED
    BY <1>2, <2>1, <2>2, Steps
<1>3. ExplainedInv /\ ExplainedInv' /\ FirstRefining /\ OpenedOnce /\ [Next]_vars
        => FirstRefining' /\ OpenedOnce'
  BY <1>2 DEF vars, FirstRefining, OpenedOnce, At, Top
<1>4. Inv => OpenedOnce
  OBVIOUS
<1> QED
  BY <1>1, <1>3, <1>4, ExplainedInvariant, PTL DEF Spec

-----------------------------------------------------------------------------
(* Why an analysis ends *)

Work == [c \in Contents |-> Unmet(c)]
Calls == [j \in DOMAIN stack |-> StepsLeft(stack[j])]

\* How many steps that is at each place.
LEMMA StepsFromPlaces ==
  ASSUME NEW n \in Nat, NEW i \in 1..(n + 1)
  PROVE  /\ StepsFrom("open", i, n) = n + 4
         /\ StepsFrom("refine", i, n) = n + 4 - i
         /\ StepsFrom("analyze", i, n) = n + 3 - i
         /\ StepsFrom("walk", i, n) = n + 2 - i
BY DEF StepsFrom

\* What a call has before it is a positive number.
LEMMA StepsLeftType ==
  ASSUME TypeOK
  PROVE  \A j \in DOMAIN stack : StepsLeft(stack[j]) \in Nat \ {0}
<1> SUFFICES ASSUME NEW j \in DOMAIN stack PROVE StepsLeft(stack[j]) \in Nat \ {0}
  OBVIOUS
<1> DEFINE members == Len(files[stack[j].content].members)
<1>1. stack \in Seq(FrameType) /\ stack[j].next \in 1..(members + 1)
  BY DEF TypeOK
<1>2. stack[j] \in FrameType
  BY <1>1, ElementOfSeq
<1>3. stack[j].content \in Contents /\ stack[j].at \in Places
  BY <1>2 DEF FrameType
<1>4. members \in Nat
  BY <1>3, Files
<1>5. StepsLeft(stack[j]) = StepsFrom(stack[j].at, stack[j].next, members)
  BY DEF StepsLeft
<1> HIDE DEF members
<1> QED
  BY <1>1, <1>3, <1>4, <1>5, StepsFromPlaces DEF Places

\* What is left altogether: a total over contents and one over calls, of numbers.
LeftTyped ==
  /\ \A c \in Contents : Work[c] \in Nat
  /\ \A j \in 1..Len(stack) : Calls[j] \in Nat \ {0}
  /\ DOMAIN stack = 1..Len(stack) /\ Len(stack) \in Nat
  /\ WorkLeft = SumFunctionOnSet(Work, Contents) + SumFunctionOnSet(Calls, 1..Len(stack))
  /\ SumFunctionOnSet(Work, Contents) \in Nat
  /\ SumFunctionOnSet(Calls, 1..Len(stack)) \in Nat
  /\ WorkLeft \in Nat

\* It is so whenever the types are right,
LEMMA WorkLeftType == TypeOK => LeftTyped
<1> SUFFICES ASSUME TypeOK PROVE LeftTyped
  OBVIOUS
<1>1. \A c \in Contents : Work[c] \in Nat
  BY Files DEF Work, Unmet
<1>2. DOMAIN stack = 1..Len(stack) /\ Len(stack) \in Nat
  BY DEF TypeOK
<1>3. \A j \in 1..Len(stack) : Calls[j] \in Nat \ {0}
  BY <1>2, StepsLeftType DEF Calls
<1>4. DOMAIN Work = Contents /\ DOMAIN Calls = 1..Len(stack)
  BY <1>2 DEF Work, Calls
<1>5. WorkLeft = SumFunctionOnSet(Work, Contents) + SumFunctionOnSet(Calls, 1..Len(stack))
  BY <1>4 DEF WorkLeft, Work, Calls, SumFunction
<1>6. SumFunctionOnSet(Work, Contents) \in Nat
  BY <1>1, ContentsAssumption, SumType
<1>7. SumFunctionOnSet(Calls, 1..Len(stack)) \in Nat
  BY <1>2, <1>3, SumUpTo
<1> QED
  BY <1>1, <1>2, <1>3, <1>5, <1>6, <1>7 DEF LeftTyped

\* and so it is after a step that keeps them right.
LEMMA WorkLeftTypeAfter == TypeOK' => LeftTyped'
BY WorkLeftType, PTL

\* A call that moves on has fewer steps before it; the other calls have what they had.
LEMMA MovedRunsDown ==
  ASSUME TypeOK, Opening \/ RefineOle \/ RunAnalyzers \/ Walking
  PROVE  /\ Moved /\ UNCHANGED artifacts
         /\ StepsLeft(Top)' < StepsLeft(Top)
<1>1. Moved /\ UNCHANGED <<artifacts>>
  BY OpeningTop, RefineTop, AnalyzeTop, WalkTop
<1>2. /\ stack # << >> /\ stack' # << >> /\ UNCHANGED setting
      /\ Top' = stack'[Len(stack)] /\ Top = stack[Len(stack)] /\ Len(stack) \in DOMAIN stack
      /\ Top.content \in Contents /\ Top.next \in 1..(Len(files[Top.content].members) + 1)
  BY <1>1, MovedFrames, TopFacts
<1>3. Top'.content = Top.content
  BY <1>1, <1>2, MovedFrames
<1>4. Top'.next \in 1..(Len(files[Top.content].members) + 1)
  <2>1. PICK f \in FrameType : Move(f) /\ f.next \in 1..(Len(files[f.content].members) + 1)
    BY <1>1 DEF Moved
  <2>2. Top' = f
    BY <2>1, TopMoves DEF Move
  <2> QED
    BY <1>3, <2>1, <2>2
<1> DEFINE members == Len(files[Top.content].members)
<1>5. members \in Nat
  BY <1>2, Files
<1>6. Len(files[Top.content].members)' = members
  BY <1>2, <1>3 DEF setting
<1>7. /\ Top.next \in 1..(members + 1) /\ Top'.next \in 1..(members + 1)
  BY <1>2, <1>4
<1>8. \/ Top.at = "open" /\ Top'.at \in {"refine", "analyze"}
      \/ Top.at = "refine" /\ Top'.at = "analyze" /\ Top'.next = Top.next
      \/ Top.at = "analyze" /\ Top'.at = "walk" /\ Top'.next = Top.next
      \/ Top.at = "walk" /\ Top'.at = "walk" /\ Top'.next = Top.next + 1
  BY OpeningTop, RefineTop, AnalyzeTop, WalkTop
<1>9. /\ StepsLeft(Top) = StepsFrom(Top.at, Top.next, members)
      /\ StepsLeft(Top)' = StepsFrom(Top'.at, Top'.next, members)
  BY <1>6 DEF StepsLeft
<1> HIDE DEF members
<1>10. StepsLeft(Top)' < StepsLeft(Top)
  BY <1>5, <1>7, <1>8, <1>9, StepsFromPlaces
<1> QED
  BY <1>1, <1>10

\* The total over the calls below the innermost, which no step touches.
LEMMA CallsBelow ==
  ASSUME TypeOK, stack # << >>, UNCHANGED files,
         \A j \in 1..(Len(stack) - 1) : j \in DOMAIN stack' /\ stack'[j] = stack[j]
  PROVE  /\ Len(stack) \in Nat \ {0}
         /\ SumFunctionOnSet(Calls', 1..(Len(stack) - 1))
              = SumFunctionOnSet(Calls, 1..(Len(stack) - 1))
         /\ SumFunctionOnSet(Calls, 1..(Len(stack) - 1)) \in Nat
         /\ SumFunctionOnSet(Calls, 1..Len(stack))
              = SumFunctionOnSet(Calls, 1..(Len(stack) - 1)) + StepsLeft(Top)
         /\ StepsLeft(Top) \in Nat \ {0}
<1>1. /\ Len(stack) \in Nat \ {0} /\ DOMAIN stack = 1..Len(stack)
      /\ Top = stack[Len(stack)]
  BY TopFacts
<1>2. \A j \in 1..Len(stack) : Calls[j] \in Nat \ {0}
  BY WorkLeftType DEF LeftTyped
<1> DEFINE S == 1..(Len(stack) - 1)
<1>3. IsFiniteSet(S) /\ Len(stack) - 1 \in Nat /\ \A j \in S : Calls[j] \in Nat
  <2>1. IsFiniteSet(S)
    BY <1>1, FS_Interval
  <2>2. Len(stack) - 1 \in Nat /\ S \subseteq 1..Len(stack)
    BY <1>1
  <2> QED
    BY <1>2, <2>1, <2>2
<1>4. \A j \in S : Calls'[j] = Calls[j]
  <2> SUFFICES ASSUME NEW j \in S PROVE Calls'[j] = Calls[j]
    OBVIOUS
  <2>1. j \in DOMAIN stack /\ j \in DOMAIN stack' /\ stack'[j] = stack[j]
    BY <1>1
  <2>2. Calls'[j] = StepsLeft(stack[j])'
    BY <2>1 DEF Calls
  <2> QED
    BY <2>1, <2>2 DEF Calls, StepsLeft
<1>5. SumFunctionOnSet(Calls, 1..Len(stack)) = SumFunctionOnSet(Calls, S) + Calls[Len(stack)]
  BY <1>1, <1>2, SumUpTo
<1>6. SumFunctionOnSet(Calls, S) \in Nat
  BY <1>3, SumUpTo
<1>7. Calls[Len(stack)] = StepsLeft(Top) /\ Calls[Len(stack)] \in Nat \ {0}
  BY <1>1, <1>2 DEF Calls
<1> HIDE DEF S
<1>8. SumFunctionOnSet(Calls', S) = SumFunctionOnSet(Calls, S)
  BY <1>3, <1>4, SumSame
<1> QED
  BY <1>1, <1>5, <1>6, <1>7, <1>8 DEF S

\* What a step that moves the innermost call on leaves to do.
LEMMA MovingLeavesLess ==
  ASSUME TypeOK, TypeOK', Opening \/ RefineOle \/ RunAnalyzers \/ Walking
  PROVE  WorkLeft' < WorkLeft
<1>1. /\ Moved /\ UNCHANGED <<artifacts>>
      /\ StepsLeft(Top)' < StepsLeft(Top)
  BY MovedRunsDown
<1>2. /\ stack # << >> /\ Len(stack') = Len(stack) /\ DOMAIN stack' = DOMAIN stack
      /\ Top' = stack'[Len(stack)] /\ SameBelow /\ UNCHANGED <<setting>>
  BY <1>1, MovedFrames
<1>3. Len(stack) \in Nat \ {0} /\ DOMAIN stack = 1..Len(stack) /\ Len(stack) \in DOMAIN stack
  BY <1>2, TopFacts
<1>4. \A j \in 1..(Len(stack) - 1) : j \in DOMAIN stack' /\ stack'[j] = stack[j]
  BY <1>2, <1>3 DEF SameBelow
<1>5. UNCHANGED files
  BY <1>2 DEF setting
<1> DEFINE below == SumFunctionOnSet(Calls, 1..(Len(stack) - 1))
           others == SumFunctionOnSet(Work, Contents)
<1>6. /\ SumFunctionOnSet(Calls', 1..(Len(stack) - 1)) = below /\ below \in Nat
      /\ SumFunctionOnSet(Calls, 1..Len(stack)) = below + StepsLeft(Top)
      /\ StepsLeft(Top) \in Nat \ {0}
  BY <1>2, <1>4, <1>5, CallsBelow
<1>7. WorkLeft = others + SumFunctionOnSet(Calls, 1..Len(stack)) /\ others \in Nat
  BY WorkLeftType DEF LeftTyped
<1>8. /\ WorkLeft' = SumFunctionOnSet(Work', Contents) + SumFunctionOnSet(Calls', 1..Len(stack))
      /\ \A j \in 1..Len(stack) : Calls'[j] \in Nat
  BY <1>2, WorkLeftTypeAfter DEF LeftTyped
<1>9. Work' = Work
  BY <1>1, <1>5 DEF Work, Unmet
<1>10. /\ SumFunctionOnSet(Calls', 1..Len(stack)) = below + Calls'[Len(stack)]
       /\ Calls'[Len(stack)] \in Nat
  BY <1>3, <1>6, <1>8, SumUpTo
<1>11. Calls'[Len(stack)] = StepsLeft(Top)'
  BY <1>2, <1>3 DEF Calls
<1> HIDE DEF below, others
<1> QED
  BY <1>1, <1>6, <1>7, <1>8, <1>9, <1>10, <1>11 DEF others

\* What entering a member leaves to do: the step that enters is spent.
LEMMA DescendingLeavesLess ==
  ASSUME TypeOK, TypeOK', Descend
  PROVE  WorkLeft' < WorkLeft
<1> DEFINE c == Member.content
           below == SumFunctionOnSet(Calls, 1..(Len(stack) - 1))
           others == SumFunctionOnSet(Work, Contents)
           rest == SumFunctionOnSet(Work, Contents \ {c})
           members == Len(files[c].members)
           n == Len(stack)
<1>1. /\ stack # << >> /\ Top.at = "walk" /\ AtMember({"extracted"})
      /\ c \in Contents \ artifacts /\ Top.depth + 1 \in Nat
      /\ stack' # << >> /\ Len(stack') = n + 1
      /\ DOMAIN stack' = DOMAIN stack \cup {n + 1}
      /\ stack'[n + 1] = Frame(c, Top.depth + 1)
      /\ stack'[n] = Advance /\ SameBelow
      /\ artifacts' = artifacts \cup {c} /\ UNCHANGED setting
  BY DescentFacts
<1>2. n \in Nat \ {0} /\ DOMAIN stack = 1..n /\ n \in DOMAIN stack
  BY <1>1, TopFacts
<1>3. \A j \in 1..(n - 1) : j \in DOMAIN stack' /\ stack'[j] = stack[j]
  BY <1>1, <1>2 DEF SameBelow
<1>4. UNCHANGED files /\ members \in Nat
  BY <1>1, Files DEF setting
<1>5. /\ SumFunctionOnSet(Calls', 1..(n - 1)) = below /\ below \in Nat
      /\ SumFunctionOnSet(Calls, 1..n) = below + StepsLeft(Top)
      /\ StepsLeft(Top) \in Nat \ {0}
  BY <1>1, <1>3, <1>4, CallsBelow
<1>6. WorkLeft = others + SumFunctionOnSet(Calls, 1..n) /\ others \in Nat
      /\ \A d \in Contents : Work[d] \in Nat
  BY WorkLeftType DEF LeftTyped
<1>7. /\ WorkLeft' = SumFunctionOnSet(Work', Contents) + SumFunctionOnSet(Calls', 1..(n + 1))
      /\ \A j \in 1..(n + 1) : Calls'[j] \in Nat
      /\ \A d \in Contents : Work'[d] \in Nat
  BY <1>1, WorkLeftTypeAfter DEF LeftTyped
<1>8. others = members + 5 + rest /\ rest \in Nat
  <2>1. Work[c] = members + 5
    BY <1>1 DEF Work, Unmet
  <2>2. others = Work[c] + rest
    <3>1. \A x \in Contents : SumFunctionOnSet(Work, Contents)
                                = Work[x] + SumFunctionOnSet(Work, Contents \ {x})
      BY <1>6, ContentsAssumption, SumPart
    <3> QED
      BY <1>1, <3>1
  <2>3. rest \in Nat
    BY <1>6, ContentsAssumption, SumType
  <2> QED
    BY <1>4, <2>1, <2>2, <2>3
<1>9. SumFunctionOnSet(Work', Contents) = rest
  <2>1. Work'[c] = 0
    BY <1>1 DEF Work, Unmet
  <2>2. SumFunctionOnSet(Work', Contents) = Work'[c] + SumFunctionOnSet(Work', Contents \ {c})
    BY <1>1, <1>7, ContentsAssumption, SumPart
  <2> DEFINE S == Contents \ {c}
  <2>3. IsFiniteSet(S)
    BY ContentsAssumption, FS_Subset
  <2>4. \A d \in S : Work'[d] = Work[d]
    BY <1>1, <1>4 DEF Work, Unmet
  <2> HIDE DEF S
  <2>5. SumFunctionOnSet(Work', S) = SumFunctionOnSet(Work, S)
    BY <2>3, <2>4, SumSame
  <2> QED
    BY <1>8, <2>1, <2>2, <2>5 DEF S
<1>10. SumFunctionOnSet(Calls', 1..(n + 1)) = below + Calls'[n] + Calls'[n + 1]
  <2>1. SumFunctionOnSet(Calls', 1..(n + 1)) = SumFunctionOnSet(Calls', 1..((n + 1) - 1)) + Calls'[n + 1]
    BY <1>2, <1>7, SumUpTo
  <2>2. SumFunctionOnSet(Calls', 1..n) = below + Calls'[n]
    <3>1. \A j \in 1..n : Calls'[j] \in Nat
      BY <1>2, <1>7
    <3> QED
      BY <1>2, <1>5, <3>1, SumUpTo
  <2>3. (n + 1) - 1 = n
    BY <1>2
  <2> QED
    BY <2>1, <2>2, <2>3
<1>11. Calls'[n] = StepsLeft(Top) - 1
  <2>1. Calls'[n] = StepsFrom(Advance.at, Advance.next, Len(files[Advance.content].members))
    <3>1. n \in DOMAIN stack' /\ stack'[n] = Advance
      BY <1>1, <1>2
    <3>2. \A j \in DOMAIN stack' :
            Calls'[j] = StepsFrom(stack'[j].at, stack'[j].next, Len(files'[stack'[j].content].members))
      BY DEF Calls, StepsLeft
    <3> QED
      BY <1>4, <3>1, <3>2
  <2>2. /\ Advance.content = Top.content /\ Advance.at = "walk" /\ Advance.next = Top.next + 1
        /\ Top.content \in Contents /\ Top.next \in 1..(Len(files[Top.content].members) + 1)
    BY <1>1, MemberFacts, TopFacts
  <2>3. Len(files[Top.content].members) \in Nat
    BY <2>2, Files
  <2>4. Top.next + 1 \in 1..(Len(files[Top.content].members) + 1)
    BY <1>1, MemberFacts
  <2>5. StepsLeft(Top) = StepsFrom("walk", Top.next, Len(files[Top.content].members))
    BY <1>1 DEF StepsLeft
  <2>6. Calls'[n] = StepsFrom("walk", Top.next + 1, Len(files[Top.content].members))
    BY <2>1, <2>2
  <2> DEFINE m == Len(files[Top.content].members)
             i == Top.next
  <2>7. m \in Nat /\ i \in 1..(m + 1) /\ i + 1 \in 1..(m + 1)
    BY <2>2, <2>3, <2>4
  <2>8. StepsLeft(Top) = StepsFrom("walk", i, m) /\ Calls'[n] = StepsFrom("walk", i + 1, m)
    BY <2>5, <2>6
  <2> HIDE DEF n, m, i
  <2>9. StepsFrom("walk", i, m) = m + 2 - i /\ StepsFrom("walk", i + 1, m) = m + 2 - (i + 1)
    BY <2>7, StepsFromPlaces
  <2> QED
    BY <2>7, <2>8, <2>9
<1>12. Calls'[n + 1] = members + 4
  <2> DEFINE f == Frame(c, Top.depth + 1)
  <2>1. n + 1 \in DOMAIN stack' /\ stack'[n + 1] = f
    BY <1>1
  <2>2. \A j \in DOMAIN stack' :
          Calls'[j] = StepsFrom(stack'[j].at, stack'[j].next, Len(files'[stack'[j].content].members))
    BY DEF Calls, StepsLeft
  <2>3. f.content = c /\ f.at = "open"
    BY DEF Frame
  <2> HIDE DEF f, c
  <2>4. Calls'[n + 1] = StepsFrom("open", f.next, members)
    BY <1>4, <2>1, <2>2, <2>3
  <2> QED
    BY <2>4 DEF StepsFrom
<1> HIDE DEF c, below, others, rest, members, n
<1> QED
  BY <1>4, <1>5, <1>6, <1>7, <1>8, <1>9, <1>10, <1>11, <1>12

\* What returning from a call leaves to do.
LEMMA ReturningLeavesLess ==
  ASSUME TypeOK, TypeOK', Return
  PROVE  WorkLeft' < WorkLeft
<1> DEFINE below == SumFunctionOnSet(Calls, 1..(Len(stack) - 1))
<1>1. stack # << >> /\ stack' = Front(stack) /\ UNCHANGED <<setting, artifacts>>
  BY DEF Return, At
<1>2. /\ Len(stack') = Len(stack) - 1 /\ DOMAIN stack' = DOMAIN stack \ {Len(stack)}
      /\ \A j \in DOMAIN stack' : stack'[j] = stack[j]
      /\ Len(stack) \in Nat \ {0} /\ DOMAIN stack = 1..Len(stack)
  BY <1>1, Returns, TopFacts
<1>3. UNCHANGED files
  BY <1>1 DEF setting
<1>4. \A j \in 1..(Len(stack) - 1) : j \in DOMAIN stack' /\ stack'[j] = stack[j]
  BY <1>2
<1>5. /\ SumFunctionOnSet(Calls', 1..(Len(stack) - 1)) = below /\ below \in Nat
      /\ SumFunctionOnSet(Calls, 1..Len(stack)) = below + StepsLeft(Top)
      /\ StepsLeft(Top) \in Nat \ {0}
  BY <1>1, <1>3, <1>4, CallsBelow
<1>6. /\ WorkLeft = SumFunctionOnSet(Work, Contents) + SumFunctionOnSet(Calls, 1..Len(stack))
      /\ SumFunctionOnSet(Work, Contents) \in Nat
  BY WorkLeftType DEF LeftTyped
<1>7. WorkLeft' = SumFunctionOnSet(Work', Contents) + SumFunctionOnSet(Calls', 1..(Len(stack) - 1))
  BY <1>2, WorkLeftTypeAfter DEF LeftTyped
<1>8. Work' = Work
  BY <1>1, <1>3 DEF Work, Unmet
<1> HIDE DEF below
<1> QED
  BY <1>5, <1>6, <1>7, <1>8

\* No recursive analysis goes on for ever, whatever its workers answer and whatever the
\* contents are, archives that contain themselves included: each step of the pipeline
\* leaves less to do, and what there is to do at the start is a number.  Behind it is that
\* a content becomes an artifact before its members are walked, and is not entered again.
THEOREM AnalysesRunDown == Spec => AnalysisRunsDown
<1>1. ASSUME TypeOK, [Next]_vars PROVE [WorkLeft' < WorkLeft /\ WorkLeft' \in Nat]_vars
  <2>1. SUFFICES ASSUME Next, ~ UNCHANGED vars
                 PROVE  WorkLeft' < WorkLeft /\ WorkLeft' \in Nat
    BY <1>1
  <2>2. TypeOK'
    BY <1>1, TypeStep
  <2>3. Opening \/ RefineOle \/ RunAnalyzers \/ Walking \/ Descend \/ Return
    BY <2>1, Steps
  <2> QED
    BY <1>1, <2>2, <2>3, MovingLeavesLess, DescendingLeavesLess, ReturningLeavesLess,
       WorkLeftTypeAfter DEF LeftTyped
<1> QED
  BY <1>1, TypeCorrect, PTL DEF Spec, AnalysisRunsDown

=============================================================================
