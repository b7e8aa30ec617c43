-------------------------- MODULE MetadataSheetProofs --------------------------
(***************************************************************************)
(* MetadataSheet keeps its types, never writes a cell twice, sets a width  *)
(* that fits, and returns no sheet without error that is not complete, for *)
(* any requests, texts and width limit.                                    *)
(***************************************************************************)
EXTENDS MetadataElementsProofs, FiniteSetTheorems

\* A row is free until both its cells are placed; a cell A left alone is the last.
RowsInv ==
    /\ \A r \in DOMAIN columnA : r <= rowNumber
    /\ ~procErr => \A r \in DOMAIN columnA : r < rowNumber
    /\ \A r \in DOMAIN columnB : r < rowNumber

\* Each text in column B has been measured, and the width set is the one measured.
WidthInv ==
    /\ \A r \in DOMAIN columnB : columnB[r] <= columnBwidth
    /\ pc = "nil" => colWidth = cappedWidth

IInv == TypeOK /\ RowsInv /\ WidthInv

-----------------------------------------------------------------------------
\* The next element is one.
LEMMA NextElement ==
    ASSUME TypeOK, todo # <<>>
    PROVE  /\ Head(todo).label \in Label
           /\ Head(todo).text \in Nat
           /\ Tail(todo) \in Seq(Element)
<1>1. Head(todo) \in Element /\ Tail(todo) \in Seq(Element)
    BY DEF TypeOK
<1> QED
    BY <1>1 DEF Element, Text

\* The initial states satisfy the invariant.
LEMMA InitIInv == Init => IInv
<1> SUFFICES ASSUME Init PROVE IInv
    OBVIOUS
<1>1. DOMAIN Empty = {}
    BY DEF Empty
<1>2. TypeOK
    <2>1. todo \in Seq(Element)
        BY DEF Init
    <2>2. DOMAIN columnA = {} /\ DOMAIN columnB = {}
        BY <1>1 DEF Init
    <2>3. pc \in {"GetOutput", "GetVersionMetadataSelection"}
        BY DEF Init
    <2>4. req \in Requests /\ rowNumber = 1 /\ columnBwidth = 1 /\ colWidth = 0
        BY DEF Init, firstRow
    <2>5. procErr \in BOOLEAN
        BY DEF Init
    <2> QED
        BY <2>1, <2>2, <2>3, <2>4, <2>5 DEF TypeOK
<1>3. RowsInv /\ WidthInv
    BY <1>1 DEF Init, RowsInv, WidthInv
<1> QED
    BY <1>2, <1>3 DEF IInv

\* A call, or the end of the sheet, leaves the cells alone.
LEMMA CallStep ==
    ASSUME IInv, GetOutput \/ GetVersionMetadataSelection \/ AddDimensions \/ GetVersions
    PROVE  IInv' /\ UNCHANGED <<columnA, columnB>>
<1>1. /\ UNCHANGED <<req, rowNumber, columnA, columnB, columnBwidth, procErr, colWidth>>
      /\ pc' \in {"GetVersionMetadataSelection", "GetFilterDimensions", "GetVersions",
                  "SetColWidth", "error"}
    BY DEF GetOutput, GetVersionMetadataSelection, AddDimensions, GetVersions, Call, sheet
<1>2. todo' \in Seq(Element)
    <2>1. todo' \in {todo, <<>>, Details(req), Dimensions(req), History(req)}
        BY DEF GetOutput, GetVersionMetadataSelection, AddDimensions, GetVersions, Call
    <2>2. {Details(req), Dimensions(req), History(req)} \subseteq Seq(Element)
        BY DetailsTyped, DimensionsTyped, HistoryTyped DEF IInv, TypeOK
    <2>3. todo \in Seq(Element) /\ <<>> \in Seq(Element)
        BY DEF IInv, TypeOK
    <2> QED
        BY <2>1, <2>2, <2>3
<1>3. TypeOK'
    BY <1>1, <1>2 DEF IInv, TypeOK
<1>4. RowsInv' /\ WidthInv'
    BY <1>1 DEF IInv, RowsInv, WidthInv
<1> QED
    BY <1>1, <1>3, <1>4 DEF IInv

\* An element goes to a free row, or nowhere.
LEMMA ElementStep ==
    ASSUME IInv, PlaceElement
    PROVE  /\ IInv'
           /\ \A r \in DOMAIN columnA : r \in DOMAIN columnA' /\ columnA'[r] = columnA[r]
           /\ \A r \in DOMAIN columnB : r \in DOMAIN columnB' /\ columnB'[r] = columnB[r]
<1> DEFINE e == Head(todo)
<1>0. /\ TypeOK /\ RowsInv /\ WidthInv
      /\ pc # "nil" /\ UNCHANGED <<req, pc, colWidth>>
      /\ todo' \in Seq(Element) /\ e.label \in Label /\ e.text \in Nat
    BY NextElement DEF IInv, PlaceElement, running
<1> HIDE DEF e
<1>1. CASE UNCHANGED <<columnA, columnB, columnBwidth, procErr>>
           /\ rowNumber' \in {rowNumber, rowNumber + 1}
    <2>1. TypeOK'
        BY <1>0, <1>1 DEF TypeOK
    <2>2. RowsInv' /\ WidthInv'
        BY <1>0, <1>1 DEF TypeOK, RowsInv, WidthInv
    <2> QED
        BY <1>1, <2>1, <2>2 DEF IInv
<1>2. CASE /\ ~procErr
           /\ columnA' = Extend(columnA, e.label)
           /\ columnB' = Extend(columnB, e.text)
           /\ columnBwidth' = widest(e)
           /\ rowNumber' = rowNumber + 1
           /\ UNCHANGED procErr
    <2>1. /\ DOMAIN columnA' = DOMAIN columnA \cup {rowNumber}
          /\ DOMAIN columnB' = DOMAIN columnB \cup {rowNumber}
          /\ columnA'[rowNumber] = e.label /\ columnB'[rowNumber] = e.text
        BY <1>2 DEF Extend
    <2>2. rowNumber \notin DOMAIN columnA /\ rowNumber \notin DOMAIN columnB
        BY <1>0, <1>2 DEF RowsInv, TypeOK
    <2>3. /\ \A r \in DOMAIN columnA : r \in DOMAIN columnA' /\ columnA'[r] = columnA[r]
          /\ \A r \in DOMAIN columnB : r \in DOMAIN columnB' /\ columnB'[r] = columnB[r]
        BY <1>2, <2>2 DEF Extend
    <2>4. /\ columnBwidth' \in Nat \ {0}
          /\ columnBwidth' >= e.text /\ columnBwidth' >= columnBwidth
        BY <1>0, <1>2 DEF widest, TypeOK
    <2>5. TypeOK'
        BY <1>0, <1>2, <2>1, <2>3, <2>4 DEF TypeOK, Text
    <2>6. RowsInv'
        BY <1>0, <1>2, <2>1 DEF TypeOK, RowsInv
    <2>7. WidthInv'
        BY <1>0, <1>2, <2>1, <2>3, <2>4 DEF TypeOK, Text, WidthInv
    <2> QED
        BY <2>3, <2>5, <2>6, <2>7 DEF IInv
<1>3. CASE /\ ~procErr
           /\ columnA' = Extend(columnA, e.label)
           /\ procErr' = TRUE
           /\ UNCHANGED <<rowNumber, columnB, columnBwidth>>
    <2>1. DOMAIN columnA' = DOMAIN columnA \cup {rowNumber} /\ columnA'[rowNumber] = e.label
        BY <1>3 DEF Extend
    <2>2. rowNumber \notin DOMAIN columnA
        BY <1>0, <1>3 DEF RowsInv, TypeOK
    <2>3. \A r \in DOMAIN columnA : r \in DOMAIN columnA' /\ columnA'[r] = columnA[r]
        BY <1>3, <2>2 DEF Extend
    <2>4. TypeOK'
        BY <1>0, <1>3, <2>1, <2>3 DEF TypeOK
    <2>5. RowsInv' /\ WidthInv'
        BY <1>0, <1>3, <2>1 DEF TypeOK, RowsInv, WidthInv
    <2> QED
        BY <1>3, <2>3, <2>4, <2>5 DEF IInv
<1>4. CASE columnA' = columnA /\ procErr' = TRUE /\ UNCHANGED <<rowNumber, columnB, columnBwidth>>
    <2>1. TypeOK'
        BY <1>0, <1>4 DEF TypeOK
    <2>2. RowsInv' /\ WidthInv'
        BY <1>0, <1>4 DEF RowsInv, WidthInv
    <2> QED
        BY <1>4, <2>1, <2>2 DEF IInv
<1> QED
    BY <1>1, <1>2, <1>3, <1>4 DEF PlaceElement, processMetaElement, placed, sheet, e

\* So does the return.
LEMMA ReturnStep ==
    ASSUME IInv, DateFails \/ SetColWidth \/ Returned \/ UNCHANGED vars
    PROVE  IInv' /\ UNCHANGED <<columnA, columnB>>
<1>1. /\ UNCHANGED <<req, todo, rowNumber, columnA, columnB, columnBwidth, procErr>>
      /\ \/ UNCHANGED <<pc, colWidth>>
         \/ pc' = "error" /\ UNCHANGED colWidth
         \/ pc' = "nil" /\ colWidth' = cappedWidth
    BY DEF DateFails, SetColWidth, Returned, vars, sheet
<1>2. cappedWidth \in Nat /\ cappedWidth' = cappedWidth
    BY <1>1, TextAssumption DEF IInv, TypeOK, cappedWidth
<1>3. TypeOK'
    BY <1>1, <1>2 DEF IInv, TypeOK
<1>4. RowsInv' /\ WidthInv'
    BY <1>1, <1>2 DEF IInv, RowsInv, WidthInv
<1> QED
    BY <1>1, <1>3, <1>4 DEF IInv

LEMMA Invariance == Spec => []IInv
<1>1. IInv /\ [Next]_vars => IInv'
    BY CallStep, ElementStep, ReturnStep DEF Next, AddMetaDataToExcelStructure
<1> QED
    BY InitIInv, <1>1, PTL DEF Spec

-----------------------------------------------------------------------------
\* Every variable of MetadataSheet keeps its type.
THEOREM TypeCorrect == Spec => []TypeOK
<1>1. IInv => TypeOK
    BY DEF IInv
<1> QED
    BY Invariance, <1>1, PTL

\* No cell is written twice, whatever cells fail.
THEOREM NoCellRewrittenHolds == Spec => NoCellRewritten
<1>1. IInv /\ [Next]_vars =>
          /\ \A r \in DOMAIN columnA : r \in DOMAIN columnA' /\ columnA'[r] = columnA[r]
          /\ \A r \in DOMAIN columnB : r \in DOMAIN columnB' /\ columnB'[r] = columnB[r]
    BY CallStep, ElementStep, ReturnStep DEF Next, AddMetaDataToExcelStructure
<1>2. IInv /\ [Next]_vars =>
          [/\ \A r \in DOMAIN columnA : r \in DOMAIN columnA' /\ columnA'[r] = columnA[r]
           /\ \A r \in DOMAIN columnB : r \in DOMAIN columnB' /\ columnB'[r] = columnB[r]]_vars
    BY <1>1
<1> QED
    BY Invariance, <1>2, PTL DEF Spec, NoCellRewritten

\* Column B of a finished sheet is as wide as its texts, or as it may be.
THEOREM WidthFitsHolds == Spec => []WidthFits
<1>1. ASSUME IInv, pc = "nil"
      PROVE  /\ colWidth \in 1..maxExcelizeColumnWidth
             /\ \A r \in DOMAIN columnB :
                   columnB[r] <= colWidth \/ colWidth = maxExcelizeColumnWidth
    <2>1. colWidth = cappedWidth /\ columnBwidth \in Nat \ {0}
        BY <1>1 DEF IInv, TypeOK, WidthInv
    <2>2. \A r \in DOMAIN columnB : columnB[r] \in Nat /\ columnB[r] <= columnBwidth
        BY <1>1 DEF IInv, TypeOK, Text, WidthInv
    <2> QED
        BY <2>1, <2>2, TextAssumption DEF cappedWidth
<1>2. IInv => WidthFits
    BY <1>1 DEF WidthFits
<1> QED
    BY Invariance, <1>2, PTL

-----------------------------------------------------------------------------
\* The rows still to come after the call that p names.
Later(p, r) ==
    CASE p \in {"GetOutput", "GetVersionMetadataSelection"} -> elements(r)
      [] p = "GetFilterDimensions" -> Dimensions(r) \o unless(r.isCustom, History(r))
      [] p = "GetVersions" -> History(r)
      [] OTHER -> <<>>

\* The sheet holds the elements s, and the next one goes below them.
Filled(s) == rowNumber = rowOf(s, Len(s) + 1) /\ Holds(s)

\* What is done, what is in hand and what is to come make up the whole sheet; what
\* is done is in the sheet unless a cell has failed, which is not forgotten.
FilledInv ==
    /\ pc # "error" => \E done \in Seq(Element) :
          /\ elements(req) = done \o (todo \o Later(pc, req))
          /\ ~procErr => Filled(done)
    /\ pc = "nil" => procErr = FALSE /\ todo = <<>>

\* The rows of a request are elements.
LEMMA ElementsTyped ==
    ASSUME NEW r \in Requests
    PROVE  /\ Details(r) \in Seq(Element)
           /\ Dimensions(r) \in Seq(Element)
           /\ unless(r.isCustom, History(r)) \in Seq(Element)
           /\ History(r) \in Seq(Element)
           /\ elements(r) = Details(r) \o (Dimensions(r) \o unless(r.isCustom, History(r)))
           /\ elements(r) \in Seq(Element)
<1>1. /\ Details(r) \in Seq(Element)
      /\ Dimensions(r) \in Seq(Element)
      /\ History(r) \in Seq(Element)
    BY DetailsTyped, DimensionsTyped, HistoryTyped
<1>2. unless(r.isCustom, History(r)) \in Seq(Element)
    BY <1>1 DEF unless
<1>3. elements(r) = Details(r) \o (Dimensions(r) \o unless(r.isCustom, History(r)))
    BY <1>1, <1>2, ConcatAssociative DEF elements
<1>4. elements(r) \in Seq(Element)
    BY <1>1, <1>2, <1>3, ConcatProperties
<1> QED
    BY <1>1, <1>2, <1>3, <1>4

\* The rows before an element are finitely many.
LEMMA RowsBefore ==
    ASSUME NEW s, NEW i \in Nat
    PROVE  /\ IsFiniteSet({j \in 1..(i - 1) : shown(s[j]) \/ s[j].kind = "gap"})
           /\ rowOf(s, i) \in Nat \ {0}
<1> DEFINE T == {j \in 1..(i - 1) : shown(s[j]) \/ s[j].kind = "gap"}
<1>1. IsFiniteSet(1..(i - 1))
    BY FS_Interval
<1>2. IsFiniteSet(T)
    BY <1>1, FS_Subset, Zenon
<1>3. Cardinality(T) \in Nat
    BY <1>2, FS_CardinalityType
<1>4. rowOf(s, i) = 1 + Cardinality(T)
    BY DEF rowOf
<1> QED
    BY <1>2, <1>3, <1>4

\* One element more does not move the others, and takes a row if it has one.
LEMMA RowOfAppend ==
    ASSUME NEW s \in Seq(Element), NEW e \in Element
    PROVE  /\ \A i \in 1..(Len(s) + 1) : rowOf(Append(s, e), i) = rowOf(s, i)
           /\ rowOf(Append(s, e), Len(s) + 2) =
                 IF shown(e) \/ e.kind = "gap" THEN rowOf(s, Len(s) + 1) + 1
                 ELSE rowOf(s, Len(s) + 1)
<1> DEFINE t == Append(s, e)
           n == Len(s) + 1
           T(u, i) == {j \in 1..(i - 1) : shown(u[j]) \/ u[j].kind = "gap"}
<1>1. Len(s) \in Nat /\ n \in Nat /\ t[n] = e /\ \A j \in 1..Len(s) : t[j] = s[j]
    OBVIOUS
<1>2. \A u, i : rowOf(u, i) = 1 + Cardinality(T(u, i))
    BY DEF rowOf
<1> HIDE DEF t
<1>3. ASSUME NEW i \in 1..n
      PROVE  rowOf(t, i) = rowOf(s, i)
    <2>1. \A j \in 1..(i - 1) : t[j] = s[j]
        BY <1>1
    <2>2. T(t, i) = T(s, i)
        BY <2>1
    <2> QED
        BY <1>2, <2>2
<1>4. n \notin T(s, n) /\ IsFiniteSet(T(s, n)) /\ Cardinality(T(s, n)) \in Nat
    <2>1. IsFiniteSet(T(s, n))
        BY <1>1, RowsBefore, Zenon
    <2>2. Cardinality(T(s, n)) \in Nat
        BY <2>1, FS_CardinalityType, Zenon
    <2>3. n \notin T(s, n)
        BY <1>1
    <2> QED
        BY <2>1, <2>2, <2>3
<1> DEFINE last == Len(s) + 2
<1>5. last \in Nat /\ last - 1 = n /\ 1..n = 1..(n - 1) \cup {n}
    BY <1>1
<1>6. rowOf(t, last) = 1 + Cardinality(T(t, last)) /\ rowOf(s, n) = 1 + Cardinality(T(s, n))
    BY <1>2
<1> HIDE DEF last, n
<1>7. \A j \in 1..(n - 1) : t[j] = s[j]
    BY <1>1 DEF n
<1>8. CASE shown(e) \/ e.kind = "gap"
    <2>1. T(t, last) = T(s, n) \cup {n}
        BY <1>1, <1>5, <1>7, <1>8
    <2>2. Cardinality(T(s, n) \cup {n}) = Cardinality(T(s, n)) + 1
        BY <1>4, FS_AddElement
    <2>3. rowOf(t, last) = 1 + (Cardinality(T(s, n)) + 1)
        BY <1>6, <2>1, <2>2, Zenon
    <2>4. rowOf(t, last) = rowOf(s, n) + 1
        <3> HIDE DEF T
        <3> QED
            BY <1>4, <1>6, <2>3
    <2> QED
        BY <1>3, <1>8, <2>4 DEF t, n, last
<1>9. CASE ~(shown(e) \/ e.kind = "gap")
    <2>1. T(t, last) = T(s, n)
        BY <1>1, <1>5, <1>7, <1>9
    <2>2. rowOf(t, last) = rowOf(s, n)
        BY <1>6, <2>1
    <2> QED
        BY <1>3, <1>9, <2>2 DEF t, n, last
<1> QED
    BY <1>8, <1>9

\* The next element moves from what is in hand to what is done.
LEMMA MoveElement ==
    ASSUME NEW s \in Seq(Element), NEW t \in Seq(Element), t # <<>>,
           NEW rest \in Seq(Element)
    PROVE  /\ Head(t) \in Element /\ Tail(t) \in Seq(Element)
           /\ Append(s, Head(t)) \in Seq(Element)
           /\ s \o (t \o rest) = Append(s, Head(t)) \o (Tail(t) \o rest)
<1>1. Head(t) \in Element /\ Tail(t) \in Seq(Element)
    OBVIOUS
<1>2. t = <<Head(t)>> \o Tail(t)
    BY <1>1
<1>3. t \o rest = <<Head(t)>> \o (Tail(t) \o rest)
    BY <1>1, <1>2, ConcatAssociative
<1>4. s \o (<<Head(t)>> \o (Tail(t) \o rest)) = (s \o <<Head(t)>>) \o (Tail(t) \o rest)
    BY <1>1, ConcatAssociative, ConcatProperties
<1>5. Append(s, Head(t)) = s \o <<Head(t)>>
    BY <1>1, AppendIsConcat
<1> QED
    BY <1>1, <1>3, <1>4, <1>5

\* Nothing is done and nothing in hand at first.
LEMMA InitFilled == Init => FilledInv
<1> SUFFICES ASSUME Init PROVE FilledInv
    OBVIOUS
<1>1. req \in Requests /\ todo = <<>> /\ pc \in {"GetOutput", "GetVersionMetadataSelection"}
    BY DEF Init
<1>2. elements(req) \in Seq(Element) /\ Later(pc, req) = elements(req)
    BY <1>1, ElementsTyped DEF Later
<1>3. elements(req) = <<>> \o (todo \o Later(pc, req))
    BY <1>1, <1>2, ConcatEmptySeq
<1>4. Filled(<<>>)
    <2>1. DOMAIN columnA = {} /\ DOMAIN columnB = {} /\ rowNumber = 1
        BY DEF Init, Empty, firstRow
    <2>2. rowOf(<<>>, 1) = 1
        <3>1. {j \in 1..(1 - 1) : shown(<<>>[j]) \/ <<>>[j].kind = "gap"} = {}
            OBVIOUS
        <3> QED
            BY <3>1, FS_EmptySet DEF rowOf
    <2>3. Len(<<>>) + 1 = 1 /\ DOMAIN <<>> = {}
        OBVIOUS
    <2> QED
        BY <2>1, <2>2, <2>3 DEF Filled, Holds
<1>5. <<>> \in Seq(Element) /\ pc # "nil"
    BY <1>1
<1> QED
    BY <1>3, <1>4, <1>5 DEF FilledInv

\* A call takes what comes first of what is to come in hand.
LEMMA CallFilled ==
    ASSUME IInv, FilledInv,
           GetOutput \/ GetVersionMetadataSelection \/ AddDimensions \/ GetVersions
    PROVE  FilledInv'
<1>1. /\ UNCHANGED <<req, rowNumber, columnA, columnB, procErr>>
      /\ todo = <<>> /\ pc' # "nil" /\ pc # "error"
    BY DEF GetOutput, GetVersionMetadataSelection, AddDimensions, GetVersions, Call, sheet
<1>2. req \in Requests
    BY DEF IInv, TypeOK
<1>3. PICK done \in Seq(Element) :
          elements(req) = done \o (todo \o Later(pc, req)) /\ (~procErr => Filled(done))
    BY <1>1 DEF FilledInv
<1>4. (~procErr => Filled(done))'
    BY <1>1, <1>3 DEF Filled, Holds
<1>5. CASE pc' = "error"
    BY <1>1, <1>5 DEF FilledInv
<1>6. CASE pc' # "error"
    <2>1. Later(pc, req) \in Seq(Element)
        BY <1>2, ElementsTyped, ConcatProperties DEF Later
    <2>2. Later(pc, req) = todo' \o Later(pc', req)
        <3>1. CASE GetOutput
            <4>1. todo' = <<>> /\ Later(pc', req) = Later(pc, req)
                BY <1>6, <3>1 DEF GetOutput, Call, Later
            <4> QED
                BY <2>1, <4>1, ConcatEmptySeq
        <3>2. CASE GetVersionMetadataSelection
            BY <1>2, <1>6, <3>2, ElementsTyped DEF GetVersionMetadataSelection, Call, Later
        <3>3. CASE AddDimensions
            <4>1. CASE req.isCustom
                BY <1>2, <1>6, <3>3, <4>1, ElementsTyped DEF AddDimensions, Call, Later, unless
            <4>2. CASE ~req.isCustom
                BY <1>2, <1>6, <3>3, <4>2, ElementsTyped DEF AddDimensions, Call, Later, unless
            <4> QED
                BY <4>1, <4>2
        <3>4. CASE GetVersions
            <4>1. todo' = Later(pc, req) /\ Later(pc', req) = <<>>
                BY <1>6, <3>4 DEF GetVersions, Call, Later
            <4> QED
                BY <2>1, <4>1, ConcatEmptySeq
        <3> QED
            BY <3>1, <3>2, <3>3, <3>4
    <2>3. elements(req') = done \o (todo' \o Later(pc', req'))
        BY <1>1, <1>3, <2>1, <2>2, ConcatEmptySeq
    <2> QED
        BY <1>1, <1>4, <2>3 DEF FilledInv
<1> QED
    BY <1>5, <1>6

\* An element that is placed, skipped or a gap is in the sheet as it is to be.
LEMMA CellsFilled ==
    ASSUME IInv, PlaceElement, ~procErr',
           NEW CONSTANT done \in Seq(Element), Filled(done),
           NEW CONSTANT e \in Element, e = Head(todo)
    PROVE  Filled(Append(done, e))'
<1> DEFINE n == Len(done) + 1
           wanted == {i \in DOMAIN done : shown(done[i])}
           after == Append(done, e)
           wantedAfter == {i \in DOMAIN after : shown(after[i])}
<1>1. ~procErr
    BY DEF PlaceElement, processMetaElement, placed, sheet
<1>2. /\ n \in Nat \ {0} /\ n = Len(after) /\ after[n] = e
      /\ DOMAIN done = 1..(n - 1) /\ DOMAIN after = 1..n
      /\ \A i \in DOMAIN done : after[i] = done[i]
    OBVIOUS
<1>3. /\ rowNumber = rowOf(done, n)
      /\ DOMAIN columnA = {rowOf(done, i) : i \in wanted}
      /\ DOMAIN columnB = DOMAIN columnA
      /\ \A i \in wanted : /\ columnA[rowOf(done, i)] = done[i].label
                           /\ columnB[rowOf(done, i)] = done[i].text
    BY DEF Filled, Holds
<1>4. /\ \A i \in 1..n : rowOf(after, i) = rowOf(done, i)
      /\ rowOf(after, n + 1) = IF shown(e) \/ e.kind = "gap" THEN rowOf(done, n) + 1
                               ELSE rowOf(done, n)
    BY RowOfAppend
<1> HIDE DEF after, n
<1>5. CASE shown(e)
    <2>1. /\ columnA' = Extend(columnA, e.label)
          /\ columnB' = Extend(columnB, e.text)
          /\ rowNumber' = rowNumber + 1
        BY <1>1, <1>5 DEF PlaceElement, processMetaElement, placed, shown, sheet
    <2>2. wantedAfter = wanted \cup {n}
        BY <1>2, <1>5
    <2>3. rowNumber \notin DOMAIN columnA /\ rowNumber \notin DOMAIN columnB
        BY <1>1 DEF IInv, RowsInv, TypeOK
    <2>4. /\ DOMAIN columnA' = DOMAIN columnA \cup {rowNumber}
          /\ DOMAIN columnB' = DOMAIN columnB \cup {rowNumber}
          /\ columnA'[rowNumber] = e.label /\ columnB'[rowNumber] = e.text
          /\ \A x \in DOMAIN columnA : columnA'[x] = columnA[x]
          /\ \A x \in DOMAIN columnB : columnB'[x] = columnB[x]
        BY <2>1, <2>3 DEF Extend
    <2>5. \A i \in wanted : i \in 1..n /\ rowOf(after, i) = rowOf(done, i)
        BY <1>2, <1>4
    <2>6. rowOf(after, n) = rowNumber
        BY <1>2, <1>3, <1>4
    <2>7. DOMAIN columnA' = {rowOf(after, i) : i \in wantedAfter}
        BY <1>3, <2>2, <2>4, <2>5, <2>6
    <2>8. \A i \in wantedAfter : /\ columnA'[rowOf(after, i)] = after[i].label
                                /\ columnB'[rowOf(after, i)] = after[i].text
        BY <1>2, <1>3, <2>2, <2>4, <2>5, <2>6
    <2>9. rowNumber' = rowOf(after, n + 1)
        BY <1>3, <1>4, <1>5, <2>1
    <2> QED
        BY <1>2, <1>3, <2>4, <2>7, <2>8, <2>9 DEF Filled, Holds, after
<1>6. CASE ~shown(e)
    <2>1. UNCHANGED <<columnA, columnB>>
          /\ rowNumber' = IF e.kind = "gap" THEN rowNumber + 1 ELSE rowNumber
        BY <1>1, <1>6
        DEF PlaceElement, processMetaElement, placed, shown, sheet, Element, Text
    <2>2. wantedAfter = wanted
        BY <1>2, <1>6
    <2>3. \A i \in wanted : i \in 1..n /\ rowOf(after, i) = rowOf(done, i)
        BY <1>2, <1>4
    <2>4. DOMAIN columnA' = {rowOf(after, i) : i \in wantedAfter}
        BY <1>3, <2>1, <2>2, <2>3
    <2>5. \A i \in wantedAfter : /\ columnA'[rowOf(after, i)] = after[i].label
                                /\ columnB'[rowOf(after, i)] = after[i].text
        BY <1>2, <1>3, <2>1, <2>2, <2>3
    <2>6. rowNumber' = rowOf(after, n + 1)
        BY <1>3, <1>4, <1>6, <2>1
    <2> QED
        BY <1>2, <1>3, <2>1, <2>4, <2>5, <2>6 DEF Filled, Holds, after
<1> QED
    BY <1>5, <1>6

\* So it is done.
LEMMA ElementFilled ==
    ASSUME IInv, FilledInv, PlaceElement
    PROVE  FilledInv'
<1>1. /\ todo # <<>> /\ todo' = Tail(todo) /\ UNCHANGED <<req, pc>>
      /\ pc # "nil" /\ pc # "error" /\ todo \in Seq(Element) /\ req \in Requests
    BY DEF PlaceElement, running, IInv, TypeOK
<1>2. PICK done \in Seq(Element) :
          elements(req) = done \o (todo \o Later(pc, req)) /\ (~procErr => Filled(done))
    BY <1>1 DEF FilledInv
<1>3. Later(pc, req) \in Seq(Element)
    BY <1>1, ElementsTyped, ConcatProperties DEF Later
<1>4. PICK e \in Element : e = Head(todo)
    BY <1>1
<1>5. /\ Append(done, e) \in Seq(Element)
      /\ elements(req') = Append(done, e) \o (todo' \o Later(pc', req'))
    BY <1>1, <1>2, <1>3, <1>4, MoveElement
<1>6. (~procErr => Filled(Append(done, e)))'
    BY <1>2, <1>4, CellsFilled DEF PlaceElement, processMetaElement, placed, sheet
<1> QED
    BY <1>1, <1>5, <1>6 DEF FilledInv

\* The end changes neither, and has neither a row to come nor a failed cell.
LEMMA ReturnFilled ==
    ASSUME IInv, FilledInv, DateFails \/ SetColWidth \/ Returned \/ UNCHANGED vars
    PROVE  FilledInv'
<1>1. UNCHANGED <<req, todo, rowNumber, columnA, columnB, procErr>>
    BY DEF DateFails, SetColWidth, Returned, vars, sheet
<1>2. CASE pc' = "error"
    BY <1>2 DEF FilledInv
<1>3. CASE pc' = "nil" /\ SetColWidth
    <2>1. pc = "SetColWidth" /\ todo = <<>> /\ procErr = FALSE
        BY <1>3 DEF SetColWidth, noError, IInv, TypeOK
    <2>2. Later(pc, req) = <<>> /\ Later(pc', req') = <<>>
        BY <1>3, <2>1 DEF Later
    <2> QED
        BY <1>1, <1>3, <2>1, <2>2 DEF FilledInv, Filled, Holds
<1>4. CASE UNCHANGED pc
    BY <1>1, <1>4 DEF FilledInv, Filled, Holds
<1> QED
    BY <1>2, <1>3, <1>4 DEF DateFails, SetColWidth, Returned, vars

\* A sheet without error holds every element of its request, each in its row and
\* nothing besides.
THEOREM NilIsCompleteHolds == Spec => []NilIsComplete
<1>1. IInv /\ FilledInv /\ [Next]_vars => FilledInv'
    BY CallFilled, ElementFilled, ReturnFilled DEF Next, AddMetaDataToExcelStructure
<1>2. IInv /\ FilledInv => NilIsComplete
    <2> SUFFICES ASSUME IInv, FilledInv, pc = "nil" PROVE Holds(elements(req))
        BY DEF NilIsComplete
    <2>1. PICK done \in Seq(Element) : elements(req) = done \o (todo \o Later(pc, req)) /\ Filled(done)
        BY DEF FilledInv
    <2>2. todo \o Later(pc, req) = <<>>
        BY DEF FilledInv, Later
    <2>3. elements(req) = done
        BY <2>1, <2>2, ConcatEmptySeq
    <2> QED
        BY <2>1, <2>3 DEF Filled
<1> QED
    BY Invariance, InitFilled, <1>1, <1>2, PTL DEF Spec

=============================================================================
