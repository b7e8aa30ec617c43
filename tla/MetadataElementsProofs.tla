------------------------ MODULE MetadataElementsProofs ------------------------
(***************************************************************************)
(* The rows that MetadataSheet makes of a request are elements, whatever   *)
(* the lists of the answers hold.  Its lists are flattened and its titles  *)
(* summed by recursion: what recursion yields is shown here by induction   *)
(* on sets of numbers, from the well-foundedness of <.                     *)
(***************************************************************************)
EXTENDS MetadataSheet, WellFoundedInduction, SequenceTheorems, TLAPS

\* Induction, for a set of natural numbers.
LEMMA SetInduction ==
    ASSUME NEW S, 0 \in S, \A n \in Nat : n \in S => n + 1 \in S
    PROVE  Nat \subseteq S
<1> DEFINE less == OpToRel(<, Nat)
           T == Nat \ S
<1>1. SUFFICES ASSUME T # {} PROVE FALSE
    OBVIOUS
<1>2. PICK x \in T : \A y \in T : <<y, x>> \notin less
    <2> HIDE DEF less, T
    <2>1. IsWellFoundedOn(less, Nat)
        BY NatLessThanWellFounded DEF less
    <2> QED
        BY <1>1, <2>1, WFMin DEF T
<1>3. x \in Nat /\ x # 0 /\ x - 1 \in Nat /\ (x - 1) + 1 = x
    OBVIOUS
<1>4. x - 1 \notin S
    BY <1>3
<1>5. x - 1 \in T /\ <<x - 1, x>> \in less
    BY <1>3, <1>4 DEF OpToRel
<1> QED
    BY <1>2, <1>5

\* f goes from first by the steps.
Recurs(f, n, first, step) ==
    f[0] = first /\ \A i \in 1..n : f[i] = step[i][f[i - 1]]

\* What a first value and steps define, one after the other, is a function.
LEMMA Recursion ==
    ASSUME NEW T, NEW n \in Nat, NEW first \in T, NEW step \in [1..n -> [T -> T]]
    PROVE  \E f \in [0..n -> T] : Recurs(f, n, first, step)
<1> DEFINE Defines(f, k) ==
              f[0] = first /\ \A i \in 1..k : f[i] = step[i][f[i - 1]]
           S == {k \in Nat : k <= n => \E f \in [0..k -> T] : Defines(f, k)}
<1>1. 0 \in S
    <2>1. [i \in 0..0 |-> first] \in [0..0 -> T] /\ Defines([i \in 0..0 |-> first], 0)
        OBVIOUS
    <2> QED
        BY <2>1
<1>2. ASSUME NEW k \in Nat, k \in S PROVE k + 1 \in S
    <2>1. SUFFICES ASSUME k + 1 <= n
                   PROVE  \E g \in [0..(k + 1) -> T] : Defines(g, k + 1)
        OBVIOUS
    <2>2. PICK f \in [0..k -> T] : Defines(f, k)
        BY <1>2, <2>1
    <2> DEFINE g == [i \in 0..(k + 1) |-> IF i = k + 1 THEN step[k + 1][f[k]] ELSE f[i]]
    <2>3. f[k] \in T /\ step[k + 1][f[k]] \in T
        BY <2>1
    <2>4. g \in [0..(k + 1) -> T]
        BY <2>3
    <2>5. \A i \in 0..k : g[i] = f[i]
        OBVIOUS
    <2>6. g[k + 1] = step[k + 1][g[k]]
        BY <2>5
    <2>7. ASSUME NEW i \in 1..(k + 1) PROVE g[i] = step[i][g[i - 1]]
        <3>1. CASE i = k + 1
            BY <2>6, <3>1
        <3>2. CASE i # k + 1
            <4>1. i \in 1..k /\ i - 1 \in 0..k /\ i \in 0..k
                BY <3>2
            <4> QED
                BY <2>2, <2>5, <4>1
        <3> QED
            BY <3>1, <3>2
    <2>8. g[0] = first
        BY <2>2, <2>5
    <2> QED
        BY <2>4, <2>7, <2>8
<1>3. n \in S
    <2> HIDE DEF S
    <2> QED
        BY <1>1, <1>2, SetInduction
<1> QED
    BY <1>3 DEF Recurs

\* The elements of a list of lists, in a row, are those of the lists.
LEMMA FlattenTyped ==
    ASSUME NEW E, NEW s \in Seq(Seq(E))
    PROVE  FlattenSeq(s) \in Seq(E)
<1> DEFINE n == Len(s)
           Rest(f) == [i \in 1..n |-> IF i = 1 THEN s[i] ELSE f[i - 1] \o s[i]]
           flatten == CHOOSE f : f = Rest(f)
<1>1. n \in Nat /\ \A i \in 1..n : s[i] \in Seq(E)
    OBVIOUS
<1>2. \E f : f = Rest(f)
    <2> DEFINE step == [i \in 1..n |-> [t \in Seq(E) |-> t \o s[i]]]
    <2>1. step \in [1..n -> [Seq(E) -> Seq(E)]]
        BY <1>1, ConcatProperties
    <2>2. PICK g \in [0..n -> Seq(E)] :
              g[0] = <<>> /\ \A i \in 1..n : g[i] = step[i][g[i - 1]]
        <3>1. n \in Nat /\ <<>> \in Seq(E)
            BY <1>1, EmptySeq
        <3> HIDE DEF step, n
        <3>2. \E g \in [0..n -> Seq(E)] : Recurs(g, n, <<>>, step)
            BY <2>1, <3>1, Recursion
        <3> QED
            BY <3>2 DEF Recurs
    <2>3. ASSUME NEW i \in 1..n
          PROVE  g[i] = IF i = 1 THEN s[i] ELSE g[i - 1] \o s[i]
        <3>1. i - 1 \in 0..n /\ s[i] \in Seq(E)
            BY <1>1
        <3>2. g[i - 1] \in Seq(E)
            BY <2>2, <3>1
        <3>3. g[i] = g[i - 1] \o s[i]
            BY <2>2, <3>1, <3>2
        <3>4. i = 1 => g[i - 1] = <<>>
            BY <2>2
        <3> HIDE DEF n
        <3> QED
            BY <3>1, <3>2, <3>3, <3>4, ConcatEmptySeq
    <2> DEFINE h == [i \in 1..n |-> g[i]]
    <2>4. h = Rest(h)
        <3>1. \A i \in 1..n : i # 1 => i - 1 \in 1..n
            BY <1>1
        <3> HIDE DEF n
        <3> QED
            BY <2>3, <3>1
    <2> QED
        BY <2>4
<1>3. flatten = Rest(flatten)
    BY <1>2
<1>4. FlattenSeq(s) = IF n = 0 THEN s ELSE flatten[n]
    BY DEF FlattenSeq
<1> DEFINE S == {k \in Nat : k + 1 \in 1..n => flatten[k + 1] \in Seq(E)}
<1>5. 0 \in S
    <2> HIDE DEF flatten
    <2> QED
        BY <1>1, <1>3
<1>6. ASSUME NEW k \in Nat, k \in S PROVE k + 1 \in S
    <2> HIDE DEF flatten
    <2>1. SUFFICES ASSUME k + 2 \in 1..n PROVE flatten[k + 2] \in Seq(E)
        BY DEF S
    <2>2. k + 1 \in 1..n /\ k + 2 # 1 /\ (k + 2) - 1 = k + 1
        BY <1>1, <2>1
    <2>3. flatten[k + 2] = flatten[k + 1] \o s[k + 2]
        BY <1>3, <2>1, <2>2
    <2>4. flatten[k + 1] \in Seq(E) /\ s[k + 2] \in Seq(E)
        BY <1>1, <1>6, <2>1, <2>2
    <2> QED
        BY <2>3, <2>4, ConcatProperties
<1>7. n # 0 => flatten[n] \in Seq(E)
    <2>1. n - 1 \in Nat => n - 1 \in S
        <3> HIDE DEF S
        <3> QED
            BY <1>5, <1>6, SetInduction
    <2> HIDE DEF flatten
    <2> QED
        BY <1>1, <2>1
<1>8. n = 0 => s \in Seq(E)
    BY EmptySeq
<1> QED
    <2> HIDE DEF flatten, n
    <2> QED
        BY <1>4, <1>7, <1>8

\* The title of a custom dataset has a length, however many dimensions it names.
LEMMA TitleTyped ==
    ASSUME NEW dims \in Seq(Dimension)
    PROVE  GenerateCustomTitle(dims) \in Nat
<1> DEFINE n == Len(dims)
           adds(i) == IF i = 1 THEN 0 ELSE IF i = n THEN 5 ELSE 2
           Rest(f) == [i \in 0..n |-> IF i = 0 THEN 0 ELSE f[i - 1] + adds(i) + dims[i].label]
           upTo == CHOOSE f : f = Rest(f)
<1>1. n \in Nat /\ \A i \in 1..n : dims[i].label \in Nat /\ adds(i) \in Nat
    <2>1. n \in Nat /\ \A i \in 1..n : dims[i] \in Dimension
        OBVIOUS
    <2> QED
        BY <2>1 DEF Dimension, Text
<1> HIDE DEF adds
<1>2. \E f : f = Rest(f)
    <2> DEFINE step == [i \in 1..n |-> [t \in Nat |-> t + adds(i) + dims[i].label]]
    <2>1. step \in [1..n -> [Nat -> Nat]]
        BY <1>1
    <2>2. PICK g \in [0..n -> Nat] : Recurs(g, n, 0, step)
        <3> HIDE DEF step, n
        <3> QED
            BY <1>1, <2>1, Recursion
    <2>3. ASSUME NEW i \in 1..n PROVE g[i] = g[i - 1] + adds(i) + dims[i].label
        <3>1. i - 1 \in 0..n
            BY <1>1
        <3>2. g[i - 1] \in Nat
            BY <2>2, <3>1
        <3> QED
            BY <2>2, <3>2 DEF Recurs
    <2>4. g[0] = 0
        BY <2>2 DEF Recurs
    <2>5. g = Rest(g)
        <3> HIDE DEF n
        <3> QED
            BY <1>1, <2>2, <2>3, <2>4
    <2> QED
        BY <2>5
<1>3. upTo = Rest(upTo)
    BY <1>2
<1>4. GenerateCustomTitle(dims) = upTo[n]
    BY DEF GenerateCustomTitle, adds
<1> DEFINE S == {k \in Nat : k \in 0..n => upTo[k] \in Nat}
<1> HIDE DEF upTo
<1>5. 0 \in S
    BY <1>1, <1>3
<1>6. ASSUME NEW k \in Nat, k \in S PROVE k + 1 \in S
    <2>1. SUFFICES ASSUME k + 1 \in 0..n PROVE upTo[k + 1] \in Nat
        OBVIOUS
    <2>2. k + 1 \in 1..n /\ k + 1 # 0 /\ (k + 1) - 1 = k /\ upTo[k] \in Nat
        BY <1>1, <1>6, <2>1
    <2>3. upTo[k + 1] = upTo[k] + adds(k + 1) + dims[k + 1].label
        BY <1>3, <2>1, <2>2
    <2> QED
        BY <1>1, <2>2, <2>3
<1>7. n \in S
    <2> HIDE DEF S, n
    <2> QED
        BY <1>1, <1>5, <1>6, SetInduction
<1> QED
    BY <1>1, <1>4, <1>7

-----------------------------------------------------------------------------
\* What a row is made of.
LEMMA ElementTyped ==
    ASSUME NEW label \in Label, NEW text \in Text
    PROVE  /\ item(label, text) \in Element
           /\ heading(label) \in Element
           /\ date(label, text) \in Element
<1>1. item(label, text) \in Element
    BY DEF item, Element
<1>2. heading(label) \in Element
    BY DEF heading, Element, Text
<1>3. date(label, text) \in Element
    BY DEF date, Element
<1> QED
    BY <1>1, <1>2, <1>3

LEMMA GapTyped == gap \in Element
<1>1. "" \in Label
    BY DEF Label
<1> QED
    BY <1>1 DEF gap, Element, Text

\* A function on 1..n is a sequence.
LEMMA SequenceOf ==
    ASSUME NEW E, NEW n \in Nat, NEW f \in [1..n -> E]
    PROVE  f \in Seq(E)
BY SeqDef

LEMMA StaticTyped ==
    ASSUME NEW label \in Label, NEW rows \in Nat
    PROVE  static(label, rows) \in Seq(Element)
<1>1. StaticText \in Text
    BY TextAssumption
<1>2. item(label, StaticText) \in Element /\ item("", StaticText) \in Element
    <2>1. "" \in Label
        BY DEF Label
    <2> QED
        BY <1>1, <2>1, ElementTyped
<1>3. static(label, rows) \in [1..rows -> Element]
    BY <1>2 DEF static
<1> QED
    BY <1>3, SequenceOf

LEMMA UnlabelledTyped ==
    ASSUME NEW texts \in Seq(Text)
    PROVE  unlabelled(texts) \in Seq(Element)
<1>1. Len(texts) \in Nat /\ DOMAIN texts = 1..Len(texts)
    OBVIOUS
<1>2. ASSUME NEW i \in DOMAIN texts PROVE item("", texts[i]) \in Element
    <2>1. texts[i] \in Text /\ "" \in Label
        BY <1>1 DEF Label
    <2> QED
        BY <2>1, ElementTyped
<1>3. unlabelled(texts) \in [1..Len(texts) -> Element]
    BY <1>1, <1>2 DEF unlabelled
<1> QED
    BY <1>1, <1>3, SequenceOf

LEMMA GapsTyped ==
    ASSUME NEW list \in Seq(Seq(Text))
    PROVE  withGaps(list) \in Seq(Element)
<1> DEFINE rows == [i \in DOMAIN list |-> Append(unlabelled(list[i]), gap)]
<1>1. Len(list) \in Nat /\ DOMAIN list = 1..Len(list)
    OBVIOUS
<1>2. ASSUME NEW i \in DOMAIN list
      PROVE  Append(unlabelled(list[i]), gap) \in Seq(Element)
    <2>1. list[i] \in Seq(Text)
        BY <1>1
    <2>2. unlabelled(list[i]) \in Seq(Element)
        BY <2>1, UnlabelledTyped
    <2> QED
        BY <2>2, GapTyped, AppendProperties
<1>3. rows \in [1..Len(list) -> Seq(Element)]
    BY <1>1, <1>2
<1>4. rows \in Seq(Seq(Element))
    <2> HIDE DEF rows
    <2> QED
        BY <1>1, <1>3, SequenceOf
<1> QED
    BY <1>4, FlattenTyped DEF withGaps

LEMMA RowsOf ==
    ASSUME NEW a \in Element, NEW b \in Element, NEW c \in Element,
           NEW d \in Element, NEW e \in Element
    PROVE  /\ <<a>> \in Seq(Element)
           /\ <<a, b>> \in Seq(Element)
           /\ <<a, b, c>> \in Seq(Element)
           /\ <<a, b, a, c, d, e>> \in Seq(Element)
OBVIOUS

\* Rows are joined, or left out.
LEMMA RowsJoined ==
    ASSUME NEW s \in Seq(Element), NEW t \in Seq(Element)
    PROVE  s \o t \in Seq(Element)
BY ConcatProperties

LEMMA UnlessTyped ==
    ASSUME NEW condition, NEW s, condition \/ s \in Seq(Element)
    PROVE  unless(condition, s) \in Seq(Element)
BY EmptySeq DEF unless

-----------------------------------------------------------------------------
\* The rows before the dimensions.
LEMMA DetailsTyped ==
    ASSUME NEW r \in Requests
    PROVE  Details(r) \in Seq(Element)
<1> DEFINE description == unless(r.isCustom, <<item("Description", r.description)>>)
           dates == <<date(IF r.isCustom THEN "Created Date" ELSE "Release Date",
                           r.releaseDate),
                      item("Dataset URL", r.uri), item("Unit of Measure", r.unit)>>
           contacts == unless(r.contacts = Nil,
                              <<gap, heading("Contacts")>> \o withGaps(r.contacts))
           alerts == unless(r.alerts = Nil, <<heading("Alerts")>> \o withGaps(r.alerts))
           qmi == <<item("Quality and methodology information", r.qmi), gap>>
           version == unless(r.isCustom, <<item("Version", 1)>>)
           url == <<IF r.isCustom THEN item("Custom Dataset URL", StaticText)
                                  ELSE item("Dataset Version URL", r.url)>>
<1>1. title(r) \in Text
    <2>1. r.title \in Nat /\ r.filterDimensions \in Seq(Dimension)
        BY RequestAssumption DEF Text
    <2> QED
        BY <2>1, TitleTyped DEF title, customised, Text
<1>2. <<item("Title", title(r))>> \in Seq(Element)
    <2>1. "Title" \in Label
        BY DEF Label
    <2> QED
        BY <1>1, <2>1, ElementTyped, RowsOf
<1>3. description \in Seq(Element)
    <2>1. "Description" \in Label /\ r.description \in Text
        BY RequestAssumption DEF Label
    <2>2. item("Description", r.description) \in Element
        BY <2>1, ElementTyped
    <2> QED
        BY <2>2, RowsOf, UnlessTyped
<1>4. dates \in Seq(Element)
    <2>1. /\ {"Created Date", "Release Date", "Dataset URL", "Unit of Measure"} \subseteq Label
          /\ {r.releaseDate, r.uri, r.unit} \subseteq Text
        BY RequestAssumption DEF Label
    <2>2. /\ date(IF r.isCustom THEN "Created Date" ELSE "Release Date", r.releaseDate)
                \in Element
          /\ item("Dataset URL", r.uri) \in Element
          /\ item("Unit of Measure", r.unit) \in Element
        BY <2>1, ElementTyped
    <2> QED
        BY <2>2, RowsOf
<1>5. contacts \in Seq(Element) /\ alerts \in Seq(Element)
    <2>1. heading("Contacts") \in Element /\ heading("Alerts") \in Element
        BY DEF heading, Element, Label, Text
    <2>2. ASSUME NEW list \in {r.contacts, r.alerts}, list # Nil
          PROVE  withGaps(list) \in Seq(Element)
        BY <2>2, RequestAssumption, GapsTyped
    <2>3. <<gap, heading("Contacts")>> \in Seq(Element)
        BY <2>1, GapTyped, RowsOf
    <2>4. <<heading("Alerts")>> \in Seq(Element)
        BY <2>1, RowsOf
    <2> QED
        BY <2>2, <2>3, <2>4, RowsJoined, UnlessTyped
<1>6. qmi \in Seq(Element)
    <2>1. "Quality and methodology information" \in Label /\ r.qmi \in Text
        BY RequestAssumption DEF Label
    <2>2. item("Quality and methodology information", r.qmi) \in Element
        BY <2>1, ElementTyped
    <2> QED
        BY <2>2, GapTyped, RowsOf
<1>7. version \in Seq(Element)
    <2>1. "Version" \in Label /\ 1 \in Text
        BY DEF Label, Text
    <2>2. item("Version", 1) \in Element
        BY <2>1, ElementTyped
    <2> QED
        BY <2>2, RowsOf, UnlessTyped
<1>8. url \in Seq(Element)
    <2>1. {"Custom Dataset URL", "Dataset Version URL"} \subseteq Label /\ r.url \in Text
        BY RequestAssumption DEF Label
    <2>2. item("Custom Dataset URL", StaticText) \in Element
        BY <2>1, TextAssumption, ElementTyped
    <2>3. item("Dataset Version URL", r.url) \in Element
        BY <2>1, ElementTyped
    <2> QED
        BY <2>2, <2>3, RowsOf
<1>9. /\ static("Statistical Disclosure Control Statement", 3) \in Seq(Element)
      /\ static("Area Type", 3) \in Seq(Element)
    <2>1. {"Statistical Disclosure Control Statement", "Area Type"} \subseteq Label
        BY DEF Label
    <2> QED
        BY <2>1, StaticTyped
<1> DEFINE head == <<item("Title", title(r))>> \o description \o dates \o contacts
           middle == head \o alerts \o qmi \o version
<1>10. Details(r) = middle \o url \o static("Statistical Disclosure Control Statement", 3)
                           \o static("Area Type", 3)
    BY DEF Details
<1> HIDE DEF description, dates, contacts, alerts, qmi, version, url
<1>11. head \in Seq(Element)
    BY <1>2, <1>3, <1>4, <1>5, RowsJoined
<1> HIDE DEF head
<1>12. middle \in Seq(Element)
    BY <1>5, <1>6, <1>7, <1>11, RowsJoined
<1> HIDE DEF middle
<1> QED
    BY <1>8, <1>9, <1>10, <1>12, RowsJoined

\* The dimensions and the area they cover, of the filter or of the version.
LEMMA DimensionsTyped ==
    ASSUME NEW r \in Requests
    PROVE  Dimensions(r) \in Seq(Element)
<1> DEFINE dims == IF r.isFilterJob THEN GetFilterDimensions(r) ELSE r.dimensions
           rows == [i \in DOMAIN dims |-> DimensionRows(dims[i])]
<1>1. ASSUME NEW d \in Dimension PROVE DimensionRows(d) \in Seq(Element)
    <2>1. /\ {"Area Type Name", "Area Type Description", "Variable Name",
              "Variable Description", "Quality Statement", "Quality Statement URL"}
                \subseteq Label
          /\ {d.label, d.description, d.quality, d.qualityURL} \subseteq Text
        BY DEF Label, Dimension
    <2>2. /\ item("Area Type Name", d.label) \in Element
          /\ item("Area Type Description", d.description) \in Element
          /\ item("Variable Name", d.label) \in Element
          /\ item("Variable Description", d.description) \in Element
          /\ item("Quality Statement", d.quality) \in Element
          /\ item("Quality Statement URL", d.qualityURL) \in Element
        BY <2>1, ElementTyped
    <2>3. /\ <<item("Area Type Name", d.label), item("Area Type Description", d.description)>>
                \in Seq(Element)
          /\ <<item("Variable Name", d.label), item("Variable Description", d.description)>>
                \in Seq(Element)
          /\ <<item("Quality Statement", d.quality),
               item("Quality Statement URL", d.qualityURL)>> \in Seq(Element)
        BY <2>2, RowsOf
    <2> QED
        BY <2>3, RowsJoined DEF DimensionRows
<1>2. r.nodes \in Seq(Dimension) /\ r.dimensions \in Seq(Dimension)
    BY RequestAssumption
<1>3. GetFilterDimensions(r) \in Seq(Dimension)
    <2> DEFINE areas == SelectSeq(r.filterDimensions, LAMBDA d : d.isAreaType)
               isArea(i) == areas # <<>> /\ r.nodes[i].id = Last(areas).id
    <2>1. Len(r.nodes) \in Nat /\ DOMAIN r.nodes = 1..Len(r.nodes)
        BY <1>2
    <2>2. ASSUME NEW i \in DOMAIN r.nodes
          PROVE  [r.nodes[i] EXCEPT !.isAreaType = isArea(i), !.qualityURL = 0] \in Dimension
        <3>1. r.nodes[i] \in Dimension /\ isArea(i) \in BOOLEAN
            BY <1>2, <2>1
        <3> HIDE DEF isArea
        <3> QED
            BY <3>1 DEF Dimension, Text
    <2>3. GetFilterDimensions(r) \in [1..Len(r.nodes) -> Dimension]
        BY <2>1, <2>2 DEF GetFilterDimensions
    <2> QED
        BY <2>1, <2>3, SequenceOf
<1>4. dims \in Seq(Dimension)
    BY <1>2, <1>3
<1>5. rows \in Seq(Seq(Element))
    <2> HIDE DEF dims
    <2>1. Len(dims) \in Nat /\ DOMAIN dims = 1..Len(dims)
        BY <1>4
    <2>2. \A i \in DOMAIN dims : DimensionRows(dims[i]) \in Seq(Element)
        BY <1>1, <1>4, <2>1
    <2>3. rows \in [1..Len(dims) -> Seq(Element)]
        BY <2>1, <2>2
    <2> HIDE DEF rows
    <2> QED
        BY <2>1, <2>3, SequenceOf
<1>6. static("Coverage", 2) \in Seq(Element)
    BY StaticTyped DEF Label
<1>7. Dimensions(r) = FlattenSeq(rows) \o static("Coverage", 2)
    BY DEF Dimensions
<1> HIDE DEF rows
<1> QED
    BY <1>5, <1>6, <1>7, FlattenTyped, RowsJoined

\* The history and the related content: what the versions and the entries give.
LEMMA HistoryTyped ==
    ASSUME NEW r \in Requests
    PROVE  History(r) \in Seq(Element)
<1> DEFINE versions == [i \in DOMAIN r.versions |-> VersionRows(r.versions[i])]
           related == [i \in DOMAIN r.relatedContent |-> RelatedRows(r.relatedContent[i])]
<1>1. ASSUME NEW v \in Version PROVE VersionRows(v) \in Seq(Element)
    <2> DEFINE reasons == [i \in DOMAIN v.alerts |-> item("Reason for New Version", v.alerts[i])]
    <2>1. v.releaseDate \in Text /\ v.alerts \in Seq(Text)
        BY DEF Version
    <2>2. {"Version Number", "Release Date", "Reason for New Version"} \subseteq Label /\ 1 \in Text
        BY DEF Label, Text
    <2>3. item("Version Number", 1) \in Element /\ date("Release Date", v.releaseDate) \in Element
        BY <2>1, <2>2, ElementTyped
    <2>4. <<gap, item("Version Number", 1), date("Release Date", v.releaseDate)>> \in Seq(Element)
        BY <2>3, GapTyped, RowsOf
    <2>5. Len(v.alerts) \in Nat /\ DOMAIN v.alerts = 1..Len(v.alerts)
        BY <2>1
    <2>6. ASSUME NEW i \in DOMAIN v.alerts
          PROVE  item("Reason for New Version", v.alerts[i]) \in Element
        <3>1. v.alerts[i] \in Text
            BY <2>1, <2>5
        <3> QED
            BY <2>2, <3>1, ElementTyped
    <2>7. reasons \in [1..Len(v.alerts) -> Element]
        BY <2>5, <2>6
    <2>8. reasons \in Seq(Element)
        <3> HIDE DEF reasons
        <3> QED
            BY <2>5, <2>7, SequenceOf
    <2>9. VersionRows(v) =
              <<gap, item("Version Number", 1), date("Release Date", v.releaseDate)>> \o reasons
        BY DEF VersionRows
    <2> HIDE DEF reasons
    <2> QED
        BY <2>4, <2>8, <2>9, RowsJoined
<1>2. ASSUME NEW rc \in RelatedContent PROVE RelatedRows(rc) \in Seq(Element)
    <2>1. rc.title \in Text /\ rc.description \in Text /\ rc.href \in Text
        BY DEF RelatedContent
    <2>2. {"Related Content", "Title", "Description", "HRef"} \subseteq Label
        BY DEF Label
    <2>3. /\ heading("Related Content") \in Element
          /\ item("Title", rc.title) \in Element
          /\ item("Description", rc.description) \in Element
          /\ item("HRef", rc.href) \in Element
        BY <2>1, <2>2, TextAssumption, ElementTyped
    <2> QED
        BY <2>3, GapTyped, RowsOf DEF RelatedRows
<1>3. r.versions \in Seq(Version)
    BY RequestAssumption
<1>4. versions \in Seq(Seq(Element))
    <2>1. Len(r.versions) \in Nat /\ DOMAIN r.versions = 1..Len(r.versions)
        BY <1>3
    <2>2. \A i \in DOMAIN r.versions : VersionRows(r.versions[i]) \in Seq(Element)
        BY <1>1, <1>3, <2>1
    <2>3. versions \in [1..Len(r.versions) -> Seq(Element)]
        BY <2>1, <2>2
    <2> HIDE DEF versions
    <2> QED
        BY <2>1, <2>3, SequenceOf
<1>5. r.relatedContent # Nil => related \in Seq(Seq(Element))
    <2>1. SUFFICES ASSUME r.relatedContent \in Seq(RelatedContent)
                   PROVE  related \in Seq(Seq(Element))
        BY RequestAssumption
    <2>2. Len(r.relatedContent) \in Nat /\ DOMAIN r.relatedContent = 1..Len(r.relatedContent)
        BY <2>1
    <2>3. \A i \in DOMAIN r.relatedContent : RelatedRows(r.relatedContent[i]) \in Seq(Element)
        BY <1>2, <2>1, <2>2
    <2>4. related \in [1..Len(r.relatedContent) -> Seq(Element)]
        BY <2>2, <2>3
    <2> HIDE DEF related
    <2> QED
        BY <2>2, <2>4, SequenceOf
<1>6. <<gap, heading("Version History")>> \in Seq(Element)
    <2>1. "Version History" \in Label
        BY DEF Label
    <2>2. heading("Version History") \in Element
        BY <2>1, TextAssumption, ElementTyped
    <2> QED
        BY <2>2, GapTyped, RowsOf
<1>7. /\ unless(r.versions = <<>>,
               <<gap, heading("Version History")>> \o FlattenSeq(versions)) \in Seq(Element)
      /\ unless(r.relatedContent = Nil, FlattenSeq(related)) \in Seq(Element)
    <2> HIDE DEF versions, related
    <2>1. FlattenSeq(versions) \in Seq(Element)
        BY <1>4, FlattenTyped
    <2>2. r.relatedContent # Nil => FlattenSeq(related) \in Seq(Element)
        BY <1>5, FlattenTyped
    <2> QED
        BY <1>6, <2>1, <2>2, RowsJoined, UnlessTyped
<1>8. History(r) = unless(r.versions = <<>>,
                          <<gap, heading("Version History")>> \o FlattenSeq(versions))
                   \o unless(r.relatedContent = Nil, FlattenSeq(related))
    BY DEF History
<1> HIDE DEF versions, related
<1> QED
    BY <1>7, <1>8, RowsJoined

=============================================================================
