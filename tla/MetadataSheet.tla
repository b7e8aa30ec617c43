----------------------------- MODULE MetadataSheet -----------------------------
(***************************************************************************)
(* AddMetaDataToExcelStructure of handler/metadata.go: the metadata sheet  *)
(* is filled row by row from the answers of the filter, dataset and        *)
(* Cantabular APIs.  Any call to them and to excelize may fail; a cell     *)
(* that fails is only remembered, a call or a date that fails returns.     *)
(*                                                                         *)
(* A text is its length.  The code walks its fields with one statement per *)
(* row; here these are sequences of elements, walked one by one.           *)
(***************************************************************************)
EXTENDS Integers, FiniteSets, Sequences, SequencesExt

CONSTANTS
    Requests,                 \* what may be asked for: an event and the answers to it
    StaticText,               \* length of the texts that are constants of the code
    maxExcelizeColumnWidth,
    Nil                       \* a list the metadata does not have

Text == Nat
ASSUME TextAssumption == StaticText \in Text /\ maxExcelizeColumnWidth \in Nat \ {0}

VARIABLES
    req,          \* the event, with the answers the APIs will give
    pc,           \* the next call; or the rows walked before it
    todo,         \* elements still to place before the next call
    rowNumber,
    columnA,      \* columnA[r]: the label in cell A of row r
    columnB,      \* columnB[r]: the text in cell B of row r
    columnBwidth, \* column A's width is of constant labels and never near the cap
    procErr,      \* has a cell failed?
    colWidth      \* the width set for column B; 0: not set

sheet == <<rowNumber, columnA, columnB, columnBwidth, procErr>>
vars == <<req, pc, todo, sheet, colWidth>>

-----------------------------------------------------------------------------
\* The elements of the sheet, in the order of the code.

Label == {"", "Title", "Description", "Created Date", "Release Date", "Dataset URL",
          "Unit of Measure", "Contacts", "Alerts", "Quality and methodology information",
          "Version", "Custom Dataset URL", "Dataset Version URL",
          "Statistical Disclosure Control Statement", "Area Type", "Area Type Name",
          "Area Type Description", "Variable Name", "Variable Description",
          "Quality Statement", "Quality Statement URL", "Coverage", "Version History",
          "Version Number", "Reason for New Version", "Related Content", "HRef"}

Element == [kind : {"item", "heading", "gap", "date"}, label : Label, text : Text]

item(label, text) == [kind |-> "item", label |-> label, text |-> text]
heading(label) == [kind |-> "heading", label |-> label, text |-> 0]
gap == [kind |-> "gap", label |-> "", text |-> 0]
\* A date that does not parse has no text.
date(label, text) == [kind |-> "date", label |-> label, text |-> text]

static(label, rows) == [i \in 1..rows |-> item(IF i = 1 THEN label ELSE "", StaticText)]
unlabelled(texts) == [i \in DOMAIN texts |-> item("", texts[i])]
unless(condition, elements) == IF condition THEN <<>> ELSE elements

\* The texts of every entry of a list, with a gap after each entry.
withGaps(list) == FlattenSeq([i \in DOMAIN list |-> Append(unlabelled(list[i]), gap)])

\* The labels of the dimensions, separated by ", " and, before the last, " and ".
GenerateCustomTitle(dims) ==
    LET upTo[i \in 0..Len(dims)] ==
            IF i = 0 THEN 0
            ELSE upTo[i - 1] + (IF i = 1 THEN 0 ELSE IF i = Len(dims) THEN 5 ELSE 2)
                             + dims[i].label
    IN  upTo[Len(dims)]

customised == 13      \* the length of " - customised"

title(r) == IF r.isCustom THEN GenerateCustomTitle(r.filterDimensions)
            ELSE IF r.multivariate THEN r.title + customised ELSE r.title

Details(r) ==
    <<item("Title", title(r))>>
    \o unless(r.isCustom, <<item("Description", r.description)>>)
    \o <<date(IF r.isCustom THEN "Created Date" ELSE "Release Date", r.releaseDate),
         item("Dataset URL", r.uri), item("Unit of Measure", r.unit)>>
    \o unless(r.contacts = Nil, <<gap, heading("Contacts")>> \o withGaps(r.contacts))
    \o unless(r.alerts = Nil, <<heading("Alerts")>> \o withGaps(r.alerts))
    \o <<item("Quality and methodology information", r.qmi), gap>>
    \o unless(r.isCustom, <<item("Version", 1)>>)
    \o <<IF r.isCustom THEN item("Custom Dataset URL", StaticText)
                       ELSE item("Dataset Version URL", r.url)>>
    \o static("Statistical Disclosure Control Statement", 3)
    \o static("Area Type", 3)

\* Cantabular's answer, in its order, without the URLs of its quality statements; the
\* last area type of the filter is the one.
GetFilterDimensions(r) ==
    LET areas == SelectSeq(r.filterDimensions, LAMBDA d : d.isAreaType)
    IN  [i \in DOMAIN r.nodes |->
            [r.nodes[i] EXCEPT
                !.isAreaType = areas # <<>> /\ r.nodes[i].id = Last(areas).id,
                !.qualityURL = 0]]

DimensionRows(d) ==
    (IF d.isAreaType
     THEN <<item("Area Type Name", d.label), item("Area Type Description", d.description)>>
     ELSE <<item("Variable Name", d.label), item("Variable Description", d.description)>>)
    \o <<item("Quality Statement", d.quality), item("Quality Statement URL", d.qualityURL)>>

Dimensions(r) ==
    LET dims == IF r.isFilterJob THEN GetFilterDimensions(r) ELSE r.dimensions
    IN  FlattenSeq([i \in DOMAIN dims |-> DimensionRows(dims[i])]) \o static("Coverage", 2)

VersionRows(v) ==
    <<gap, item("Version Number", 1), date("Release Date", v.releaseDate)>>
    \o [i \in DOMAIN v.alerts |-> item("Reason for New Version", v.alerts[i])]

RelatedRows(rc) ==
    <<gap, heading("Related Content"), gap, item("Title", rc.title),
      item("Description", rc.description), item("HRef", rc.href)>>

History(r) ==
    unless(r.versions = <<>>,
           <<gap, heading("Version History")>>
           \o FlattenSeq([i \in DOMAIN r.versions |-> VersionRows(r.versions[i])]))
    \o unless(r.relatedContent = Nil,
              FlattenSeq([i \in DOMAIN r.relatedContent |-> RelatedRows(r.relatedContent[i])]))

Dimension == [id : STRING, isAreaType : BOOLEAN, label : Text, description : Text,
              quality : Text, qualityURL : Text]
Version == [releaseDate : Text, alerts : Seq(Text)]
RelatedContent == [title : Text, description : Text, href : Text]

ASSUME RequestAssumption == \A r \in Requests :
    /\ {r.isFilterJob, r.isCustom, r.multivariate} \subseteq BOOLEAN
    /\ r.isCustom => r.isFilterJob
    /\ {r.title, r.description, r.releaseDate, r.uri, r.unit, r.qmi, r.url} \subseteq Text
    /\ \A list \in {r.contacts, r.alerts} : list = Nil \/ list \in Seq(Seq(Text))
    /\ {r.nodes, r.filterDimensions, r.dimensions} \subseteq Seq(Dimension)
    /\ r.versions \in Seq(Version)
    /\ r.relatedContent = Nil \/ r.relatedContent \in Seq(RelatedContent)

-----------------------------------------------------------------------------
Empty == [r \in {} |-> Nil]

\* Mutant: rows counted from zero.
RowZero == 0

firstRow == 1

Init ==
    /\ req \in Requests
    /\ pc = IF req.isFilterJob THEN "GetOutput" ELSE "GetVersionMetadataSelection"
    /\ todo = <<>>
    /\ rowNumber = firstRow
    /\ columnA = Empty /\ columnB = Empty
    /\ columnBwidth = 1
    /\ procErr = FALSE
    /\ colWidth = 0

\* The next call fails, and the function returns, or it is made; what follows it.
\* Only a filter job asks Cantabular for its dimensions.
Call(name, next, rows) ==
    /\ pc = name /\ todo = <<>>
    /\ \/ pc' = next /\ todo' = rows
       \/ /\ name = "GetFilterDimensions" => req.isFilterJob
          /\ pc' = "error" /\ UNCHANGED todo
    /\ UNCHANGED <<req, sheet, colWidth>>

GetOutput == Call("GetOutput", "GetVersionMetadataSelection", <<>>)

\* The call and NewSheet.
GetVersionMetadataSelection ==
    Call("GetVersionMetadataSelection", "GetFilterDimensions", Details(req))

AddDimensions ==
    Call("GetFilterDimensions", IF req.isCustom THEN "SetColWidth" ELSE "GetVersions",
         Dimensions(req))

GetVersions == Call("GetVersions", "SetColWidth", History(req))

-----------------------------------------------------------------------------
running == pc \notin {"nil", "error"}

Extend(column, value) ==
    [r \in DOMAIN column \cup {rowNumber} |-> IF r = rowNumber THEN value ELSE column[r]]

\* Mutant: a cell is placed after another has failed.
DespiteError(e) == e.kind = "heading" \/ e.text > 0

placed(e) == ~procErr /\ (e.kind = "heading" \/ e.text > 0)

widest(e) == IF e.text > columnBwidth THEN e.text ELSE columnBwidth

\* Cell A, cell B, the width, and last the next row; either cell may fail.
processMetaElement(e) ==
    IF ~placed(e) THEN UNCHANGED sheet ELSE
    \/ /\ columnA' = Extend(columnA, e.label)
       /\ columnB' = Extend(columnB, e.text)
       /\ columnBwidth' = widest(e)
       /\ rowNumber' = rowNumber + 1
       /\ UNCHANGED procErr
    \/ /\ columnA' \in {columnA, Extend(columnA, e.label)}
       /\ procErr' = TRUE
       /\ UNCHANGED <<rowNumber, columnB, columnBwidth>>

PlaceElement ==
    LET e == Head(todo)
    IN  /\ running /\ todo # <<>>
        /\ e.kind = "date" => e.text > 0
        /\ IF e.kind = "gap"
           THEN rowNumber' = rowNumber + 1
                /\ UNCHANGED <<columnA, columnB, columnBwidth, procErr>>
           ELSE processMetaElement(e)
        /\ todo' = Tail(todo)
        /\ UNCHANGED <<req, pc, colWidth>>

\* A date that does not parse ends the function at once.
DateFails ==
    /\ running /\ todo # <<>>
    /\ Head(todo).kind = "date" /\ Head(todo).text = 0
    /\ pc' = "error"
    /\ UNCHANGED <<req, todo, sheet, colWidth>>

\* Mutant: the error of a cell is not looked at.
NoError == TRUE

noError == ~procErr

\* Mutant: one character more than excelize takes.
OneTooMany == IF columnBwidth > maxExcelizeColumnWidth + 1
              THEN maxExcelizeColumnWidth ELSE columnBwidth

cappedWidth == IF columnBwidth > maxExcelizeColumnWidth
               THEN maxExcelizeColumnWidth ELSE columnBwidth

\* The latched error is returned, or the widths are set; excelize may refuse.
SetColWidth ==
    /\ pc = "SetColWidth" /\ todo = <<>>
    /\ \/ /\ noError
          /\ colWidth' = cappedWidth
          /\ pc' = "nil"
       \/ UNCHANGED colWidth /\ pc' = "error"
    /\ UNCHANGED <<req, todo, sheet>>

Returned == pc \in {"nil", "error"} /\ UNCHANGED vars

AddMetaDataToExcelStructure ==
    \/ GetOutput \/ GetVersionMetadataSelection \/ AddDimensions \/ GetVersions
    \/ PlaceElement \/ DateFails
    \/ SetColWidth

Next == AddMetaDataToExcelStructure \/ Returned

Spec == Init /\ [][Next]_vars

-----------------------------------------------------------------------------
\* Properties.

\* Every variable has its type; rows are numbered from 1, as excelize wants them.
TypeOK ==
    /\ req \in Requests
    /\ pc \in {"GetOutput", "GetVersionMetadataSelection", "GetFilterDimensions",
               "GetVersions", "SetColWidth", "nil", "error"}
    /\ todo \in Seq(Element)
    /\ rowNumber \in Nat \ {0}
    /\ DOMAIN columnA \subseteq Nat \ {0} /\ \A r \in DOMAIN columnA : columnA[r] \in Label
    /\ DOMAIN columnB \subseteq Nat \ {0} /\ \A r \in DOMAIN columnB : columnB[r] \in Text
    /\ columnBwidth \in Nat \ {0}
    /\ procErr \in BOOLEAN
    /\ colWidth \in Nat

\* A cell once written is never written again: a row whose second cell failed is
\* not taken for free by the elements that follow it (metadata.go:140-165).
NoCellRewritten ==
    [][/\ \A r \in DOMAIN columnA : r \in DOMAIN columnA' /\ columnA'[r] = columnA[r]
       /\ \A r \in DOMAIN columnB : r \in DOMAIN columnB' /\ columnB'[r] = columnB[r]]_vars

\* The elements a finished sheet is made of.
elements(r) == Details(r) \o Dimensions(r) \o unless(r.isCustom, History(r))

\* An element that is shown has a row, and so has a gap.
shown(e) == e.kind # "gap" /\ (e.kind = "heading" \/ e.text > 0)
rowOf(s, i) == 1 + Cardinality({j \in 1..(i - 1) : shown(s[j]) \/ s[j].kind = "gap"})

\* The cells are those of s and no others.
Holds(s) ==
    LET wanted == {i \in DOMAIN s : shown(s[i])}
    IN  /\ DOMAIN columnA = {rowOf(s, i) : i \in wanted}
        /\ DOMAIN columnB = DOMAIN columnA
        /\ \A i \in wanted : /\ columnA[rowOf(s, i)] = s[i].label
                             /\ columnB[rowOf(s, i)] = s[i].text

\* A sheet returned without error has all that the answers hold for its kind of
\* job, each label next to its text, in the row that the elements before it leave
\* it: no failed cell goes unreported, and none of the later ones is missing
\* (metadata.go:140, 317-319).
NilIsComplete == pc = "nil" => Holds(elements(req))

\* Its column B is as wide as its longest text, or as excelize lets it be
\* (metadata.go:167-173, 321-337).
WidthFits ==
    pc = "nil" =>
        /\ colWidth \in 1..maxExcelizeColumnWidth
        /\ \A r \in DOMAIN columnB :
              columnB[r] <= colWidth \/ colWidth = maxExcelizeColumnWidth
=============================================================================
