-------------------------- MODULE Labelling_proofs ---------------------------
(***************************************************************************)
(* Proofs of the two places where classes are given by hand.               *)
(*                                                                         *)
(* The preparation of the dataset, for any samples and classes and any     *)
(* order of the programs, run to their end or stopped.                     *)
(*                                                                         *)
(* The manual classifier, for any directory of images.  A save writes the  *)
(* canvas of the image shown to the file of the image the provider stands  *)
(* at; when they differ the latter cannot be decoded, and so the file of   *)
(* an image that can be decoded has only its own classes.                  *)
(***************************************************************************)
EXTENDS DatasetPreparation, ManualClassification, FiniteSetTheorems, TLAPS

-----------------------------------------------------------------------------
(* Tables.                                                                 *)

LEMMA ParsedIds ==
  ASSUME NEW f, OneRowEach(f.rows)
  PROVE  /\ ParseArffContent(f) \subseteq f.rows
         /\ OneRowEach(ParseArffContent(f))
         /\ Ids(ParseArffContent(f)) = Ids(f.rows) \ {f.last}
  BY DEF ParseArffContent, OneRowEach, Ids

(* Rows of different samples are as many as their samples.                 *)
LEMMA AsManyRows ==
  ASSUME NEW rows \in SUBSET Row, OneRowEach(rows)
  PROVE  Cardinality(Ids(rows)) = Cardinality(rows)
<1> DEFINE f == [r \in rows |-> r.id]
<1>1. IsFiniteSet(Ids(rows))
  <2>1. Ids(rows) \subseteq Samples
    BY DEF Ids, Row
  <2> QED
    BY <2>1, FS_Subset, PreparationAssumption
<1>2. f \in Injection(rows, Ids(rows)) /\ f \in Surjection(rows, Ids(rows))
  BY DEF OneRowEach, Ids, Injection, Surjection, IsInjective
<1> HIDE DEF f
<1> QED
  BY <1>1, <1>2, FS_Injection

LEMMA InvariantGivesTable == IInv => RowsFitHeader
  BY AsManyRows DEF IInv, PreparationTypeOK, Files, Uniform, RowsFitHeader

LEMMA EmptyTable ==
  /\ Empty \in Files /\ Empty.rows = {} /\ Empty.header = "cut"
  /\ Empty.cut = NoSample /\ Empty.last = NoSample
  /\ Ids({}) = {} /\ OneRowEach({})
<1>1. PICK n \in SUBSET Row : n = {}
  OBVIOUS
<1>2. Empty = [header |-> "cut", rows |-> n, last |-> NoSample, cut |-> NoSample]
  BY <1>1 DEF Empty
<1> QED
  BY <1>1, <1>2 DEF Files, Ids, OneRowEach

(* The rows of generate_arff_file: one for each sample, without attributes *)
(* or class.                                                               *)
LEMMA GeneratedTable ==
  ASSUME NEW g, g = [id : Samples, attributes : {"none"}, class : {Unlabelled}]
  PROVE  /\ g \subseteq Row /\ OneRowEach(g) /\ Uniform(g, "plain") /\ Ids(g) = Samples
         /\ \A r \in g : r.class = Unlabelled /\ r.id \in Samples
<1>1. /\ g \subseteq Row
      /\ \A r \in g : r.class = Unlabelled /\ r.attributes = "none" /\ r.id \in Samples
  BY DEF Row
<1>2. \A r \in g : \E i \in Samples : r = [id |-> i, attributes |-> "none", class |-> Unlabelled]
  <2> TAKE r \in g
  <2>1. r = [id |-> r.id, attributes |-> r.attributes, class |-> r.class]
        /\ r.id \in Samples /\ r.attributes = "none" /\ r.class = Unlabelled
    OBVIOUS
  <2> QED
    BY <2>1
<1>3. OneRowEach(g)
  <2> SUFFICES ASSUME NEW r \in g, NEW q \in g, r.id = q.id PROVE r = q
    BY DEF OneRowEach
  <2>1. PICK i \in Samples : r = [id |-> i, attributes |-> "none", class |-> Unlabelled]
    BY <1>2
  <2>2. PICK j \in Samples : q = [id |-> j, attributes |-> "none", class |-> Unlabelled]
    BY <1>2
  <2>3. r.id = i /\ q.id = j
    BY <2>1, <2>2
  <2> QED
    BY <2>1, <2>2, <2>3
<1>4. Ids(g) = Samples
  <2>1. ASSUME NEW k \in Samples PROVE k \in Ids(g)
    <3>1. PICK r : r = [id |-> k, attributes |-> "none", class |-> Unlabelled]
      OBVIOUS
    <3>2. r \in g /\ r.id = k
      BY <3>1
    <3> QED
      BY <3>2 DEF Ids
  <2> QED
    BY <1>1, <2>1 DEF Ids
<1> QED
  BY <1>1, <1>3, <1>4 DEF Uniform, HeaderOf

-----------------------------------------------------------------------------
(* Writing the file.                                                       *)
LEMMA WriteHeaderOK == ASSUME IInv, WriteHeader PROVE IInv'
<1>1. /\ file \in Files /\ WritingOK /\ program \in Writers /\ input \in Files
      /\ file.header = "cut" /\ file.rows = {} /\ file.cut = NoSample
      /\ UNCHANGED <<program, data, todo, input, complete, given>>
  BY DEF WriteHeader, IInv, PreparationTypeOK, WritingOK
<1>2. Header \in {"plain", "full"} /\ Header' = Header
  BY <1>1 DEF WritingOK, Header, Files
<1>3. /\ file' \in Files /\ file'.header = Header /\ file'.rows = file.rows
      /\ file'.cut = file.cut
  BY <1>1, <1>2 DEF WriteHeader, Files
<1>4. WritingOK'
  BY <1>1, <1>2, <1>3 DEF WritingOK
<1>5. PreparationTypeOK'
  BY <1>1, <1>3 DEF IInv, PreparationTypeOK
<1>6. program # "label" /\ program # "none"
  BY <1>1 DEF Writers
<1> QED
  BY <1>1, <1>3, <1>4, <1>5, <1>6 DEF IInv, Uniform, LabelsKept, OnlyTheLastIsLost, OneRowEach

LEMMA BeginRowOK == ASSUME IInv, NEW r \in data, BeginRow(r) PROVE IInv'
<1>1. /\ file \in Files /\ WritingOK /\ program \in Writers /\ r \in Row
      /\ r.id \in todo /\ file.header # "cut"
      /\ UNCHANGED <<program, data, todo, input, complete, given>>
  BY DEF BeginRow, IInv, PreparationTypeOK
<1>2. /\ file' \in Files /\ file'.header = file.header /\ file'.rows = file.rows
      /\ file'.cut = r.id
  <2>1. r.id \in Samples
    BY <1>1 DEF Row
  <2> QED
    BY <1>1, <2>1 DEF BeginRow, Files
<1>3. Header' = Header
  BY <1>1 DEF Header
<1>4. WritingOK'
  BY <1>1, <1>2, <1>3 DEF WritingOK
<1>5. PreparationTypeOK'
  BY <1>1, <1>2 DEF IInv, PreparationTypeOK
<1>6. r.id \notin Ids(file.rows)
  BY <1>1 DEF WritingOK
<1>7. program # "label" /\ program # "none"
  BY <1>1 DEF Writers
<1> QED
  BY <1>1, <1>2, <1>4, <1>5, <1>6, <1>7 DEF IInv, LabelsKept, OnlyTheLastIsLost

(* What is written of a row in memory is a row of the same sample and      *)
(* class, under the header of the program.                                 *)
LEMMA WrittenRow ==
  ASSUME NEW r \in Row, NEW w \in Written(r)
  PROVE  /\ w \in Row /\ w.id = r.id /\ w.class = r.class
         /\ IF program = "extract" THEN HeaderOf(w) = "full" ELSE w = r
<1>1. CASE program = "extract"
  <2>1. PICK a \in {"fewer", "all"} : w = [r EXCEPT !.attributes = a]
    BY <1>1 DEF Written
  <2>2. w \in Row /\ w.id = r.id /\ w.class = r.class /\ w.attributes = a
    BY <2>1 DEF Row
  <2> QED
    BY <1>1, <2>2 DEF HeaderOf
<1>2. CASE program # "extract"
  BY <1>2 DEF Written
<1> QED
  BY <1>1, <1>2

LEMMA EndRowOK == ASSUME IInv, NEW r \in data, EndRow(r) PROVE IInv'
<1>1. /\ file \in Files /\ WritingOK /\ program \in Writers /\ r \in Row
      /\ file.cut = r.id /\ todo' = todo \ {r.id} /\ todo \subseteq Samples
      /\ UNCHANGED <<program, data, input, complete>> /\ Header' = Header
  BY DEF EndRow, IInv, PreparationTypeOK, Header
<1>2. /\ r.id \in todo /\ r.id \in Samples /\ r.id \notin Ids(file.rows)
      /\ file.header = Header
  BY <1>1, PreparationAssumption DEF WritingOK, Row
<1>3. PICK w \in Written(r) :
        file' = [file EXCEPT !.rows = @ \cup {w}, !.last = r.id, !.cut = NoSample]
  BY DEF EndRow
<1>4. /\ w \in Row /\ w.id = r.id /\ w.class = r.class
      /\ IF program = "extract" THEN HeaderOf(w) = "full" ELSE w = r
  BY <1>1, <1>3, WrittenRow
<1>5. /\ file' \in Files /\ file'.header = file.header /\ file'.rows = file.rows \cup {w}
      /\ file'.cut = NoSample
  BY <1>1, <1>2, <1>3, <1>4 DEF Files
<1>6. Ids(file'.rows) = Ids(file.rows) \cup {r.id}
  BY <1>4, <1>5 DEF Ids
<1>7. OneRowEach(file'.rows)
  <2>1. \A q \in file.rows : q.id # w.id
    BY <1>2, <1>4 DEF Ids
  <2> QED
    BY <1>5, <2>1 DEF IInv, OneRowEach
<1>8. Uniform(file'.rows, file'.header)
  <2>1. HeaderOf(w) = Header
    <3>1. CASE program = "extract"
      BY <1>4, <3>1 DEF Header
    <3>2. CASE program # "extract"
      BY <1>1, <1>4, <3>2 DEF WritingOK, Uniform
    <3> QED
      BY <3>1, <3>2
  <2> QED
    BY <1>2, <1>5, <2>1 DEF IInv, Uniform
<1>9. given' \in [Samples -> Classes \cup {Unlabelled}] /\ LabelsKept'
  <2>1. \A q \in file.rows : q.id # r.id /\ q.id \in Samples /\ q.class = given[q.id]
    BY <1>1, <1>2 DEF IInv, LabelsKept, Ids, Files, Row
  <2>2. CASE program = "update"
    <3>1. given' = [given EXCEPT ![r.id] = r.class]
      BY <2>2 DEF EndRow
    <3>2. r.class \in Classes \cup {Unlabelled}
      BY <1>1 DEF Row
    <3> QED
      BY <1>2, <1>4, <1>5, <2>1, <3>1, <3>2 DEF IInv, PreparationTypeOK, LabelsKept
  <2>3. CASE program # "update"
    <3>1. given' = given
      BY <2>3 DEF EndRow
    <3>2. r.class = given[r.id]
      BY <1>1, <2>3 DEF WritingOK
    <3> QED
      BY <1>4, <1>5, <2>1, <3>1, <3>2 DEF IInv, PreparationTypeOK, LabelsKept
  <2> QED
    BY <2>2, <2>3
<1>10. WritingOK'
  <2>1. program # "update" => given' = given
    BY DEF EndRow
  <2>2. Ids(data) = Ids(file'.rows) \cup todo' /\ Ids(file'.rows) \cap todo' = {}
    BY <1>1, <1>2, <1>6 DEF WritingOK
  <2> QED
    BY <1>1, <1>2, <1>5, <2>1, <2>2 DEF WritingOK
<1>11. PreparationTypeOK'
  BY <1>1, <1>5, <1>9 DEF IInv, PreparationTypeOK
<1>12. file'.cut \notin Ids(file'.rows)
  <2>1. \A q \in file'.rows : q.id \in Samples
    BY <1>5 DEF Files, Row
  <2> QED
    BY <1>5, <2>1, PreparationAssumption DEF Ids
<1>13. program # "label" /\ program # "none"
  BY <1>1 DEF Writers
<1> QED
  BY <1>1, <1>7, <1>8, <1>9, <1>10, <1>11, <1>12, <1>13 DEF IInv, OnlyTheLastIsLost

LEMMA FinishOK == ASSUME IInv, Finish PROVE IInv'
<1>1. /\ file \in Files /\ input \in Files /\ WritingOK /\ program \in Writers
      /\ todo = {} /\ file.header # "cut" /\ file.cut = NoSample
      /\ program' = "none" /\ complete' = TRUE
      /\ UNCHANGED <<data, todo, input, given>>
  BY DEF Finish, IInv, PreparationTypeOK
<1>2. /\ file' \in Files /\ file'.header = file.header /\ file'.rows = file.rows
      /\ file'.cut = file.cut
  <2>1. CASE program = "update"
    BY <1>1, <2>1 DEF Finish, Files
  <2>2. CASE program # "update"
    BY <1>1, <2>2 DEF Finish
  <2> QED
    BY <2>1, <2>2
<1>3. Ids(input.rows) \ Ids(file.rows) \subseteq {input.last}
  <2>1. Ids(file.rows) = Ids(data)
    BY <1>1 DEF WritingOK
  <2>2. CASE program = "generate"
    <3>1. Ids(input.rows) \subseteq Samples
      BY <1>1 DEF Files, Row, Ids
    <3> QED
      BY <1>1, <2>1, <2>2, <3>1 DEF WritingOK
  <2>3. CASE program # "generate"
    <3>1. Ids(data) = Ids(input.rows) \ {input.last}
      BY <1>1, <2>3, ParsedIds DEF WritingOK, IInv
    <3> QED
      BY <2>1, <3>1
  <2> QED
    BY <2>2, <2>3
<1>4. PreparationTypeOK'
  BY <1>1, <1>2 DEF IInv, PreparationTypeOK
<1>5. program' \notin Writers
  BY <1>1 DEF Writers
<1> QED
  BY <1>1, <1>2, <1>3, <1>4, <1>5 DEF IInv, LabelsKept, OnlyTheLastIsLost

-----------------------------------------------------------------------------
(* The programs.                                                           *)
LEMMA InitOK == ASSUME Init PROVE IInv
<1>1. given \in [Samples -> Classes \cup {Unlabelled}]
  BY DEF Init
<1>2. PreparationTypeOK
  BY <1>1, EmptyTable DEF Init, PreparationTypeOK
<1> QED
  BY <1>2, EmptyTable
  DEF Init, IInv, OnlyTheLastIsLost, LabelsKept, Uniform, Writers

LEMMA GenerateOK == ASSUME IInv, GenerateArffFile PROVE IInv'
<1>1. /\ data' \subseteq Row /\ OneRowEach(data') /\ Uniform(data', "plain")
      /\ Ids(data') = Samples
      /\ \A r \in data' : r.class = Unlabelled /\ r.id \in Samples
  BY GeneratedTable DEF GenerateArffFile
<1>2. /\ program' = "generate" /\ file' = Empty /\ todo' = Samples /\ complete' = FALSE
      /\ given' = [k \in Samples |-> Unlabelled] /\ input' = input
  BY DEF GenerateArffFile
<1>3. PreparationTypeOK'
  BY <1>1, <1>2, EmptyTable DEF IInv, PreparationTypeOK, Writers
<1>4. Header' = "plain"
  BY <1>2 DEF Header
<1>5. WritingOK'
  BY <1>1, <1>2, <1>4, EmptyTable DEF WritingOK
<1> QED
  BY <1>1, <1>2, <1>3, <1>5, EmptyTable
  DEF IInv, LabelsKept, Uniform, OnlyTheLastIsLost

(* What a program has in memory when it has read the file.                 *)
LEMMA LoadOK ==
  ASSUME IInv, NEW name, Load(name)
  PROVE  /\ data' \subseteq Row /\ OneRowEach(data')
         /\ Ids(data') = Ids(ParseArffContent(file)) /\ Uniform(data', file.header)
         /\ input' = file /\ complete' = FALSE /\ program' = name /\ file.header # "cut"
         /\ \A r \in data' : r.class = given[r.id]
<1>1. data' = ParseArffContent(file) /\ OneRowEach(file.rows) /\ file.rows \subseteq Row
  BY DEF Load, IInv, PreparationTypeOK, Files
<1>2. data' \subseteq file.rows /\ OneRowEach(data')
  BY <1>1, ParsedIds
<1> QED
  BY <1>1, <1>2 DEF Load, IInv, Uniform, LabelsKept

LEMMA StartLabellingOK == ASSUME IInv, StartLabelling PROVE IInv'
<1>1. /\ data' \subseteq Row /\ OneRowEach(data')
      /\ Ids(data') = Ids(ParseArffContent(file)) /\ Uniform(data', file.header)
      /\ input' = file /\ complete' = FALSE /\ program' = "label" /\ file.header # "cut"
  BY LoadOK DEF StartLabelling
<1>2. file' = file /\ given' = given /\ todo' \subseteq Samples
  BY <1>1 DEF StartLabelling, Row
<1>3. PreparationTypeOK'
  BY <1>1, <1>2 DEF IInv, PreparationTypeOK
<1>4. LabellingOK'
  BY <1>1 DEF LabellingOK
<1>5. program' \notin Writers
  BY <1>1 DEF Writers
<1> QED
  BY <1>1, <1>2, <1>3, <1>4, <1>5 DEF IInv, LabelsKept, OnlyTheLastIsLost

LEMMA LabelSampleOK ==
  ASSUME IInv, NEW r \in data, NEW c \in Classes \cup {Unlabelled}, LabelSample(r, c)
  PROVE  IInv'
<1> DEFINE q == [r EXCEPT !.class = c]
<1>1. r \in Row
  BY DEF IInv, PreparationTypeOK
<1>2. q \in Row /\ q.id = r.id /\ HeaderOf(q) = HeaderOf(r)
  BY <1>1 DEF Row, HeaderOf
<1>3. data' = (data \ {r}) \cup {q} /\ todo' \subseteq todo
      /\ UNCHANGED <<file, program, input, complete, given>> /\ program = "label"
  BY DEF LabelSample
<1> HIDE DEF q
<1>4. Ids(data') = Ids(data)
  BY <1>2, <1>3 DEF Ids
<1>5. OneRowEach(data')
  BY <1>2, <1>3 DEF IInv, OneRowEach
<1>6. Uniform(data', input.header)
  BY <1>2, <1>3 DEF IInv, LabellingOK, Uniform
<1>7. PreparationTypeOK'
  BY <1>2, <1>3 DEF IInv, PreparationTypeOK
<1>8. LabellingOK'
  BY <1>3, <1>4, <1>6 DEF IInv, LabellingOK
<1>9. program \notin Writers
  BY <1>3 DEF Writers
<1> QED
  BY <1>3, <1>5, <1>7, <1>8, <1>9 DEF IInv, LabelsKept, OnlyTheLastIsLost

LEMMA UpdateOK == ASSUME IInv, UpdateArffFile PROVE IInv'
<1>1. /\ LabellingOK /\ input.header # "cut" /\ OneRowEach(data) /\ data \subseteq Row
      /\ program' = "update" /\ file' = Empty /\ todo' = Ids(data) /\ ~complete'
      /\ UNCHANGED <<data, input, complete, given>>
  BY DEF UpdateArffFile, IInv, PreparationTypeOK
<1>2. todo' \subseteq Samples
  BY <1>1 DEF Ids, Row
<1>3. PreparationTypeOK'
  BY <1>1, <1>2, EmptyTable DEF IInv, PreparationTypeOK, Writers
<1>4. Header' = input.header
  BY <1>1 DEF Header
<1>5. WritingOK'
  BY <1>1, <1>4, EmptyTable DEF WritingOK, LabellingOK
<1> QED
  BY <1>1, <1>3, <1>5, EmptyTable DEF IInv, LabelsKept, Uniform, OnlyTheLastIsLost

LEMMA StartExtractionOK == ASSUME IInv, StartExtraction PROVE IInv'
<1>1. /\ data' \subseteq Row /\ OneRowEach(data')
      /\ Ids(data') = Ids(ParseArffContent(file))
      /\ input' = file /\ complete' = FALSE /\ program' = "extract"
      /\ \A r \in data' : r.class = given[r.id]
  BY LoadOK DEF StartExtraction
<1>2. file' = Empty /\ todo' = Ids(data') /\ given' = given
  BY DEF StartExtraction
<1>3. todo' \subseteq Samples
  BY <1>1, <1>2 DEF Ids, Row
<1>4. PreparationTypeOK'
  BY <1>1, <1>2, <1>3, EmptyTable DEF IInv, PreparationTypeOK, Writers
<1>5. Header' = "full"
  BY <1>1 DEF Header
<1>6. WritingOK'
  BY <1>1, <1>2, <1>5, EmptyTable DEF WritingOK
<1>7. OneRowEach(input'.rows)
  BY <1>1 DEF IInv
<1> QED
  BY <1>1, <1>2, <1>4, <1>6, <1>7, EmptyTable
  DEF IInv, LabelsKept, Uniform, OnlyTheLastIsLost

LEMMA StopOK == ASSUME IInv, Stop PROVE IInv'
<1>1. program' = "none" /\ UNCHANGED <<file, data, todo, input, complete, given>> /\ ~complete'
  BY DEF Stop, IInv
<1>2. program' \notin Writers
  BY <1>1 DEF Writers
<1> QED
  BY <1>1, <1>2 DEF IInv, PreparationTypeOK, LabelsKept, OnlyTheLastIsLost

LEMMA StepOK == IInv /\ [Next]_vars => IInv'
<1> SUFFICES ASSUME IInv, [Next]_vars PROVE IInv'
  OBVIOUS
<1>1. CASE UNCHANGED vars
  BY <1>1 DEF vars, IInv, PreparationTypeOK, LabelsKept, OnlyTheLastIsLost, LabellingOK,
              WritingOK, Header
<1> QED
  BY <1>1, GenerateOK, StartLabellingOK, UpdateOK, StartExtractionOK, WriteHeaderOK,
     FinishOK, StopOK, BeginRowOK, EndRowOK, LabelSampleOK DEF Next

-----------------------------------------------------------------------------
(* The invariant the three properties follow from.                         *)
THEOREM Invariance == Spec => []IInv
  BY InitOK, StepOK, PTL DEF Spec

(* The arff file is a table under a header of its kind, whatever programs  *)
(* were run and wherever they were stopped; only the last row or the header*)
(* may be cut short, and neither is when the last program ran to its end.  *)
THEOREM FileIsATable == Spec => []RowsFitHeader
  BY Invariance, InvariantGivesTable, PTL

(* A sample in the file has the class its user gave it.                    *)
THEOREM ClassesStay == Spec => []LabelsKept
  BY Invariance, PTL DEF IInv

(* A program that runs to its end loses no sample but the last of a file   *)
(* without a newline at its end.                                           *)
THEOREM OneSampleLostAtMost == Spec => []OnlyTheLastIsLost
  BY Invariance, PTL DEF IInv

-----------------------------------------------------------------------------
(* The manual classifier.                                                  *)
LEMMA PixelsFinite ==
  ASSUME NEW S \in SUBSET Pixels
  PROVE  IsFiniteSet(S) /\ Cardinality(S) \in Nat
<1>1. IsFiniteSet(Pixels)
  BY FS_Interval, ClassificationAssumption DEF Pixels
<1> QED
  BY <1>1, FS_Subset, FS_CardinalityType

LEMMA BlankCounts == PixelsWithClass(Blank) = {} /\ Cardinality({}) = 0
  BY FS_EmptySet DEF PixelsWithClass, Blank

(* What a save leaves on the disk.                                         *)
LEMMA SaveOwn ==
  ASSUME ClassifierIInv, SaveCurrentData \/ SaveFails
  PROVE  dat' \in [Images -> ClassFiles] /\ OwnClassesOnly'
<1>1. CASE sourceImage = NoImage
  BY <1>1 DEF ClassifierIInv, TypeOK, SaveCurrentData, SaveFails, OwnClassesOnly, OnlyClassesOf
<1>2. CASE sourceImage # NoImage
  <2>1. currentIndex \in Images
    BY <1>2 DEF ClassifierIInv, TypeOK
  <2>2. PICK saved : /\ dat' = [dat EXCEPT ![currentIndex] = saved]
                     /\ \/ saved = classesData
                        \/ \E n \in 0..(Width - 1) : saved = [p \in 1..n |-> classesData[p]]
                        \/ saved = NoFile
    BY <1>2 DEF SaveCurrentData, SaveFails
  <2>3. classesData \in [1..Width -> Images \cup {None}]
    BY DEF ClassifierIInv, TypeOK, Pixels
  <2>4. \A n \in 0..(Width - 1) : 1..n \subseteq 1..Width /\ n \in 0..Width
    BY ClassificationAssumption
  <2>5. saved = NoFile \/ \E n \in 0..Width : saved \in [1..n -> Images \cup {None}]
    BY <2>2, <2>3, <2>4, ClassificationAssumption
  <2>6. saved \in ClassFiles
    <3>1. CASE saved = NoFile
      BY <3>1, Zenon DEF ClassFiles
    <3>2. ASSUME NEW n \in 0..Width, saved \in [1..n -> Images \cup {None}]
          PROVE  saved \in ClassFiles
      BY <3>2, Zenon DEF ClassFiles
    <3> QED
      BY <2>5, <3>1, <3>2
  <2>7. saved # NoFile => OnlyClassesOf(sourceImage, saved)
    <3>1. OnlyClassesOf(sourceImage, classesData)
      BY <1>2 DEF ClassifierIInv
    <3> QED
      BY <2>2, <2>3, <2>4, <3>1 DEF OnlyClassesOf
  <2>8. currentIndex \in Readable => sourceImage = currentIndex
    BY <1>2 DEF ClassifierIInv, ShownUnlessUnreadable, Readable
  <2>9. dat' \in [Images -> ClassFiles]
    BY <2>2, <2>6 DEF ClassifierIInv, TypeOK
  <2>10. ASSUME NEW i \in Readable, dat'[i] # NoFile PROVE OnlyClassesOf(i, dat'[i])
    <3>1. i \in Images
      BY DEF Readable
    <3>2. CASE i = currentIndex
      BY <2>2, <2>7, <2>8, <2>10, <3>1, <3>2 DEF ClassifierIInv, TypeOK
    <3>3. CASE i # currentIndex
      BY <2>2, <2>10, <3>1, <3>3 DEF ClassifierIInv, TypeOK, OwnClassesOnly
    <3> QED
      BY <3>2, <3>3
  <2> QED
    BY <2>9, <2>10 DEF OwnClassesOnly, OnlyClassesOf
<1> QED
  BY <1>1, <1>2

(* What is loaded of a file has the classes of the file and no others.     *)
LEMMA LoadOwn ==
  ASSUME NEW i \in Images, NEW saved \in ClassFiles, saved # NoFile => OnlyClassesOf(i, saved)
  PROVE  Loaded(saved) \in [Pixels -> Images \cup {None}] /\ OnlyClassesOf(i, Loaded(saved))
  BY DEF Loaded, OnlyClassesOf, ClassFiles

-----------------------------------------------------------------------------
LEMMA Initially == ClassifierInit => ClassifierIInv
<1> SUFFICES ASSUME ClassifierInit PROVE ClassifierIInv
  OBVIOUS
<1>1. TypeOK
  <2>1. NoFile \in ClassFiles
    BY Zenon DEF ClassFiles
  <2> QED
    BY <2>1, ClassificationAssumption DEF ClassifierInit, TypeOK, Blank
<1>2. CoveredCounts /\ TitleTellsProgress
  BY BlankCounts DEF ClassifierInit, CoveredCounts, TitleTellsProgress
<1> QED
  BY <1>1, <1>2 DEF ClassifierInit, ClassifierIInv, ShownUnlessUnreadable, OwnClassesOnly, Readable

(* Going to another image keeps the invariant, shown or not.               *)
LEMMA NavigateKeeps ==
  ASSUME ClassifierIInv, NEW to \in Int, Navigate(to), open' = TRUE,
         to \in Images \/ currentIndex # -1
  PROVE  ClassifierIInv'
<1>1. dat' \in [Images -> ClassFiles] /\ OwnClassesOnly'
  BY SaveOwn DEF Navigate
<1>2. failed' \in BOOLEAN /\ (failed => failed')
  BY Zenon DEF Navigate, ClassifierIInv, TypeOK
<1>3. CASE UNCHANGED canvasVars
  <2>1. CoveredCounts' /\ TitleTellsProgress'
    BY <1>2, <1>3
    DEF canvasVars, ClassifierIInv, CoveredCounts, TitleTellsProgress, PixelsWithClass
  <2> QED
    <3>1. \/ currentIndex' \in Unreadable \cap Images
          \/ currentIndex' = currentIndex /\ currentIndex # -1
          \/ currentIndex' \in Images /\ sourceImage' = currentIndex'
      BY DEF Navigate, ShowCurrent, Show
    <3>2. currentIndex' \in Images
      BY <3>1 DEF ClassifierIInv, TypeOK
    <3>3. ShownUnlessUnreadable'
      BY <1>3, <3>1 DEF canvasVars, ClassifierIInv, ShownUnlessUnreadable
    <3>4. sourceImage' # NoImage => OnlyClassesOf(sourceImage, classesData)'
      BY <1>3 DEF canvasVars, ClassifierIInv, OnlyClassesOf
    <3>5. TypeOK'
      BY <1>1, <1>2, <1>3, <3>2 DEF canvasVars, ClassifierIInv, TypeOK
    <3>6. currentIndex' # -1
      BY <3>2 DEF Images
    <3> QED
      BY <1>1, <2>1, <3>3, <3>4, <3>5, <3>6 DEF ClassifierIInv
<1>4. ASSUME NEW painted \in {Loaded(dat'[currentIndex']), Blank},
             currentIndex' \in Readable, Show(currentIndex', painted),
             \/ title' = covered'
             \/ failed' /\ painted = Blank /\ title' = title
      PROVE  ClassifierIInv'
  <2>1. currentIndex' \in Images /\ currentIndex' # -1
    BY <1>4 DEF Readable, Images
  <2>2. painted \in [Pixels -> Images \cup {None}] /\ OnlyClassesOf(currentIndex', painted)
    <3>1. ASSUME painted = Blank
          PROVE  painted \in [Pixels -> Images \cup {None}] /\ OnlyClassesOf(currentIndex', painted)
      BY <3>1 DEF Blank, OnlyClassesOf
    <3>2. dat'[currentIndex'] \in ClassFiles
      BY <1>1, <2>1
    <3>3. dat'[currentIndex'] # NoFile => OnlyClassesOf(currentIndex', dat'[currentIndex'])
      BY <1>1, <1>4 DEF OwnClassesOnly, OnlyClassesOf
    <3> QED
      BY <1>4, <2>1, <3>1, <3>2, <3>3, LoadOwn
  <2>3. covered' \in Nat
    BY <1>4, PixelsFinite DEF Show, PixelsWithClass
  <2>4. TypeOK'
    <3>1. title' \in Nat
      BY <1>4, <2>3 DEF ClassifierIInv, TypeOK
    <3> QED
      BY <1>1, <1>2, <1>4, <2>1, <2>2, <2>3, <3>1, ClassificationAssumption DEF Show, TypeOK
  <2>5. CoveredCounts' /\ TitleTellsProgress'
    <3>1. CoveredCounts' /\ classesData' = painted
      BY <1>4 DEF Show, CoveredCounts, PixelsWithClass
    <3> QED
      BY <1>4, <3>1 DEF CoveredCounts, TitleTellsProgress, PixelsWithClass, Blank
  <2> QED
    BY <1>1, <1>4, <2>1, <2>2, <2>4, <2>5
    DEF Show, ClassifierIInv, ShownUnlessUnreadable, OnlyClassesOf
<1>5. \/ UNCHANGED canvasVars
      \/ \E painted \in {Loaded(dat'[currentIndex']), Blank} :
           /\ currentIndex' \in Readable /\ Show(currentIndex', painted)
           /\ \/ title' = covered'
              \/ failed' /\ painted = Blank /\ title' = title
  BY Zenon DEF Navigate, ShowCurrent
<1> QED
  BY <1>3, <1>4, <1>5

LEMMA Inductive == ClassifierIInv /\ [ClassifierNext]_classifierVars => ClassifierIInv'
<1> SUFFICES ASSUME ClassifierIInv, [ClassifierNext]_classifierVars PROVE ClassifierIInv'
  OBVIOUS
<1>1. CASE UNCHANGED classifierVars
  BY <1>1 DEF classifierVars, ClassifierIInv, TypeOK, CoveredCounts, TitleTellsProgress,
              PixelsWithClass, Blank, ShownUnlessUnreadable, OnlyClassesOf, OwnClassesOnly
<1>2. CASE Launch \/ ShowNextData \/ ShowPreviousData
  <2>1. currentIndex \in Int /\ 0 \in Images /\ (currentIndex # -1 \/ currentIndex + 1 = 0)
    BY ClassificationAssumption DEF ClassifierIInv, TypeOK, Images
  <2>2. PICK to \in {currentIndex + 1, currentIndex - 1} :
           /\ Navigate(to) /\ open' = TRUE
           /\ to \in Images \/ currentIndex # -1
    <3>1. ShowPreviousData => currentIndex # -1
      BY DEF ShowPreviousData, ClassifierIInv
    <3> QED
      BY <1>2, <2>1, <3>1 DEF Launch, ShowNextData, ShowPreviousData
  <2> QED
    BY <2>1, <2>2, NavigateKeeps
<1>3. CASE Close
  <2>1. TypeOK'
    BY <1>3, ClassificationAssumption DEF Close, ClassifierIInv, TypeOK, Blank
  <2>2. CoveredCounts' /\ TitleTellsProgress'
    BY <1>3, BlankCounts DEF Close, CoveredCounts, TitleTellsProgress, PixelsWithClass, Blank
  <2> QED
    BY <1>3, <2>1, <2>2
    DEF Close, ClassifierIInv, ShownUnlessUnreadable, OwnClassesOnly, OnlyClassesOf
<1>4. ASSUME NEW size \in Sizes, UpdateBrushSize(size) PROVE ClassifierIInv'
  BY <1>4 DEF UpdateBrushSize, ClassifierIInv, TypeOK, CoveredCounts, TitleTellsProgress,
              PixelsWithClass, Blank, ShownUnlessUnreadable, OnlyClassesOf, OwnClassesOnly
<1>5. ASSUME NEW x \in Pixels, SetClass(x) PROVE ClassifierIInv'
  <2> DEFINE P == PixelsWithClass(classesData)
             B == Brushed(x) \ P
  <2>1. P \in SUBSET Pixels /\ B \in SUBSET Pixels /\ P \cap B = {}
    BY DEF PixelsWithClass, Brushed
  <2>2. sourceImage \in Images /\ sourceImage # None
    BY <1>5, ClassificationAssumption DEF SetClass, ClassifierIInv, TypeOK, Readable
  <2>3. PixelsWithClass(classesData)' = P \cup B
    BY <1>5, <2>2 DEF SetClass, PixelsWithClass, Brushed
  <2>4. Cardinality(P \cup B) = Cardinality(P) + Cardinality(B)
    BY <2>1, PixelsFinite, FS_Union, FS_EmptySet
  <2>5. CoveredCounts' /\ TitleTellsProgress'
    <3>1. CoveredCounts' /\ title' = covered'
      BY <1>5, <2>3, <2>4 DEF SetClass, ClassifierIInv, CoveredCounts
    <3> QED
      BY <3>1 DEF CoveredCounts, TitleTellsProgress
  <2>6. covered' \in Nat /\ title' \in Nat
    BY <1>5, <2>1, PixelsFinite DEF SetClass, ClassifierIInv, TypeOK
  <2>7. TypeOK'
    BY <1>5, <2>2, <2>6 DEF SetClass, ClassifierIInv, TypeOK
  <2> QED
    BY <1>5, <2>5, <2>7
    DEF SetClass, ClassifierIInv, TypeOK, ShownUnlessUnreadable, OnlyClassesOf, OwnClassesOnly
<1> QED
  BY <1>1, <1>2, <1>3, <1>4, <1>5 DEF ClassifierNext

THEOREM ClassifierInvariance == ClassifierSpec => []ClassifierIInv
  BY Initially, Inductive, PTL DEF ClassifierSpec

(* A class given on one image is never saved to the file of another image  *)
(* that can be decoded, whatever fails and in whatever order the user goes *)
(* back and forth.                                                         *)
THEOREM NothingMisfiled == ClassifierSpec => []OwnClassesOnly
<1>1. ClassifierIInv => OwnClassesOnly
  BY DEF ClassifierIInv
<1> QED
  BY <1>1, ClassifierInvariance, PTL

(* The title tells the progress of the image shown, unless a file could not*)
(* be read and its canvas is still blank.                                  *)
THEOREM ProgressExact == ClassifierSpec => []TitleTellsProgress
<1>1. ClassifierIInv => TitleTellsProgress
  BY DEF ClassifierIInv
<1> QED
  BY <1>1, ClassifierInvariance, PTL

(* Form and provider disagree only over an image that cannot be decoded.   *)
THEOREM DisagreementOnlyOnUnreadable == ClassifierSpec => []ShownUnlessUnreadable
<1>1. ClassifierIInv => ShownUnlessUnreadable
  BY DEF ClassifierIInv
<1> QED
  BY <1>1, ClassifierInvariance, PTL

-----------------------------------------------------------------------------
(* What is painted of an image comes back when it was saved, and what is   *)
(* on the disk of another image is not touched.                            *)
LEMMA SavedComesBack ==
  ASSUME NEW painted \in [Pixels -> Images \cup {None}]
  PROVE  Loaded(painted) = painted
<1>1. painted # NoFile
  BY ClassificationAssumption DEF Pixels
<1> QED
  BY <1>1 DEF Loaded

(* Going to another image with the provider at the image shown, or with no *)
(* image shown.                                                            *)
LEMMA NavigateLosesNothing ==
  ASSUME ClassifierIInv, NEW to \in Int, Navigate(to), ~failed', sourceImage \in {currentIndex, NoImage},
         NEW i \in Images
  PROVE  Classified(i) = Classified(i)'
<1>1. /\ SaveCurrentData
      /\ \/ currentIndex' \in Readable /\ Show(currentIndex', Loaded(dat'[currentIndex']))
         \/ UNCHANGED canvasVars
  BY Zenon DEF Navigate, ShowCurrent
<1>2. /\ classesData \in [Pixels -> Images \cup {None}] /\ dat \in [Images -> ClassFiles]
      /\ sourceImage \in Images \cup {NoImage} /\ NoImage \notin Images
  BY ClassificationAssumption DEF ClassifierIInv, TypeOK, Readable
(* On the disk there is then what the program would have shown.            *)
<1>3. PixelsWithClass(Loaded(dat'[i])) = Classified(i)
  <2>1. CASE sourceImage = i
    <3>1. dat'[i] = classesData
      BY <1>1, <1>2, <2>1 DEF SaveCurrentData
    <3> QED
      BY <1>2, <2>1, <3>1, SavedComesBack DEF Classified
  <2>2. CASE sourceImage # i
    <3>1. dat'[i] = dat[i]
      BY <1>1, <1>2, <2>2 DEF SaveCurrentData
    <3> QED
      BY <2>2, <3>1 DEF Classified
  <2> QED
    BY <2>1, <2>2
<1>4. CASE UNCHANGED canvasVars
  <2>1. CASE sourceImage = i
    BY <1>4, <2>1 DEF canvasVars, Classified, PixelsWithClass
  <2>2. CASE sourceImage # i
    BY <1>3, <1>4, <2>2 DEF canvasVars, Classified, PixelsWithClass, Loaded
  <2> QED
    BY <2>1, <2>2
<1>5. CASE currentIndex' \in Readable /\ Show(currentIndex', Loaded(dat'[currentIndex']))
  <2>1. CASE currentIndex' = i
    BY <1>3, <1>5, <2>1 DEF Show, Classified, PixelsWithClass, Loaded
  <2>2. CASE currentIndex' # i
    BY <1>3, <1>5, <2>2 DEF Show, Classified, PixelsWithClass, Loaded
  <2> QED
    BY <2>1, <2>2
<1> QED
  BY <1>1, <1>4, <1>5

LEMMA StepLosesNothing ==
  ASSUME ClassifierIInv, [ClassifierNext]_classifierVars, open', ~failed', sourceImage \in {currentIndex, NoImage},
         NEW i \in Images
  PROVE  Classified(i) \subseteq Classified(i)'
<1>1. CASE UNCHANGED classifierVars
  BY <1>1 DEF classifierVars, Classified, PixelsWithClass, Loaded
<1>2. CASE Launch \/ ShowNextData \/ ShowPreviousData
  <2>1. currentIndex \in Int
    BY DEF ClassifierIInv, TypeOK, Images
  <2>2. Navigate(currentIndex + 1) \/ Navigate(currentIndex - 1)
    BY <1>2 DEF Launch, ShowNextData, ShowPreviousData
  <2>3. currentIndex + 1 \in Int /\ currentIndex - 1 \in Int
    BY <2>1
  <2> QED
    BY <2>2, <2>3, NavigateLosesNothing
<1>3. ASSUME NEW size \in Sizes, UpdateBrushSize(size)
      PROVE  Classified(i) \subseteq Classified(i)'
  BY <1>3 DEF UpdateBrushSize, Classified, PixelsWithClass, Loaded
<1>4. ASSUME NEW x \in Pixels, SetClass(x) PROVE Classified(i) \subseteq Classified(i)'
  <2>1. sourceImage # None /\ sourceImage' = sourceImage /\ dat' = dat
    BY <1>4, ClassificationAssumption DEF SetClass, ClassifierIInv, TypeOK, Readable
  <2>2. CASE sourceImage = i
    BY <1>4, <2>1, <2>2 DEF SetClass, Classified, PixelsWithClass
  <2>3. CASE sourceImage # i
    BY <2>1, <2>3 DEF Classified, PixelsWithClass, Loaded
  <2> QED
    BY <2>2, <2>3
<1> QED
  BY <1>1, <1>2, <1>3, <1>4 DEF ClassifierNext, Close

(* No step of the program loses a class given to a pixel as long as        *)
(* nothing fails, the provider is at the image shown and the program is    *)
(* not closed: going to another image and coming back shows what was there.*)
THEOREM WorkIsKept == ClassifierSpec => NothingLost
<1>1. ClassifierIInv /\ [ClassifierNext]_classifierVars =>
        [open' /\ ~failed' /\ sourceImage \in {currentIndex, NoImage} =>
           \A i \in Images : Classified(i) \subseteq Classified(i)']_classifierVars
  BY StepLosesNothing
<1> QED
  BY <1>1, ClassifierInvariance, PTL DEF ClassifierSpec, NothingLost
==============================================================================
