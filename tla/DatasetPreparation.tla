------------------------- MODULE DatasetPreparation -------------------------
(***************************************************************************)
(* The samples of the classifier, preparation/*.py: generate_arff_file     *)
(* writes the arff file, label_samples lets the user give each sample a    *)
(* class, and generate_arff_attributes computes the attributes.  The last  *)
(* two read the whole file, work, and write it again; they are run by hand,*)
(* one after the other, in any order and any number of times, and each may *)
(* be stopped at any moment.                                               *)
(*                                                                         *)
(* `file' is what is on the disk: the header, whole or cut short, the rows *)
(* that are complete, and perhaps the beginning of one more.  Its rows are *)
(* a set, as a Python dict is iterated in an order of its own, but for the *)
(* one it ends in without a newline, which is that of the sample `last'.   *)
(* A row has the values of some attributes, left out here: none, as many   *)
(* as the header of generate_arff_attributes has, or fewer, because that   *)
(* header has 26 columns for the histogram of local binary patterns and    *)
(* the row lbp.max() + 1 values.                                           *)
(***************************************************************************)
EXTENDS FiniteSets

CONSTANTS
  Samples,     (* the samples of the samples directory *)
  Classes,     (* forest, water, grass, dirty, human-made *)
  Unlabelled,  (* the class ? *)
  NoSample

ASSUME PreparationAssumption ==
  IsFiniteSet(Samples) /\ Unlabelled \notin Classes /\ NoSample \notin Samples

VARIABLES
  file,     (* the arff file *)
  program,  (* what runs: nothing, a program that writes, or the labelling *)
  data,     (* the rows it has in memory *)
  todo,     (* the samples it has not come to *)
  input,    (* the file label_samples or generate_arff_attributes last read *)
  complete, (* history: the last program ran to its end *)
  given     (* history: given[k], the class of k when last written *)

vars == <<file, program, data, todo, input, complete, given>>

Writers == {"generate", "update", "extract"}

Row == [id : Samples, attributes : {"none", "fewer", "all"},
        class : Classes \cup {Unlabelled}]

(* `cut' is the sample whose row is begun and not complete.                *)
Files == [header : {"cut", "plain", "full"}, rows : SUBSET Row,
          last : Samples \cup {NoSample}, cut : Samples \cup {NoSample}]

Ids(rows) == {r.id : r \in rows}

-----------------------------------------------------------------------------
(* Writing the file: opening it empties it, the header follows, and each   *)
(* row goes out in some fifty pieces.  The system writes what is buffered  *)
(* at any time, so that a program that is stopped leaves any beginning of  *)
(* the file it would have written.                                         *)
Empty == [header |-> "cut", rows |-> {}, last |-> NoSample, cut |-> NoSample]

(* update_arff_file writes the header it read.                             *)
Header ==
  CASE program = "generate" -> "plain"
    [] program = "extract" -> "full"
    [] OTHER -> input.header

WriteHeader ==
  /\ program \in Writers /\ file.header = "cut"
  /\ file' = [file EXCEPT !.header = Header]
  /\ UNCHANGED <<program, data, todo, input, complete, given>>

(* The newline that ends the row before it, and a part of the row.         *)
BeginRow(r) ==
  /\ program \in Writers /\ file.header # "cut" /\ file.cut = NoSample
  /\ r \in data /\ r.id \in todo
  /\ file' = [file EXCEPT !.last = NoSample, !.cut = r.id]
  /\ UNCHANGED <<program, data, todo, input, complete, given>>

(* Variants with a bug: `others' is empty; the class is not carried over.  *)
Written_NoOthers(r) ==
  IF program = "extract" THEN {[r EXCEPT !.attributes = a] : a \in {"fewer", "all"}}
  ELSE {[r EXCEPT !.attributes = "none"]}

Written_NoClass(r) ==
  IF program = "extract"
  THEN {[r EXCEPT !.attributes = a, !.class = Unlabelled] : a \in {"fewer", "all"}}
  ELSE {r}

(* What becomes of a row in memory: generate_arff_attributes puts the      *)
(* attributes in, and there are fewer than the header's when no pixel of   *)
(* the sample has the highest pattern; label_samples writes it as it is.   *)
Written(r) ==
  IF program = "extract" THEN {[r EXCEPT !.attributes = a] : a \in {"fewer", "all"}}
  ELSE {r}

EndRow(r) ==
  /\ program \in Writers /\ r \in data /\ file.cut = r.id
  /\ \E w \in Written(r) :
       file' = [file EXCEPT !.rows = @ \cup {w}, !.last = r.id, !.cut = NoSample]
  /\ todo' = todo \ {r.id}
  /\ given' = IF program = "update" THEN [given EXCEPT ![r.id] = r.class] ELSE given
  /\ UNCHANGED <<program, data, input, complete>>

(* Only update_arff_file ends its last row with a newline.                 *)
Finish ==
  /\ program \in Writers /\ file.header # "cut" /\ file.cut = NoSample /\ todo = {}
  /\ file' = IF program = "update" THEN [file EXCEPT !.last = NoSample] ELSE file
  /\ program' = "none"
  /\ complete' = TRUE
  /\ UNCHANGED <<data, todo, input, given>>

(* The user stops the program or the system does, or an image is missing   *)
(* and an exception ends it: what has been written stays.                  *)
Stop ==
  /\ program # "none"
  /\ program' = "none"
  /\ UNCHANGED <<file, data, todo, input, complete, given>>

-----------------------------------------------------------------------------
(* generate_arff_file: a row for each sample, without attributes or class. *)
GenerateArffFile ==
  /\ program = "none"
  /\ program' = "generate"
  /\ file' = Empty
  /\ data' = [id : Samples, attributes : {"none"}, class : {Unlabelled}]
  /\ todo' = Samples
  /\ given' = [k \in Samples |-> Unlabelled]
  /\ complete' = FALSE
  /\ UNCHANGED input

(* There is no file, or none with a header, which the two other programs   *)
(* cannot read either.                                                     *)
Init ==
  /\ file = Empty /\ input = Empty
  /\ program = "none" /\ data = {} /\ todo = {} /\ complete = FALSE
  /\ given = [k \in Samples |-> Unlabelled]

(* parse_arff_content takes the lines after @DATA but for the last one,    *)
(* which it takes for the empty one after a final newline.                 *)
ParseArffContent(f) == {r \in f.rows : r.id # f.last}

(* Without a line @DATA it runs past the end of the lines, an IndexError   *)
(* before the file is opened for writing: nothing changes.                 *)
Load(name) ==
  /\ program = "none"
  /\ file.header # "cut"
  /\ program' = name
  /\ data' = ParseArffContent(file)
  /\ input' = file
  /\ complete' = FALSE

-----------------------------------------------------------------------------
(* label_samples.                                                          *)
StartLabelling ==
  /\ Load("label")
  /\ todo' = {r.id : r \in {q \in data' : q.class = Unlabelled}}
  /\ UNCHANGED <<file, given>>

(* The user answers for the sample shown: a class, or ? to leave it.       *)
LabelSample(r, c) ==
  /\ program = "label"
  /\ r \in data /\ r.id \in todo
  /\ data' = (data \ {r}) \cup {[r EXCEPT !.class = c]}
  /\ todo' = todo \ {r.id}
  /\ UNCHANGED <<file, program, input, complete, given>>

(* Variant with a bug: samples without a class are left out.               *)
UpdateArffFile_OnlyLabelled ==
  /\ program = "label"
  /\ program' = "update"
  /\ file' = Empty
  /\ todo' = Ids({r \in data : r.class # Unlabelled})
  /\ UNCHANGED <<data, input, complete, given>>

(* All samples are labelled or the user pressed Escape.                    *)
UpdateArffFile ==
  /\ program = "label"
  /\ program' = "update"
  /\ file' = Empty
  /\ todo' = Ids(data)
  /\ UNCHANGED <<data, input, complete, given>>

(* generate_arff_attributes: reads the file, then writes it a row at a time*)
(* as it computes the attributes.                                          *)
StartExtraction ==
  /\ Load("extract")
  /\ todo' = Ids(data')
  /\ file' = Empty
  /\ UNCHANGED given

-----------------------------------------------------------------------------
Next ==
  \/ GenerateArffFile \/ StartLabelling \/ UpdateArffFile \/ StartExtraction
  \/ WriteHeader \/ Finish \/ Stop
  \/ \E r \in data : BeginRow(r) \/ EndRow(r)
  \/ \E r \in data, c \in Classes \cup {Unlabelled} : LabelSample(r, c)

Spec == Init /\ [][Next]_vars

-----------------------------------------------------------------------------
(* In whatever order the programs were run and wherever they were stopped, *)
(* the file is a table under a header of its kind.  A sample has one row,  *)
(* counting the row that is cut short; the rows that are complete have no  *)
(* attributes under the header of generate_arff_file and have some, though *)
(* perhaps fewer than its columns, under that of generate_arff_attributes; *)
(* and when the last program ran to its end no row and no header is cut.   *)
HeaderOf(r) == IF r.attributes = "none" THEN "plain" ELSE "full"

RowsFitHeader ==
  /\ Cardinality(Ids(file.rows)) = Cardinality(file.rows)
  /\ file.cut \notin Ids(file.rows)
  /\ \A r \in file.rows : HeaderOf(r) = file.header
  /\ program = "none" /\ complete => file.header # "cut" /\ file.cut = NoSample

(* The class a sample was last written with, by the user of label_samples  *)
(* or as ?, is the class of its row, through every later run.              *)
LabelsKept == \A r \in file.rows : r.class = given[r.id]

(* A program that runs to its end loses at most one sample of the file it  *)
(* read: the last one, when the file does not end in a newline.            *)
OnlyTheLastIsLost ==
  program = "none" /\ complete =>
    Ids(input.rows) \ Ids(file.rows) \subseteq {input.last}

(* Updating the attributes "spares id and class", says the comment of      *)
(* run_dataset_preparation.sh: after a run that was not stopped each       *)
(* sample is still there, with its class.                                  *)
SparesIdAndClass ==
  [][program = "extract" /\ Finish =>
       \A r \in input.rows : \E q \in file'.rows : q.id = r.id /\ q.class = r.class]_vars

-----------------------------------------------------------------------------
(* The inductive invariant.                                                *)
PreparationTypeOK ==
  /\ file \in Files /\ input \in Files
  /\ program \in {"none", "label"} \cup Writers
  /\ data \subseteq Row /\ todo \subseteq Samples
  /\ complete \in BOOLEAN
  /\ given \in [Samples -> Classes \cup {Unlabelled}]

OneRowEach(rows) == \A r, q \in rows : r.id = q.id => r = q

Uniform(rows, header) == \A r \in rows : HeaderOf(r) = header

(* The rows in memory are of the samples that were read.                   *)
LabellingOK == Ids(data) = Ids(ParseArffContent(input)) /\ Uniform(data, input.header)

(* While a program writes, a row in memory is in the file or to come, under*)
(* the header of the program.                                              *)
WritingOK ==
  /\ Ids(data) = Ids(file.rows) \cup todo /\ Ids(file.rows) \cap todo = {}
  /\ file.cut \in todo \cup {NoSample}
  /\ file.header \in {"cut", Header} /\ Header # "cut"
  /\ file.header = "cut" => file.rows = {} /\ file.cut = NoSample
  /\ program # "extract" => Uniform(data, Header)
  /\ program = "generate" => Ids(data) = Samples
  /\ program # "generate" => Ids(data) = Ids(ParseArffContent(input))
  /\ program # "update" => \A r \in data : r.class = given[r.id]

IInv ==
  /\ PreparationTypeOK
  /\ OneRowEach(file.rows) /\ OneRowEach(input.rows) /\ OneRowEach(data)
  /\ Uniform(file.rows, file.header) /\ LabelsKept
  /\ file.cut \notin Ids(file.rows)
  /\ program # "none" => ~complete
  /\ program = "none" /\ complete => file.header # "cut" /\ file.cut = NoSample
  /\ program = "label" => LabellingOK /\ input.header # "cut"
  /\ program \in Writers => WritingOK
  /\ OnlyTheLastIsLost
=============================================================================
