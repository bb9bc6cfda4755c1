------------------------ MODULE ManualClassification ------------------------
(***************************************************************************)
(* The manual classifier, VisualClassifierForm.java with its ImageCanvas   *)
(* and ImageDataProvider: the user paints classes over an image and goes   *)
(* to the next or the previous one, which saves the one painted and loads  *)
(* what was saved of the other.                                            *)
(*                                                                         *)
(* The form shows `sourceImage', the provider stands at `currentIndex'; it *)
(* is the provider that names the file.  An image that cannot be decoded   *)
(* moves the index and not the image shown.                                *)
(*                                                                         *)
(* An image is one row of pixels.  A class is abstracted to the image on   *)
(* which the user gave it, and the class buttons are left out.  The canvas *)
(* has the size of its image: the window is not resized.                   *)
(***************************************************************************)
EXTENDS Integers, FiniteSets

CONSTANTS
  NumImages,   (* the .jpg files of the directory, 0 .. NumImages - 1 *)
  Unreadable,  (* those ImageIO.read returns null for, or throws *)
  Width,       (* the pixels of an image *)
  Sizes,       (* what the brush slider can be set to *)
  NoImage, NoFile, None  (* None is the class of a pixel without one *)

Images == 0..(NumImages - 1)
Pixels == 1..Width
Readable == Images \ Unreadable

ASSUME ClassificationAssumption ==
  /\ NumImages \in Nat \ {0} /\ Unreadable \subseteq Images
  /\ Width \in Nat
  /\ Sizes \subseteq Nat /\ 10 \in Sizes
  /\ NoImage \notin Images /\ None \notin Images
  /\ \A n \in 0..Width : NoFile \notin [1..n -> Images \cup {None}]

VARIABLES
  open,         (* the program runs *)
  currentIndex,
  sourceImage,  (* the image shown, or NoImage *)
  classesData,  (* the canvas: the class of each pixel *)
  covered,      (* how many pixels have a class, kept by the canvas *)
  brushSize,    (* the canvas's *)
  title,        (* the pixels whose share the title tells, 0 in a new frame *)
  dat,          (* dat[i]: the .dat file of image i, or NoFile *)
  failed        (* history: a save or a load has failed since the start *)

canvasVars == <<sourceImage, classesData, covered, brushSize, title>>
classifierVars ==
  <<open, currentIndex, sourceImage, classesData, covered, brushSize, title, dat, failed>>

Blank == [p \in Pixels |-> None]
PixelsWithClass(data) == {p \in Pixels : data[p] # None}

ClassifierInit ==
  /\ open = FALSE
  /\ currentIndex = -1 /\ sourceImage = NoImage
  /\ classesData = Blank /\ covered = 0
  /\ brushSize = 10 /\ title = 0
  /\ dat = [i \in Images |-> NoFile]
  /\ failed = FALSE

-----------------------------------------------------------------------------
(* A file has the classes one after the other; a pixel it has none for is  *)
(* left without a class by loadCurrentData.                                *)
Loaded(file) ==
  [p \in Pixels |-> IF file # NoFile /\ p \in DOMAIN file THEN file[p] ELSE None]

(* Variant with a bug: nothing is saved.                                   *)
SaveCurrentData_Never == UNCHANGED dat

(* saveCurrentData: the canvas goes to the file of currentIndex.           *)
SaveCurrentData ==
  dat' = IF sourceImage = NoImage THEN dat
         ELSE [dat EXCEPT ![currentIndex] = classesData]

(* The disk is full: the old file is deleted and the new one cut short, or *)
(* not made at all.                                                        *)
SaveFails ==
  /\ sourceImage # NoImage
  /\ \E file \in {[p \in 1..n |-> classesData[p]] : n \in 0..(Width - 1)} \cup {NoFile} :
       dat' = [dat EXCEPT ![currentIndex] = file]

(* Variant with a bug: covered is not set to 0 before the pixels with a    *)
(* class are counted.                                                      *)
Show_KeepCovered(i, data) ==
  /\ sourceImage' = i
  /\ brushSize' = 10
  /\ classesData' = data
  /\ covered' = covered + Cardinality(PixelsWithClass(data))

(* updateScreen makes a new canvas, setClassesData counts its classes.     *)
Show(i, data) ==
  /\ sourceImage' = i
  /\ brushSize' = 10
  /\ classesData' = data
  /\ covered' = Cardinality(PixelsWithClass(data))

(* loadCurrentData; when the file cannot be read the canvas stays blank and*)
(* updateFrameTitle is not called.                                         *)
ShowCurrent(loaded) ==
  LET i == currentIndex'
  IN  \/ i \in Readable /\ loaded /\ Show(i, Loaded(dat'[i])) /\ title' = covered'
      \/ i \in Readable /\ ~loaded /\ dat'[i] # NoFile /\ Show(i, Blank) /\ UNCHANGED title
      \/ i \in Unreadable /\ loaded /\ UNCHANGED canvasVars

(* Variant with a bug: the save comes after the move.                      *)
Navigate_SaveLast(to) ==
  /\ to \in Images /\ currentIndex' = to
  /\ dat' = IF sourceImage = NoImage THEN dat ELSE [dat EXCEPT ![to] = classesData]
  /\ ShowCurrent(TRUE)
  /\ UNCHANGED failed

(* showNextData and showPreviousData: save, then move and show; past the   *)
(* ends there is a message only.                                           *)
Navigate(to) ==
  \E saved, loaded \in BOOLEAN :
    /\ IF saved THEN SaveCurrentData ELSE SaveFails
    /\ \/ to \in Images /\ currentIndex' = to /\ ShowCurrent(loaded)
       \/ to \notin Images /\ loaded /\ UNCHANGED <<currentIndex, canvasVars>>
    /\ failed' = (failed \/ ~saved \/ ~loaded)

ShowNextData == open /\ Navigate(currentIndex + 1) /\ UNCHANGED open
ShowPreviousData == open /\ Navigate(currentIndex - 1) /\ UNCHANGED open

(* The constructor of the form.                                            *)
Launch == ~open /\ open' = TRUE /\ Navigate(currentIndex + 1)

-----------------------------------------------------------------------------
(* setClass: the pixels under the brush, within the canvas; then           *)
(* updateFrameTitle.                                                       *)
Brushed(x) == {p \in Pixels : x - brushSize \div 2 <= p /\ p <= x + brushSize \div 2}

SetClass(x) ==
  /\ open /\ sourceImage # NoImage
  /\ classesData' = [p \in Pixels |-> IF p \in Brushed(x) THEN sourceImage ELSE classesData[p]]
  /\ covered' = covered + Cardinality(Brushed(x) \ PixelsWithClass(classesData))
  /\ title' = covered'
  /\ UNCHANGED <<open, currentIndex, sourceImage, brushSize, dat, failed>>

(* updateBrushSize; without a canvas it throws.                            *)
UpdateBrushSize(size) ==
  /\ open /\ sourceImage # NoImage
  /\ brushSize' = size
  /\ UNCHANGED <<open, currentIndex, sourceImage, classesData, covered, title, dat, failed>>

(* The window is closed or the program killed: nothing is saved.           *)
Close ==
  /\ open
  /\ open' = FALSE
  /\ currentIndex' = -1 /\ sourceImage' = NoImage
  /\ classesData' = Blank /\ covered' = 0
  /\ brushSize' = 10 /\ title' = 0
  /\ failed' = FALSE
  /\ UNCHANGED dat

-----------------------------------------------------------------------------
ClassifierNext ==
  \/ Launch \/ ShowNextData \/ ShowPreviousData \/ Close
  \/ \E x \in Pixels : SetClass(x)
  \/ \E size \in Sizes : UpdateBrushSize(size)

ClassifierSpec == ClassifierInit /\ [][ClassifierNext]_classifierVars

-----------------------------------------------------------------------------
ClassFiles == {NoFile} \cup UNION {[1..n -> Images \cup {None}] : n \in 0..Width}

TypeOK ==
  /\ open \in BOOLEAN
  /\ currentIndex \in Images \cup {-1}
  /\ sourceImage \in Readable \cup {NoImage}
  /\ classesData \in [Pixels -> Images \cup {None}]
  /\ covered \in Nat /\ title \in Nat
  /\ brushSize \in Sizes
  /\ dat \in [Images -> ClassFiles]
  /\ failed \in BOOLEAN

(* The canvas's counter agrees with its pixels.                            *)
CoveredCounts == covered = Cardinality(PixelsWithClass(classesData))

(* The progress in the title is that of the image shown, through painting  *)
(* over, going back and forth, images that cannot be decoded and saves that*)
(* fail; only a file that cannot be read leaves the title of the image     *)
(* before, and that no longer than the canvas is blank.                    *)
TitleTellsProgress ==
  sourceImage # NoImage =>
    \/ title = Cardinality(PixelsWithClass(classesData))
    \/ failed /\ classesData = Blank

(* The provider stands at another image than the one shown only if that    *)
(* one cannot be decoded.                                                  *)
ShownUnlessUnreadable ==
  sourceImage # NoImage /\ sourceImage # currentIndex => currentIndex \in Unreadable

OnlyClassesOf(i, data) == \A p \in DOMAIN data : data[p] \in {i, None}

(* No class given on one image ends up in the file of another that can be  *)
(* read, though the form and the provider may disagree and saves fail.     *)
OwnClassesOnly ==
  \A i \in Readable : dat[i] # NoFile => OnlyClassesOf(i, dat[i])

(* The inductive invariant: besides, the canvas only has classes given on  *)
(* the image shown, and a program that runs is at an image.                *)
ClassifierIInv ==
  /\ TypeOK
  /\ CoveredCounts /\ TitleTellsProgress
  /\ ShownUnlessUnreadable
  /\ sourceImage # NoImage => open /\ OnlyClassesOf(sourceImage, classesData)
  /\ open <=> currentIndex # -1
  /\ OwnClassesOnly

(* What the program would show of image i.                                 *)
Classified(i) ==
  PixelsWithClass(IF sourceImage = i THEN classesData ELSE Loaded(dat[i]))

(* As long as nothing fails and the provider is at the image shown, no     *)
(* pixel loses its class, of that image or another, but by closing the     *)
(* program.                                                                *)
NothingLost ==
  [][open' /\ ~failed' /\ sourceImage \in {currentIndex, NoImage} =>
       \A i \in Images : Classified(i) \subseteq Classified(i)']_classifierVars
=============================================================================
