# forest-classifier: TLA+ models, model checks and proofs

forest-classifier collects tools to segment aerial pictures of the Amazon forest,
to label the segments and to train classifiers with them. Most of its bytes are
numeric code of others (gPb, jseg, meanshift, fseg, SRM). What has state,
concurrency, a protocol or a discrete algorithm of its own is modelled here:

| part | source | modules |
|---|---|---|
| manual segmentation server | `segmentation/manual/nodeserver.js` | `AnnotationServer` |
| the experiment: pages, network, server | `nodeserver.js`, `src/js/functions.js` | `SegmentationService`, `ManualSegmentation_proofs` |
| drawing editor of a page | `functions.js` | `RegionEditor`, `ManualSegmentation_proofs` |
| `.dat` file, from the page to the benchmark | `functions.js`, `nodeserver.js`, `benchmark/bench_common.py` | `DatFile` |
| readers/writers lock of gPb | `synchronized_rw.cc` | `SynchronizedRW`, `Concurrent_proofs`, abstract: `ReadersWriters` |
| claiming two objects | `synchronizable.cc`, `unsynchronized.cc` | `Synchronizable`, `Synchronizable_proofs` |
| semaphore | `semphore.cc` | `Semaphore`, `Concurrent_proofs` |
| child threads of gPb | `child_thread.cc`, `thread.cc` | `ChildThreads`, `Concurrent_proofs` |
| graph segmentation mseg | `disjoint-set.h`, `segment-graph.h`, `segment-image.h` | `Mseg`, `Mseg_proofs`, abstract: `RegionMerging` |
| regions of EDISON mean shift | `msImageProcessor.cpp`, `RAList.cpp` | `MeanShift`, `MeanShift_proofs` |
| ultrametric contour map of gPb | `ucm_mean_pb.cpp` | `Ucm`, `Ucm_proofs`, abstract: `RegionMerging` |
| arff programs | `preparation/*.py` | `DatasetPreparation`, `Labelling_proofs` |
| manual classifier (Java) | `VisualClassifierForm`, `ImageCanvas`, `ImageDataProvider` | `ManualClassification`, `Labelling_proofs` |

Each `MC*` module instantiates the module of its name for TLC; each `.cfg` is one run.
`FiniteSums` holds the lemmas that several proofs share.
`PROJECT.json` maps every definition to the lines it stands for, and lists the
runs, a mutant for every property, the hazards and the theorems.

## Inventory

**Manual segmentation server.** State: none in memory; `dat/<user>/NNNNN.dat` on
the disk. Operations: `getNewImage`, `saveData`, `checkUserState`, static files.
It is called by the pages over HTTP. Hard: neither request names the image, so
"the current image of the user" is worked out twice, once to show it and once to
file it, with other users' saves in between; an exception in a handler ends
the process; a write may be cut short. Correct when no image gets more than
`maxPerImage` (5) segmentations, none is skipped, images fill up from the first,
and no file is written over.

**Page (functions.js).** State: the region being drawn, the finished regions in
three parallel variables, the mode, which buttons are enabled, the image.
Operations: mouse, buttons, hotkeys (which reach disabled buttons), two requests
with callbacks and no error callback. Hard: the callback that gives an image clears
the regions, and the image is decoded and drawn later; clicks in between are put on
the old picture. Correct when the three variables agree, a region has one type, and
what is filed is what was drawn, on that image.

**Login page.** Asks `checkUserState` and opens the help or the segmentation page.

**gPb threads.** `synchronized_rw` (three mutexes and a counter), `synchronizable`
(identities, claiming two objects in order of identity), `unsynchronized`,
`semphore` (two mutexes and a value), `thread`, `child_thread`,
`auto_parallelize` (start, join, split of the processors, rethrown exceptions),
`counter`, `synchronized`. They are used by the collections and by the parallel
algorithms. Correct when a writer is alone, waiting always ends, claims of two
objects never wait in a circle, and no wake-up is lost.

**Dataset preparation.** State: the arff file, and the rows a running program has
in memory. `generate_samples`, `generate_arff_file`, `label_samples`,
`generate_arff_attributes` are run by hand; the last two read the whole file and
write it again. Hard: a program stopped half-way, which leaves a header or a row cut
short, and who writes the final newline. Correct when the file stays a table and no label is lost.

**Dataset conversion and ensemble.** `convert_*`, `split_database_by_class`,
`gather_ensemble_*`, driven by `run_*.sh`: functions over rows and votes, and
temporary files that outlive a step that failed.

**Manual classifier.** State: image list and index in `ImageDataProvider`, image
shown and brush in `VisualClassifierForm`, class of each pixel and their count in
`ImageCanvas`, one file per image. Hard: form and provider each have their notion
of the current image; save deletes the file first; a load that fails leaves the title as it
was. Correct when classes go to the file of the image they were given on, the title
tells the progress of the image shown and nothing is lost going back and forth. `ARFFGenerator` and its data classes read the files again.

**mseg.** State: the disjoint-set forest, the thresholds, the sorted edges. One
pass joins components along the edges from the lightest, a second joins those
that are too small, a third paints. Hard: the threshold of a component lives at
its root and roots change; edges of equal weight come in any order; the second
pass goes over each edge once though each join makes new neighbours. Correct when
the result is what the paper of Felzenszwalb and Huttenlocher promises and no
small component is left.

**EDISON mean shift.** `Segment` filters the image (numeric), `Connect` and `Fill`
label it, `TransitiveClosure` joins neighbouring regions of like modes through
canonical elements kept in the adjacency list, `Prune` joins small regions to
their closest neighbour. Correct when labels and counts stay those of the
same regions, and closures join chains of alike regions, neither more nor less.

**Ultrametric contour map.** State: the regions with their boundaries and
neighbours, a priority queue in which entries of the past are left, the map.
Correct when merging energies never fall (the code ends with a message when they
do), averages are those of the image, and the map has closed contours.

**Benchmark.** Reads the `.dat` files and the segmenters' output, compares them.

**Others.** SRM, jseg, fseg, the filter of mean shift, the contour detectors and
eigenvectors of gPb, learning: numeric.

## Modules

### AnnotationServer
`dirs`, `dat` and `up` are the directories, the files and whether the process
runs. Node runs a handler from its first line to its last, all file calls being
synchronous, so `ProcessNewImage` and `ProcessSaveData` are one action each;
both work out the number by `IsCurrentImageNumber` (`getCurrentImageNumber`: the
first number after the user's last file that fewer than `maxPerImage` users have).
A `getNewImage` with no file left ends the process, and so does a `saveData`
whose write fails, after it has created the file (`Partial`). `Restart` is the
process manager. `MaxNumber` bounds the file numbers (the code has five digits).

### SegmentationService
The server, a set of pages, and a bag of requests and replies between them: a bag
because a page may send the same request twice and the browser uses several
connections. `userID[s]` is the user in the page's address; several pages may
have the same. A reload drops the replies to the old page and leaves its requests
on their way. `Lose` is a broken connection.

What the canvas has (`shown`) need not be what the global variable `image` would draw
(`picture`) nor what `image.src` was last set to (`loading`). `LoadCanvasImage` makes a
new, empty `image` and leaves the canvas alone; `ImageArrives` is the callback, which
sets the source and clears the regions; `ImageDrawn` is `image.onload`; and a click, which
the user makes on what the canvas has, redraws it with what `image` has (`DrawRegion`; the
other handlers that redraw are `Redraw`).
A region is abstracted to the images on the canvas when its points were put, and the
page's regions to the set of those images, so that a file tells whose image it shows and
a drawing may be seen to mix two. Undo and Delete last leave any part of it;
`MaxAtUndo` bounds the messages under way when they do, `MaxAtFault` those under way when
a message is lost or a write fails.

`CarefulSpec` describes users who have one page each and do one thing at a time.
They wait until the image is drawn, and load the page again when a click has cleared
it. There requests and images are lost only while the server is down.

### RegionEditor and DatFile
Every event handler is an action. The hotkeys reach the handlers of disabled
buttons, but for the two mode buttons whose hotkey looks first; hence no guard on
`SaveRegion`, `Undo` and `DeleteLast` but the code's own. `DatFile` follows the
data: jQuery turns an array of arrays into joined values, `querystring.parse`
gives a string for one value, `createDatFileContent` pairs coordinate j with the
one half the list further, `__convert_dat_to_image` draws the lines. A drawing is
the set of its line segments. From a point to itself (a click repeated, a closed
region of one point) the canvas strokes nothing (`Visible`), whereas `cv.line` draws a
dot. So file and canvas differ, and `FileShowsTheCanvas` says by how much: the file has
the canvas's segments, and besides only dots, each at the end of a segment or, for a
region all of whose points are at one place, there (`Spots`), where the canvas shows
nothing.

### ReadersWriters, SynchronizedRW
`SynchronizedRW` has a step for each mutex operation of `read_lock`,
`read_unlock`, `write_lock` and `write_unlock`. A mutex is a Boolean: pthread
gives a free mutex to any thread that asks, and `_write_mutex` is locked by the
first reader and unlocked by the last, another thread (undefined for a default
mutex in POSIX; what Linux does is modelled). `suspended` and `ahead` are history,
for the order of arrival only. `ReadersWriters` is what the header promises; the
refinement maps *entering* to the thread between gate and access, *readers* to
those counted, *writer* to the one that writes.

### Synchronizable
`Construct` issues identities with the counter in its width (`IdLimit`), starting
anywhere, since objects come and go. Objects that are constructed stay: an
identity is issued again only after 2^w objects. The locks are those of
`ReadersWriters`, which `SynchronizedRW` implements. `First` and `Second` are the
order of the claims, `Reads` tells what each of the four kinds of claim asks for.

### Semaphore
`acquire` has three steps (the access mutex, the decrement under the value mutex,
the unlock), `release` two. A release that would exceed `MaxValue` is not called:
the value of the code is an unsigned long.

### ChildThreads
A job is a `run()`; one with children is a call of `child_thread::run`, for two
children (`Pairs`) or for a collection. `Groups` is how the code divides: a pair
on one processor in the thread of the caller, a pair on more in two threads, a
collection with enough processors in a thread for each child, and else in as many
groups as processors. `StartThread`, `Join` and `Raise` are the three loops of
`start`; a thread runs the members of its group and unlocks its join lock at the
end (`Leave`). A leaf returns or throws (`Failures`); the exception is one that
`child_runnable::run` catches. `pthread_create` succeeds.

### RegionMerging and Mseg
`Mseg` has a step for each turn of each loop, that of `find` included, since the
forest changes while the code holds the results of earlier finds (`a`, `b`). The
image after smoothing is an input; a threshold `w + c/size` is the pair of `w` and
`size`. Equal edges are taken in any order. `part` is history: the component of a
pixel as a set, which the forest has to agree with. `RegionMerging` is what any
segmenter that merges promises, and `Mseg` implements it.

### MeanShift
One action for each turn of the loops of `Connect`, `Fill`, `TransitiveClosure`
and `Prune`. The image has one channel; a mode is the pair of its sum and the
region's point count, which makes averages exact. Adjacency is worked out from
the labels by `Neighbours`, what `BuildRAM` and `RAList::Insert` build. `Takes` is the test
of a neighbour in `Fill`, `Found` the neighbours that pass it, in the code's order. The
neighbours of a pixel are computed as in the code, without a test for the ends of
a row. `Rounds` is the 10 of the loop. `before` is history: the regions a closure
began with. That a chain of near regions leads from one region to another is said by
`Apart`: no set of regions that is near nothing outside it has the one and not the other.

### Ucm
`Discard` and `Merge` are one turn of the loop, with what is popped; `Complete` is
the last step. `neighbors[c]` is a map, as in the code, with entries for regions
that are gone until the code drops them. The queue is a set: entries that are
equal are handled alike, the second being discarded. Averages are in units that
every length divides, so that `==` on them is that of rational numbers; the code
compares doubles.

### DatasetPreparation
The file has a header (that of `generate_arff_file`, that of
`generate_arff_attributes`, or one cut short), complete rows, at most one row that is
begun (`cut`), and `last`, the row that has no newline after it. A program empties the
file and writes it in small pieces, of which the system may have any first part on the
disk: `WriteHeader`, then `BeginRow` and `EndRow` for each row, then `Finish`. `Stop`
comes between any two: an interrupt, the system, or an exception at an image that is
missing. A reader drops the last line, whole or not; on a file without a whole header it
fails before it opens the file for writing, so that only `generate_arff_file` goes on
from there. Python's dict order is arbitrary, so any row may be last and samples are
labelled or extracted in any order. The header of `generate_arff_attributes` has 26 columns for the histogram of
patterns and a row `lbp.max() + 1` values, so a row with attributes may have fewer than
the header (`Written`).

### ManualClassification
`currentIndex` is the provider's, `sourceImage` the form's. `Navigate` is the save
and the move of both buttons; the save and the load may fail (`failed`). An image
is a row of pixels and a class is the image it was given on, so that a class in a
wrong file shows. `title` is the number of pixels whose percentage the title tells:
painting and a load that succeeds set it, a load that throws leaves it with the
percentage of the image before.

## Runs

| run | shows | bounds |
|---|---|---|
| `segmentation_service` | page and server agree until the image is settled; misfiled only then, a drawing mixes two images only then; quota, no image left behind, no file written over | 2 pages, of one user or two, 2 images, quota 1, 2 messages: enough for a repeated save, two answers in either order, points put while an image is decoded and a save racing another user's; nothing taken back while messages are under way (`MaxAtUndo` 0), faults with one message under way (`MaxAtFault` 1): what a page sends does not depend on a loss elsewhere, so it may as well send after it |
| `service_careful` | filed under its own image; a Done leads to an image while there is one | 2 users, 3 images, quota 2 |
| `region_editor` | variables agree; file draws what the canvas showed, but for dots | 2 places of the mouse, 3 points to a region, 2 regions: repeated clicks, regions at one place, and none, one and several regions, which take different branches |
| `synchronized_rw` | exclusion, no reader passes a writer, access for whoever is in, refinement | 4 threads: two readers and two writers |
| `synchronizable` | no circular wait, right locks held; no deadlock | 3 threads, 2 objects and an unsynchronized one, counter modulo 3, so that it wraps |
| `semaphore` | no underflow, released is acquired | 4 threads, amounts to 2, value to 3 |
| `dataset_preparation` | file is a table but for a header or row cut short by a stop, labels kept, one sample lost at most | 4 samples, 2 classes |
| `manual_classification` | title tells the progress, own classes only, nothing lost | 4 images, the third undecodable, so that there are readable ones side by side and on both sides of it, 2 pixels, brush 1 and 10 |
| `mseg` | neither too fine nor too coarse, no small component, labels, refinement | 3 by 2 pixels, all images with five levels that differ by different amounts and one tie, c 5, least size 3: forests of rank 2, thresholds that hold and that stop, both orders of the tie |
| `child_threads` | processors shared without loss, exception of the first in order, nothing left running, every run ends | a pair of a collection of three and a pair; 1, 2, 5 and 9 processors: sequential, two groups, a remainder on either side, more than enough; leaves that throw in four ways |
| `meanshift` | counts are areas, fill misses nothing, closures close, no small region | 3 by 2 pixels, all images with four levels, one alike pair of levels apart from the window, one too bright; least area 2 and one beyond the image |
| `ucm` | energies never fall, averages exact, closed contours, each level final | 4 by 3 pixels, five regions, one inside the others, strengths 0, 1 and 3: averages of one, two and three contours meet and tie |

Users and pages are symmetric in `segmentation_service`, samples and classes in
`dataset_preparation`; neither checks liveness. That a drawing never mixes three images
takes three: `SegmentationServiceMixed.cfg` with `MCSegmentationService`, not one of the
runs above, has one user, one page and three images, with things taken back at any time.

Deadlock is checked in the runs of the lock and of the two-object claims, where
nobody may ever be stuck. Elsewhere the system may stop: all images segmented, or
nobody acts at the bound of messages; all threads wait for a release; the
algorithm is done.

### Refuted statements
Six statements of a comment, a header or a message do not hold of the code. They
are kept as definitions next to what holds instead; five have a `.cfg` of their own, not one
of the runs above, whose model check ends in a counterexample.

1. "A new image will be given to you" (`functions.js:125`): `NewImageGiven`,
   `ServiceLastImage.cfg` with `MCSegmentationService`. After the last image
   `getNewImage` throws (`nodeserver.js:86`) and the server goes down. What holds:
   `NewImageGivenWhileAny`.
2. "Access is granted on a first-come first-serve basis" (`synchronized_rw.hh:8`):
   `FirstComeFirstServed`, `SynchronizedRWOrder.cfg` with `MCSynchronizedRW`. A
   pthread mutex gives the gate to any thread (`synchronized_rw.cc:111`). What
   holds: `NoReaderPassesWriter`, for a writer that is through the gate.
3. "it spares id and class only" (`run_dataset_preparation.sh:19`):
   `SparesIdAndClass`, `DatasetPreparationSpares.cfg` with `MCDatasetPreparation`.
   The last sample of a file without a final newline is lost each time
   (`generate_arff_attributes.py:113`). What holds: `OnlyTheLastIsLost`,
   `LabelsKept`.
4. "via an eight-connected fill" (`msImageProcessor.cpp:1988`): `EightConnected`,
   `MeanShiftRefuted.cfg` with `MCMeanShift`. The test for the ends of a row is
   commented out ("no need", line 2019), so the first pixel of the next row is a
   neighbour. What holds: `FilledWhole`, for that notion of neighbour.
5. "until the color of each neighboring region is within sqrt(rR2) of one another"
   (`msImageProcessor.cpp:749`): `ClosedInTheEnd`. The loop goes on while a closure
   joins nothing and ends with the first that joins some (line 761), so modes that
   an average has brought together stay apart. What holds: `TransitivelyClosed`,
   of each closure.
6. "regions whose area (in pixels) is less than or equal to minRegion have been pruned
   from the segmented image" (`msImageProcessor.cpp:707-709`, `2738-2740`):
   `PrunedUpToLeast`, `MeanShiftPruned.cfg` with `MCMeanShift`. The code tests `<` (line
   2801), as line 684 and `msImageProcessor.h:304-307` say, so a region of just the least
   area stays. What holds: `NoSmallRegion`.

Seen while modelling, without a definition: a new canvas paints with brush size 10
whatever the label says (`ImageCanvas.java:17`); "No more images" is also said of
an image that cannot be decoded (`VisualClassifierForm.java:170`); the FSEG graph
is drawn from gPb's results (`benchmark.py:82`); `print_results` divides by the
number of comparisons, which may be 0 (`bench_common.py:124`); two components
may get one colour (`segment-image.h:139`), so that mseg's picture, unlike its
forest, need not tell them apart; `join` does not "return immediately if the thread
is not running" (`thread.cc:83`) when `pthread_create` failed, its result being
ignored.

### Fairness
Threads: weak fairness of each thread's own steps, which says that the scheduler
runs a thread that can go on and that it leaves the lock in the end. Nothing is
assumed of which waiting thread a mutex chooses, nor that a thread calls.
`CarefulSpec`: weak fairness of the server's answers, of the page's callbacks and
of the restart; Node and the browser run what has arrived. The user need not act.
`ChildThreads`: weak fairness of the whole next-state relation, no more than that
some thread which can go on does; leaves are assumed to end.

## Proofs

All theorems hold for every value of the constants that satisfies the named
assumptions of the module; `tlapm` checks them to the last leaf.

**ManualSegmentation_proofs**, in four parts.

*The server* (`ServerSpec`): users finite, quota positive. The inductive invariant
is the type invariant with the quota and *no gap* (`NoneLeftBehind`), each kept by
the fact that a save adds one file, at the least open number after the user's
last. `FilledInOrder` follows from them: whoever has a later image either has the
earlier one or it is full. `AppendOnly` is a property of every step.

*Pages and server* (`Spec`), for any users, pages, images and quota, with messages
lost, repeated and late. `PageAgreesWithServer` is not inductive: it speaks of the
page only, not of an image that is still under way, and it would have to be kept
by other users' saves. `IInv` replaces it by what the server knew when it answered:
an image that is shown, drawn on, or under way was `Offered` to the user, that is,
no number before it is open to the user. An open number never comes back, so an
offer stands for good (`OfferStands`). And an offer is the current image or
settled (`OfferIsCurrentOrSettled`), because no image is left behind: if the user
is past it without a segmentation, it has its quota. `Agreement` and `Misfiling`
follow; a save is filed under the current image, which is not before the one that
was drawn on. `Mixing` needs more of a page (`PageOK`): of the images its regions were
drawn on, the one on the canvas and the one being decoded (`OnPage`) there are two at
most, since the callback that brings another clears the regions, and a canvas that
differs from `image` is one that `image` has not drawn on yet. Both were offered, so the
earlier is settled. `ServiceRunsServer` says that the service's server does nothing
else than `ServerSpec` lets it do, which brings the first part's theorems over.

*Careful users* (`CarefulSpec`, `CarefulFiling`): under the two assumptions of the
run, that no two pages have one user (`OnePageEach`) and that there are no more
users than the quota (`EverybodyMaySegment`). `CarefulIInv` adds that a page has at
most one message under way or one image being decoded, what it posts was drawn on what
`image` has, and that is current until the answer to its save is under way. Another user's save
keeps that: the quota is not full as long as this user has no file
(`OthersCurrentStays`).

*The region editor* (`EditorSpec`). For any coordinates and bounds. `EditorIInv` is the
types of the lists, `RegionsAgree` and `FileShowsTheCanvas`. The first two are kept by every
handler, whatever button or hotkey calls it. The third is about the past and is
only made by `Done`: `DrawnAgain` shows for any fitting lists that the way through
form data, parser, file and reader gives the same line segments. That the reader's dots
lie on the canvas's lines or at `Spots` is a fact of one region: from a point that is not
all there is, going on or back one comes to the first other point (`Change`, `OnALine`);
a region without such is a spot (`OnlyDots`). It has the three
cases of `createDatFileContent` (no region, one, several) and rests on
`PointsComeBack`: a list of coordinates joined and halved is the points again.

**Labelling_proofs**, *dataset preparation*. For any finite set of samples and any classes.
`IInv` adds what the labelling has in memory against the file it read (`LabellingOK`);
for a program that writes, that its rows are in the file or still to come and that the
header on the disk, once whole, is the program's (`WritingOK`); and that a sample has one
row in every table, from which the number of rows follows (`AsManyRows`).

*The manual classifier* (`ClassifierSpec`). `ClassifierIInv` adds that the canvas holds only classes
given on the image shown, and that form and provider differ only over an image
that cannot be decoded; so a save reaches the file of a readable image only from
its own canvas, also when saves and loads fail. `WorkIsKept` follows the file: what a
save writes a load shows again (`SavedComesBack`), so that a step to the next image
and back loses nothing as long as neither fails. The title is wrong only while the canvas
of an image whose file could not be read is blank, which is part of the invariant.

**Concurrent_proofs**, *the readers/writers lock*. Exclusion alone is not inductive: it says nothing of
the mutexes. `IInv` adds that the gate and the counter mutex are locked exactly
when one thread is in the section each guards, that `_n_readers` counts the
threads between their increment and their decrement, and that `_write_mutex` is
locked exactly when a reader is counted (or about to be) or a writer writes.
`Implementation` uses it to show every step to be a step of `ReadersWriters` or a
stutter. The finiteness of the set of threads is what the counter needs.

*The semaphore.* `SemIInv`: at most one thread is to unlock the access mutex,
then it is locked and the value positive; otherwise it is locked exactly when the
value is zero. The step that needs it is a release between the decrement and the
unlock of an acquire.

*The child threads.* For any tree of jobs, any number of processors and any leaves
that throw; that jobs are a tree (`TreeAssumption`: one place for each, and no way
back up) is what one call of `run()` per job means. The division is arithmetic and
comes first: `Division` shows of each of the four ways that every child is in one
place of one group, that groups follow the order of the children, and that what
the groups get adds up to the processors. `RunIInv` then says how far a job's
threads are against its own place (`JobOK`), that a join lock is locked while its
thread runs, and how far the members of a group are against its thread
(`WorkerOK`): those before it have returned, those after have not begun. That what
a job raised is in order (`FirstInOrder`) is part of the invariant, because the job
above takes it over; `Outcome` is the step up: a child before the one that threw is
of the same group or of an earlier one, and so has returned. A call of a member is
safe because a job is in one place only (`OnePlace`). `NeverTooMany` goes up the tree:
a group has at most one member at work, which has the group's processors
(`BusyMember`); of jobs with too many at work there would be one whose children have
not (`FewBusy`). The leaves below a job are those reached from it (`Under`), a least set
and not a recursion, for the provers' sake.

**Synchronizable_proofs.** For any threads and objects, and a counter of any
width that has an identity for each synchronized object. `IInv` has three parts.
*Identities*: the counter gets back to an identity issued `Age` ago only after
all others, so that none is shared although it wraps, from wherever it starts.
*Calls*: a call that gets to its second object has two. *Locks*: an object is entered, read and written by the
threads whose calls are at that point (`EntersAt`, `Holds`) and by no other. From
it follows `AsksAndHolds`. For `NoCircle` every thread has a `Height`, twice the
identity it waits at, one more when it is in, and above all when it does not wait;
a thread waits only for higher ones (`WaitsUpwards`), so of any set the highest
waits for none of it (`LeastOf`).

**Mseg_proofs.** For any image, size and constants. `IInv` has four parts. *The
forest*: the history `part` is a partition, every parent is in the same part,
there is one root to a part, which holds the part's size, and ranks grow towards
the root, so that `find` ends in it; shortening a path (`Shortened`) and linking a
root (`Linked`) keep this. *The calls*: what `find` is looking for, and that `a`
and `b` are the roots of the edge's components when they are used. *The edges*:
taken by weight; an edge dealt with that still joins two components is beyond the
threshold of one (`KeptApart`), or, in the second pass, has no small component at
either end (`SmallJoined`), because components only grow. *The labels.* From it
follow `SmallRegions` and `Labels`; `Refinement` maps `JoinLight` and `JoinSmall`
to `Merge` and every other step to a stutter.

That the first pass does what the paper proves of it (`NeitherFineNorCoarse`) takes a
second invariant, `PaperOK`. A threshold is the paper's measure of its component
(`ThresholdsOK`): two components are held together by the edge that joins them, since
a lighter one between them would have been dealt with and refused by one of the two,
which then could not take this one (`JoinHeld`). That gives "not too fine". For "not
too coarse" the invariant has to say of every set of pixels in one piece, without
knowing in which components it will end, how it may come to be left (`WaysOut`): by an
edge that it would itself have taken, or not before one of the components inside it is
finished, that is, has refused an edge, after which it refuses all others, because
they are heavier. If a partition finer than the result were not too fine, the lightest
edge it cuts would be too heavy for a piece at one of its ends; but that piece ended
inside a component, so it was left by an edge that it would have taken, which is no
lighter.

Merging regions that touch keeps a partition into regions that are in one piece
(`MergeKeepsPartition`, `MergeKeepsConnected`); with `Refinement` mseg's components
are so at every step (`Pieces`).

**Ucm_proofs.** For images of any size, any initial regions and any strengths. Why
the energies of the merges never fall (`AlwaysUltrametric`) has three parts, which
`IInv` is made of. *The books are exact* (`AveragesExact`, `BoundaryOK`): a contour
has two sides (`TwoSides`), so the boundaries of father and son with a third region
have no contour in common, and totals and lengths add up. *The queue is complete*
(`QueueOK` and the last part of `AveragesExact`): each boundary has an entry with its
present average, so the first entry that is current is the weakest boundary there
is (`FirstEntry`, `MergeJoins`). *Averages do not fall below* (`WeakerGone`): the
average of two boundaries together is at least the lesser of the two
(`AverageOfBoth`), with the model's division as it is; that `Unit` is a multiple of
the lengths is not used. `PlacesKept` is a property of the steps (`StepKeepsLevels`).

`AlwaysClosed` needs the past: the invariant `Nested` says that for each level there
are classes of initial regions, within the regions, such that a contour whose sides
have joined is inside a class if it is below the level, and between two otherwise.
A merge at a higher level leaves the classes as they are, and above all levels the
regions themselves will do. On the finished map no walk below the level leaves the
class (`BesideSame`, `CellSame`, `ReachedSame`): a corner is as strong as the
strongest contour at it. That one region is left is so because the image is in one
piece (`OneRegion`). `MergesOnly`: compute_ucm implements `RegionMerging`, with the
initial regions for pixels.

**MeanShift_proofs.** For images of any size, any filtered image, any thresholds and
least area. None of the four properties is inductive: each speaks of the end of a pass.
`IInv` says what holds in the middle, in one part for each pass.

- *Connect and Fill* (`ConnectOK`). Fill leaves off with up to two pixels in its table
  and looks at the last of them only. That nothing is missed rests on `Open`: of the region
  that is being filled, only the pixels in the table may have a neighbour left to
  take, the first no longer once there are others, because those were taken from it
  and by it. A region grows by neighbours, so it is in one piece, and its count by as
  many as there are new pixels, since the eight offsets differ (`Offsets`); that needs
  the image to be three pixels wide.
- *The closure* (`SettledOK`, `ClosureOK`). A canonical element never comes after the
  region it stands for (`canon[r] <= r`), so that a climb ends at a root, although
  `CanonicalElement` is a recursive function without a measure of its own. A join of two
  roots makes one class of two and leaves the others. One direction of
  `TransitivelyClosed` is that classes grow only along near regions, the other that
  pairs the loop has been at are in one class; neighbours are mutual, so that it is
  enough for either of a pair to have had its turn.
- *Relabelling.* `NewLabel` is the rank of a class among classes, which is one to one and
  onto the numbers below the number of classes; the area of a class is the sum of the
  areas of its regions (`FiniteSums`), and neighbouring pieces make one piece.
- *Prune* (`PruneOK`). While no small region has been met, there has been no join and
  all regions up to here are large enough; so the last round, which met none, leaves none.
  A closest neighbour exists: `Closer` compares fractions by cross products, which is an
  order because counts are positive. A region without neighbours is the whole image,
  which is in one piece by steps right and down.

Sums and walks are recursive functions. Their defining equations, and what holds of
every sum, are proved by induction over sets of numbers (`InductionOnNat`), that is
with the set for which the statement holds in place of the statement (`IterExists`,
`SumUnion`, `GrowExists`, `ReachedWithin`). What several modules need of this is in
**FiniteSums**: the least of a set of numbers, induction, and sums.

Every invariant and every action property that a run checks is proved. Only
model-checked is what is out of the prover's reach, liveness: `GateLeadsToAccess`,
`AvailableIsAcquired`, `NewImageGivenWhileAny` and `Finishes`.

## Not modelled
The bulk of the repository's lines is numeric C, C++ and MATLAB of others on
floating-point arrays (the mean shift filter, gPb's contour detectors, eigenvectors,
matrices and image libraries, jseg, SRM, fseg) and a user interface toolkit
(`bgimsystem.cpp`). There is no discrete state in it for a model to abstract to,
so the map covers a small share of the lines and cannot cover a third of them:
what is mapped are the parts with state, concurrency or a discrete algorithm.

Left out of the parts that are modelled: rounding of averages and thresholds;
smoothing and output colours of mseg; the weight map, `SpeedUp` filters and
boundaries of mean shift; partitions of a single region in `Ucm`, whose empty
boundary the code reads (`ucm_mean_pb.cpp:273`); a `pthread_create` that fails, and
exceptions other than `throwable` (they end the process); image drawing; the login
page; the buttons that select a class and the resizing of the classifier's window
(the canvas then exceeds the array of classes); nested claims of one lock by one
thread (a second read claim waits for ever behind a writer); whether `acquire(n)`
ends when two threads each hold a part; wrap-around of the semaphore's value and of
identities among objects that live on.

`Ensemble` (votes and conversions), the pipelines and the classifier's ARFF
generation are single passes over files with no state of their own between steps,
but for files that a failed step leaves (`run_ensemble.sh:27`).

## Plan
Done: server, service, editor, file, lock, two-object claims, semaphore, child
threads, arff programs, manual classifier, mseg, mean shift regions, contour map;
proofs of server, service, editor, file, lock, two-object claims, semaphore, child
threads, arff programs, classifier, mseg, mean shift regions and contour map. What would
add most next: the collections over the lock with nested claims; the resizing of the
classifier's window; a `pthread_create` that fails; `Ensemble` against reference
definitions.
