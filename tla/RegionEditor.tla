---------------------------- MODULE RegionEditor ----------------------------
(***************************************************************************)
(* The drawing editor of one page, functions.js: the region being drawn,   *)
(* the regions drawn so far, the buttons and the hotkeys.                  *)
(*                                                                         *)
(* Each event handler is an action.  A mouse press on a disabled button    *)
(* has no effect, but a hotkey calls the handler whatever the button; only *)
(* the hotkeys of Stroke and Closed region look at the button first.  So   *)
(* Save region, Undo and Delete last may happen at any time.               *)
(***************************************************************************)
EXTENDS DatFile

CONSTANTS
  Xs, Ys,      (* the coordinates the mouse can be at *)
  MaxPoints,   (* bound: points of a region *)
  MaxRegions   (* bound: regions of an image *)

ASSUME EditorAssumption ==
  /\ Xs \subseteq Int /\ Ys \subseteq Int
  /\ MaxPoints \in Nat /\ MaxRegions \in Nat

VARIABLES
  clickX, clickY,   (* the points of the region being drawn *)
  regionCount,
  regionHistory,    (* the finished regions, each <<xs, ys>> *)
  regionType,       (* "cr" or "pt" for each *)
  isClosedRegion,
  allowPaint,
  paint,            (* the mouse button is down on the canvas *)
  modeEnabled,      (* btnStroke and btnClosedRegion are enabled *)
  editEnabled,      (* btnUndo and btnSaveRegion are enabled *)
  posted            (* what the last handler posted, if it was Done: the .dat     *)
                    (* content, and the canvas, of that moment                    *)

regionVars == <<regionCount, regionHistory, regionType>>
clickVars == <<clickX, clickY>>
modeVars == <<isClosedRegion, allowPaint, modeEnabled, editEnabled>>
editorVars == <<clickX, clickY, regionCount, regionHistory, regionType, isClosedRegion,
          allowPaint, paint, modeEnabled, editEnabled, posted>>

Nothing == [file |-> Unwritten, canvas |-> {}, spots |-> {}]

EditorInit ==
  /\ clickX = <<>> /\ clickY = <<>>
  /\ regionCount = 0 /\ regionHistory = <<>> /\ regionType = <<>>
  /\ isClosedRegion = FALSE
  /\ allowPaint = FALSE
  /\ paint = FALSE
  /\ modeEnabled = TRUE
  /\ editEnabled = FALSE
  /\ posted = Nothing

-----------------------------------------------------------------------------
(* btnStroke and btnClosedRegion, by the mouse or by alt+1 and alt+2.      *)
SelectMode(closed) ==
  /\ modeEnabled
  /\ isClosedRegion' = closed
  /\ modeEnabled' = FALSE
  /\ editEnabled' = TRUE
  /\ allowPaint' = TRUE
  /\ UNCHANGED <<clickVars, regionVars, paint>> /\ posted' = Nothing

AddClick(x, y) ==
  /\ Len(clickX) < MaxPoints
  /\ clickX' = Append(clickX, x)
  /\ clickY' = Append(clickY, y)

CanvasMouseDown(x, y) ==
  /\ paint' = TRUE
  /\ IF allowPaint THEN AddClick(x, y) ELSE UNCHANGED clickVars
  /\ UNCHANGED <<regionVars, modeVars>> /\ posted' = Nothing

CanvasMouseMove(x, y) ==
  /\ paint /\ allowPaint
  /\ AddClick(x, y)
  /\ UNCHANGED <<regionVars, modeVars, paint>> /\ posted' = Nothing

CanvasMouseUp ==
  /\ paint' = FALSE
  /\ UNCHANGED <<clickVars, regionVars, modeVars>> /\ posted' = Nothing

-----------------------------------------------------------------------------
(* saveCurrentRegion: the region joins the history if it has a point.      *)
History == IF clickX = <<>> THEN regionHistory ELSE Append(regionHistory, <<clickX, clickY>>)
Types ==
  IF clickX = <<>> THEN regionType
  ELSE Append(regionType, IF isClosedRegion THEN "cr" ELSE "pt")
Count == IF clickX = <<>> THEN regionCount ELSE regionCount + 1

SaveCurrentRegion ==
  /\ Count <= MaxRegions
  /\ regionHistory' = History
  /\ regionType' = Types
  /\ regionCount' = Count
  /\ clickX' = <<>> /\ clickY' = <<>>
  /\ modeEnabled' = TRUE
  /\ editEnabled' = FALSE
  /\ allowPaint' = FALSE
  /\ UNCHANGED isClosedRegion

SaveRegion == SaveCurrentRegion /\ UNCHANGED paint /\ posted' = Nothing

Undo ==
  /\ clickX # <<>>
  /\ clickX' = SubSeq(clickX, 1, Len(clickX) - 1)
  /\ clickY' = SubSeq(clickY, 1, Len(clickY) - 1)
  /\ UNCHANGED <<regionVars, modeVars, paint>> /\ posted' = Nothing

DeleteLast ==
  /\ regionCount > 0
  /\ regionCount' = regionCount - 1
  /\ regionHistory' = SubSeq(regionHistory, 1, Len(regionHistory) - 1)
  /\ regionType' = SubSeq(regionType, 1, Len(regionType) - 1)
  /\ UNCHANGED <<clickVars, modeVars, paint>> /\ posted' = Nothing

(* btnDone, confirmed: a region still being drawn is saved, then the three *)
(* values are posted; they stay until the next image arrives.              *)
Done ==
  /\ IF clickX # <<>> THEN SaveCurrentRegion ELSE UNCHANGED <<clickVars, regionVars, modeVars>>
  /\ posted' = [file |-> Filed(regionHistory', regionType', regionCount'),
                canvas |-> DrawPreviousRegions(regionHistory', regionType'),
                spots |-> Spots(regionHistory')]
  /\ UNCHANGED paint

(* Variant with a bug: the regions are cleared and their count is not.     *)
ClearDrawingVariables_KeepCount ==
  /\ clickX' = <<>> /\ clickY' = <<>>
  /\ regionHistory' = <<>> /\ regionType' = <<>>
  /\ UNCHANGED <<regionCount, modeVars, paint>> /\ posted' = Nothing

(* A new image arrives: clearDrawingVariables.  The buttons stay as they   *)
(* are, and so does a button held down.                                    *)
ClearDrawingVariables ==
  /\ clickX' = <<>> /\ clickY' = <<>>
  /\ regionCount' = 0 /\ regionHistory' = <<>> /\ regionType' = <<>>
  /\ UNCHANGED <<modeVars, paint>> /\ posted' = Nothing

-----------------------------------------------------------------------------
EditorNext ==
  \/ \E closed \in BOOLEAN : SelectMode(closed)
  \/ \E x \in Xs, y \in Ys : CanvasMouseDown(x, y) \/ CanvasMouseMove(x, y)
  \/ CanvasMouseUp
  \/ SaveRegion
  \/ Undo
  \/ DeleteLast
  \/ Done
  \/ ClearDrawingVariables

EditorSpec == EditorInit /\ [][EditorNext]_editorVars

-----------------------------------------------------------------------------
(* The three variables that describe the finished regions agree, and so do *)
(* the two of the region being drawn, whatever keys are pressed when.      *)
RegionsAgree ==
  /\ regionCount = Len(regionHistory)
  /\ Len(regionType) = Len(regionHistory)
  /\ Len(clickX) = Len(clickY)
  /\ \A i \in 1..Len(regionHistory) :
       /\ Len(regionHistory[i][1]) = Len(regionHistory[i][2])
       /\ regionHistory[i][1] # <<>>

(* What the benchmark draws from the .dat file is what the page showed     *)
(* when the user confirmed Done: from the page's arrays through the form   *)
(* data, createDatFileContent and __convert_dat_to_image.  Every line of   *)
(* the canvas is drawn, and nothing else but dots, where two points        *)
(* follow each other at one place: on a line of the canvas, or for a       *)
(* region that is all at one place, of which the canvas shows nothing.     *)
FileShowsTheCanvas ==
  posted # Nothing =>
    /\ posted.file # Unwritten
    /\ posted.canvas \subseteq ConvertDatToImage(posted.file)
    /\ \A d \in ConvertDatToImage(posted.file) \ posted.canvas :
         /\ d[1] = d[2]
         /\ d[1] \in posted.spots \/ \E l \in posted.canvas : d[1] \in {l[1], l[2]}

-----------------------------------------------------------------------------
(* The inductive invariant.                                                *)
Region == Seq(Xs) \X Seq(Ys)

EditorTypeOK ==
  /\ clickX \in Seq(Xs) /\ clickY \in Seq(Ys)
  /\ regionCount \in Nat
  /\ regionHistory \in Seq(Region)
  /\ regionType \in Seq({"cr", "pt"})

EditorIInv == EditorTypeOK /\ RegionsAgree /\ FileShowsTheCanvas
=============================================================================
