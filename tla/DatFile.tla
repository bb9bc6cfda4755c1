------------------------------ MODULE DatFile ------------------------------
(***************************************************************************)
(* How a segmentation travels: the page holds a region as two arrays of    *)
(* coordinates, jQuery posts it as one list of numbers, nodeserver.js      *)
(* writes it as a line of points, and the benchmark reads the lines back   *)
(* and draws them.  A number stands for its decimal digits; text that      *)
(* separates numbers is left out.                                          *)
(***************************************************************************)
EXTENDS Integers, Sequences

(* saveImageData posts an array of arrays: each inner array becomes one    *)
(* value, its coordinates joined by commas.                                *)
Joined(region) == region[1] \o region[2]

(* querystring.parse: a key that occurs once is a string, not an array,    *)
(* and one that does not occur is undefined.                               *)
Parsed(values) ==
  CASE Len(values) = 0 -> [kind |-> "undefined"]
    [] Len(values) = 1 -> [kind |-> "string", value |-> values[1]]
    [] OTHER           -> [kind |-> "array", value |-> values]

(* Variant with a bug: the coordinates are taken two by two.               *)
PointsLine_Adjacent(coords) ==
  [j \in 1..(Len(coords) \div 2) |-> <<coords[2 * j - 1], coords[2 * j]>>]

(* The points of a line of the file: coordinate j, then the one half the   *)
(* list further.                                                           *)
PointsLine(coords) ==
  LET points == Len(coords) \div 2
  IN  [j \in 1..points |-> <<coords[j], coords[j + points]>>]

(* createDatFileContent; Unwritten where it would throw.                   *)
Unwritten == [count |-> -1, regions |-> <<>>]

CreateDatFileContent(regions, types, regionCount) ==
  CASE regionCount > 1 /\ regions.kind = "array" /\ regionCount <= Len(regions.value) ->
         [count |-> regionCount,
          regions |-> [i \in 1..regionCount |-> 
                         [type |-> types.value[i], points |-> PointsLine(regions.value[i])]]]
    [] regionCount = 1 /\ regions.kind = "string" ->
         [count |-> 1,
          regions |-> <<[type |-> types.value, points |-> PointsLine(regions.value)]>>]
    [] regionCount = 0 -> [count |-> 0, regions |-> <<>>]
    [] OTHER -> Unwritten

(* What the server files when a page posts these three values.             *)
Filed(regionHistory, regionType, regionCount) ==
  CreateDatFileContent(Parsed([i \in 1..Len(regionHistory) |-> Joined(regionHistory[i])]),
                       Parsed(regionType), regionCount)

(* The line segments between consecutive points, and the one that closes a *)
(* region.                                                                 *)
Path(points) == {<<points[i], points[i + 1]>> : i \in 1..(Len(points) - 1)}
Segments(points, type) ==
  Path(points) \cup (IF type = "cr" THEN {<<points[Len(points)], points[1]>>} ELSE {})

(* __convert_dat_to_image of the benchmark: the segments it draws, a dot   *)
(* for one from a point to itself.                                         *)
ConvertDatToImage(file) ==
  UNION {Segments(file.regions[i].points, file.regions[i].type) : i \in 1..file.count}

(* drawPreviousRegions of the page: the segments on the canvas, which      *)
(* strokes nothing from a point to itself.                                 *)
Visible(segments) == {l \in segments : l[1] # l[2]}

Points(region) == [j \in 1..Len(region[1]) |-> <<region[1][j], region[2][j]>>]

DrawPreviousRegions(regionHistory, regionType) ==
  UNION {Visible(Segments(Points(regionHistory[i]), regionType[i])) : i \in 1..Len(regionHistory)}

(* The places of the regions that have all their points at one place.      *)
Spots(regionHistory) ==
  {Points(regionHistory[i])[1] :
     i \in {k \in 1..Len(regionHistory) :
              \A j \in 1..Len(regionHistory[k][1]) :
                Points(regionHistory[k])[j] = Points(regionHistory[k])[1]}}
=============================================================================
