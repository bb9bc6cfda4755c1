-------------------------- MODULE AnnotationServer --------------------------
(***************************************************************************)
(* The server of the manual segmentation experiment, nodeserver.js.        *)
(*                                                                         *)
(* The server keeps no state of its own: all it knows is on the disk, a    *)
(* directory dat/<user> for each user and in it a file NNNNN.dat for each  *)
(* image the user has segmented.  Node runs one request handler at a time  *)
(* from its first line to its last, so a handler is one action.            *)
(*                                                                         *)
(* A handler never trusts the client about the image: both handlers work   *)
(* out "the current image of the user" from the directories.               *)
(***************************************************************************)
EXTENDS Naturals, FiniteSets

CONSTANTS
  Users,        (* the user identifications *)
  Payloads,     (* what a client can post as the segmentation of one image *)
  Partial,      (* the content of a .dat file whose write was cut short *)
  NoFile,       (* no .dat file *)
  NumImages,    (* the images are 00001.jpg .. NumImages.jpg *)
  MaxPerImage,  (* maxPerImage: how many users shall segment one image *)
  MaxNumber     (* the largest number of a .dat file name, five digits *)

ASSUME UsersAssumption == IsFiniteSet(Users)
ASSUME NumbersAssumption ==
  /\ NumImages \in Nat
  /\ MaxPerImage \in Nat \ {0}
  /\ MaxNumber \in Nat
  /\ NumImages <= MaxNumber
ASSUME ContentAssumption ==
  /\ Partial \notin Payloads
  /\ NoFile \notin Payloads \cup {Partial}

VARIABLES
  dirs,  (* the users who have a directory under dat/ *)
  dat,   (* dat[u][n]: the content of dat/u/n.dat, or NoFile *)
  up     (* the process runs: no exception has escaped from a handler *)

serverVars == <<dirs, dat, up>>

Numbers == 1..MaxNumber
Images == 1..NumImages

-----------------------------------------------------------------------------
(* What the handlers read from the directories.                            *)

HasDat(u, n) == dat[u][n] # NoFile

(* The users whose directory holds n.dat: dirWalkCount counts them.        *)
Annotators(n) == {u \in Users : HasDat(u, n)}
CountFileOccurrences(n) == Cardinality(Annotators(n))

(* Variants with a bug, which the runs must tell from the code: the loop   *)
(* tests > instead of >=; any open number; any image short of its quota,   *)
(* wherever the user's last file is.                                       *)
OpenNumbers_OneTooMany(u) ==
  {n \in Numbers : (\A m \in Numbers : HasDat(u, m) => m < n)
                    /\ CountFileOccurrences(n) <= MaxPerImage}

(* n is greater than `last', the number of the user's last .dat file.      *)
AfterLast(u, n) == \A m \in Numbers : HasDat(u, m) => m < n

(* getCurrentImageNumber: the first number after the user's last file that *)
(* fewer than MaxPerImage users have segmented.                            *)
OpenNumbers(u) ==
  {n \in Numbers : AfterLast(u, n) /\ CountFileOccurrences(n) < MaxPerImage}

IsCurrentImageNumber_AnyOpen(u, n) == n \in OpenNumbers(u)
IsCurrentImageNumber_AnyShort(u, n) == CountFileOccurrences(n) < MaxPerImage

IsCurrentImageNumber(u, n) ==
  LET open == OpenNumbers(u)
  IN  n \in open /\ \A m \in open : n <= m

-----------------------------------------------------------------------------
(* The operations.                                                         *)

MakeUserDir(u) == dirs' = dirs \cup {u}

(* POST /getNewImage.  readFileSync throws when there is no such image, and *)
(* nothing catches the exception: the process ends.                        *)
ProcessNewImage(u, n) ==
  /\ up
  /\ IsCurrentImageNumber(u, n)
  /\ MakeUserDir(u)
  /\ up' = (n \in Images)
  /\ UNCHANGED dat

(* POST /saveData.  The number is computed again, at the time of the save. *)
ProcessSaveData(u, n, content) ==
  /\ up
  /\ IsCurrentImageNumber(u, n)
  /\ MakeUserDir(u)
  /\ dat' = [dat EXCEPT ![u][n] = content]
  /\ up' = (content # Partial)

(* POST /checkUserState answers from the directories and changes nothing.  *)
CheckUserState(u) == IF u \in dirs THEN "old" ELSE "new"

(* The process manager starts the server again after a crash.              *)
Restart ==
  /\ ~up
  /\ up' = TRUE
  /\ UNCHANGED <<dirs, dat>>

-----------------------------------------------------------------------------
ServerInit ==
  /\ dirs = {}
  /\ dat = [u \in Users |-> [n \in Numbers |-> NoFile]]
  /\ up = TRUE

GetNewImage(u) == \E n \in Numbers : ProcessNewImage(u, n)

SaveData(u) == \E n \in Numbers, p \in Payloads : ProcessSaveData(u, n, p)

(* The disk is full: writeFileSync has created the file and throws.        *)
SaveDataFails(u) == \E n \in Numbers : ProcessSaveData(u, n, Partial)

ServerNext ==
  \/ \E u \in Users : GetNewImage(u) \/ SaveData(u) \/ SaveDataFails(u)
  \/ Restart

ServerSpec == ServerInit /\ [][ServerNext]_serverVars

-----------------------------------------------------------------------------
TypeOK ==
  /\ dirs \subseteq Users
  /\ dat \in [Users -> [Numbers -> Payloads \cup {Partial, NoFile}]]
  /\ up \in BOOLEAN

(* No image is segmented by more than MaxPerImage users, whatever the order *)
(* in which their requests arrive (the while loop of getCurrentImageNumber).*)
QuotaRespected == \A n \in Numbers : CountFileOccurrences(n) <= MaxPerImage

(* A user is sent past an image only when it has its quota: of the images  *)
(* below one the user has segmented, the user has segmented each or it is  *)
(* full.  No image is left behind short of its quota by every user.        *)
NoneLeftBehind ==
  \A u \in Users, n \in Numbers :
    HasDat(u, n) =>
      \A m \in 1..(n - 1) : HasDat(u, m) \/ CountFileOccurrences(m) >= MaxPerImage

(* The images fill up from the first: a later image never has more         *)
(* segmentations than an earlier one.                                      *)
FilledInOrder ==
  \A m, n \in Numbers :
    m < n => CountFileOccurrences(n) <= CountFileOccurrences(m)

(* A file is written once and only after all the user's other files: no    *)
(* save replaces a segmentation, neither a retry nor one after a restart.  *)
AppendOnly ==
  [][\A u \in Users, n \in Numbers :
        dat'[u][n] # dat[u][n] => ~HasDat(u, n) /\ AfterLast(u, n)]_dat
=============================================================================
