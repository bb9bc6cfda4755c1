------------------------- MODULE SegmentationService -------------------------
(***************************************************************************)
(* The manual segmentation experiment as a whole: browser pages running    *)
(* functions.js, the requests and replies between them and nodeserver.js,  *)
(* and the server.                                                         *)
(*                                                                         *)
(* A page is a session, of the user whose identification its address has;  *)
(* several may belong to one user: a second tab, or a page left open.  The *)
(* browser sends each request on its own, so two                           *)
(* requests of a page are handled, and answered, in either order.  A       *)
(* request or a reply that is lost goes unnoticed: the page has no error   *)
(* callback.  A reply carries what its callback is given; an answer to a   *)
(* page that was reloaded meets no callback (live is FALSE).               *)
(*                                                                         *)
(* A region is abstracted to the images the canvas had when its points     *)
(* were put, and the page's arrays to the set of those images; what is     *)
(* drawn on the empty canvas belongs to none.  The canvas need not have    *)
(* what the global variable image has: a new object, or an object whose    *)
(* source was set and is still being decoded, is drawn only later, or when *)
(* the next click redraws the canvas.                                      *)
(* The editor itself is module RegionEditor.                               *)
(***************************************************************************)
EXTENDS AnnotationServer, Bags

CONSTANTS
  Sessions,
  Logins,       (* the users the pages may belong to: functions of sessions *)
  MaxInFlight,  (* bound: requests and replies under way at a time *)
  MaxAtUndo,    (* bound: those under way when a user takes something back *)
  MaxAtFault    (* bound: those under way when a write or connection fails *)

ASSUME SessionsAssumption ==
  /\ Logins \subseteq [Sessions -> Users]
  /\ Payloads = SUBSET Images
  /\ MaxInFlight \in Nat
  /\ MaxAtUndo \in Nat /\ MaxAtFault \in Nat

VARIABLES
  userID,   (* userID[s]: the user in the address of page s *)
  shown,    (* shown[s]: the image on the canvas of page s, 0 for none *)
  picture,  (* picture[s]: what drawImage(image, 0, 0) would draw there, 0: nothing *)
  loading,  (* loading[s]: what image.src was set to and is not decoded, 0: nothing *)
  drawing,  (* drawing[s]: the images its regions were drawn on *)
  net       (* the requests and replies under way *)

pageVars == <<shown, picture, loading, drawing>>
vars == <<dirs, dat, up, userID, shown, picture, loading, drawing, net>>

Messages ==
  [type : {"getNewImage"}, session : Sessions, uid : Users, live : BOOLEAN]
    \cup [type : {"saveData"}, session : Sessions, uid : Users, live : BOOLEAN,
          regions : Payloads]
    \cup [type : {"ok"}, session : Sessions]
    \cup [type : {"image"}, session : Sessions, number : Images]

GetNewImageRequest(s, u) ==
  [type |-> "getNewImage", session |-> s, uid |-> u, live |-> TRUE]
SaveDataRequest(s, u, d) ==
  [type |-> "saveData", session |-> s, uid |-> u, live |-> TRUE, regions |-> d]
Ok(s) == [type |-> "ok", session |-> s]
Image(s, n) == [type |-> "image", session |-> s, number |-> n]

InFlight(m) == BagIn(m, net)
Send(bag, m) == bag (+) SetToBag({m})
Take(m) == net (-) SetToBag({m})

-----------------------------------------------------------------------------
(* The pages.                                                              *)

(* A reload drops the replies to the old page, and nobody waits for the    *)
(* answers to its requests any more.                                       *)
Abandon(s) ==
  LET request(m) == m.session = s /\ m.type \in {"getNewImage", "saveData"}
      kept == {m \in BagToSet(net) : m.session # s \/ (request(m) /\ ~m.live)}
      orphans == {[m EXCEPT !.live = FALSE] : m \in {r \in BagToSet(net) : request(r) /\ r.live}}
  IN  [m \in kept |-> net[m]] (+) [o \in orphans |-> net[[o EXCEPT !.live = TRUE]]]

(* initApp and initCanvas: the page takes the user from its address, which *)
(* a reload keeps, and loadCanvasImage asks for the first image.           *)
InitApp(s) ==
  /\ shown' = [shown EXCEPT ![s] = 0]
  /\ picture' = [picture EXCEPT ![s] = 0]
  /\ loading' = [loading EXCEPT ![s] = 0]
  /\ drawing' = [drawing EXCEPT ![s] = {}]
  /\ net' = Send(Abandon(s), GetNewImageRequest(s, userID[s]))
  /\ UNCHANGED <<serverVars, userID>>

(* redraw clears the canvas and draws what image has, then the regions:    *)
(* after a click, a saved region, or points or regions taken back.         *)
Redraw(s) ==
  /\ shown' = [shown EXCEPT ![s] = picture[s]]
  /\ \E d \in SUBSET drawing[s] :
       /\ d # drawing[s] => BagCardinality(net) <= MaxAtUndo
       /\ drawing' = [drawing EXCEPT ![s] = d]
  /\ UNCHANGED <<serverVars, userID, picture, loading, net>>

(* The user puts points on what the canvas shows; the handler redraws.     *)
DrawRegion(s) ==
  /\ drawing' = [drawing EXCEPT ![s] = @ \cup ({shown[s]} \ {0})]
  /\ shown' = [shown EXCEPT ![s] = picture[s]]
  /\ UNCHANGED <<serverVars, userID, picture, loading, net>>

(* Done, confirmed: a region under way is saved and the canvas redrawn,    *)
(* and saveImageData posts the regions and keeps them.  The button stays   *)
(* active, so the user may press it again.                                 *)
SaveImageData(s) ==
  /\ \E i \in {shown[s], picture[s]} : shown' = [shown EXCEPT ![s] = i]
  /\ net' = Send(net, SaveDataRequest(s, userID[s], drawing[s]))
  /\ UNCHANGED <<serverVars, userID, picture, loading, drawing>>

(* The callback of saveImageData: loadCanvasImage makes an empty image and *)
(* asks for the next one.  The canvas is not redrawn, and an image that    *)
(* was being decoded draws nothing any more: its onload draws the new one. *)
LoadCanvasImage(s) ==
  /\ InFlight(Ok(s))
  /\ picture' = [picture EXCEPT ![s] = 0]
  /\ loading' = [loading EXCEPT ![s] = 0]
  /\ net' = Send(Take(Ok(s)), GetNewImageRequest(s, userID[s]))
  /\ UNCHANGED <<serverVars, userID, shown, drawing>>

(* Variant with a bug: the callback of an image leaves the regions.        *)
ImageArrives_KeepRegions(s, n) ==
  /\ InFlight(Image(s, n))
  /\ loading' = [loading EXCEPT ![s] = n]
  /\ net' = Take(Image(s, n))
  /\ UNCHANGED <<serverVars, userID, shown, picture, drawing>>

(* The callback of loadCanvasImage: image.src is set, to be decoded, and   *)
(* clearDrawingVariables, while the canvas, and what image has decoded     *)
(* before, stay.                                                           *)
ImageArrives(s, n) ==
  /\ InFlight(Image(s, n))
  /\ loading' = [loading EXCEPT ![s] = n]
  /\ drawing' = [drawing EXCEPT ![s] = {}]
  /\ net' = Take(Image(s, n))
  /\ UNCHANGED <<serverVars, userID, shown, picture>>

(* image.onload: the image is decoded and drawn.                           *)
ImageDrawn(s) ==
  /\ loading[s] # 0
  /\ picture' = [picture EXCEPT ![s] = loading[s]]
  /\ shown' = [shown EXCEPT ![s] = loading[s]]
  /\ loading' = [loading EXCEPT ![s] = 0]
  /\ UNCHANGED <<serverVars, userID, drawing, net>>

-----------------------------------------------------------------------------
(* The server answers a request.                                           *)

HandleNewImage(m) ==
  /\ InFlight(m) /\ m.type = "getNewImage"
  /\ \E n \in Numbers :
       /\ ProcessNewImage(m.uid, n)
       /\ net' = IF m.live /\ n \in Images THEN Send(Take(m), Image(m.session, n)) ELSE Take(m)
  /\ UNCHANGED <<userID, pageVars>>

(* Variant with a bug: a save is not answered.                             *)
HandleSaveData_NoReply(m) ==
  /\ InFlight(m) /\ m.type = "saveData"
  /\ \E n \in Numbers : ProcessSaveData(m.uid, n, m.regions)
  /\ net' = Take(m)
  /\ UNCHANGED <<userID, pageVars>>

(* Variant with a bug: the number is the one of the image in the page.     *)
HandleSaveData_NumberFromPage(m) ==
  /\ InFlight(m) /\ m.type = "saveData" /\ up
  /\ MakeUserDir(m.uid)
  /\ \E n \in m.regions : dat' = [dat EXCEPT ![m.uid][n] = m.regions]
  /\ net' = IF m.live THEN Send(Take(m), Ok(m.session)) ELSE Take(m)
  /\ UNCHANGED <<up, userID, pageVars>>

HandleSaveData(m) ==
  /\ InFlight(m) /\ m.type = "saveData"
  /\ \E n \in Numbers : ProcessSaveData(m.uid, n, m.regions)
  /\ net' = IF m.live THEN Send(Take(m), Ok(m.session)) ELSE Take(m)
  /\ UNCHANGED <<userID, pageVars>>

HandleSaveDataFails(m) ==
  /\ InFlight(m) /\ m.type = "saveData" /\ BagCardinality(net) <= MaxAtFault
  /\ \E n \in Numbers : ProcessSaveData(m.uid, n, Partial)
  /\ net' = Take(m)
  /\ UNCHANGED <<userID, pageVars>>

(* A connection breaks, the process being stopped or not.                  *)
Lose(m) ==
  /\ InFlight(m) /\ BagCardinality(net) <= MaxAtFault
  /\ net' = Take(m)
  /\ UNCHANGED <<serverVars, userID, pageVars>>

RestartServer == Restart /\ UNCHANGED <<userID, pageVars, net>>

-----------------------------------------------------------------------------
Init ==
  /\ ServerInit
  /\ userID \in Logins
  /\ shown = [s \in Sessions |-> 0]
  /\ picture = [s \in Sessions |-> 0]
  /\ loading = [s \in Sessions |-> 0]
  /\ drawing = [s \in Sessions |-> {}]
  /\ net = EmptyBag

PageStep(s) ==
  \/ InitApp(s)
  \/ Redraw(s)
  \/ DrawRegion(s)
  \/ SaveImageData(s)
  \/ LoadCanvasImage(s)
  \/ \E n \in Images : ImageArrives(s, n)
  \/ ImageDrawn(s)

ServerStep ==
  \/ \E m \in BagToSet(net) :
       HandleNewImage(m) \/ HandleSaveData(m)
  \/ RestartServer

Fault == \E m \in BagToSet(net) : HandleSaveDataFails(m) \/ Lose(m)

InBounds == BagCardinality(net)' <= MaxInFlight

Next == ((\E s \in Sessions : PageStep(s)) \/ ServerStep \/ Fault) /\ InBounds

Spec == Init /\ [][Next]_vars

(* The careful user waits, after Done, for the new image to be drawn, and  *)
(* only then draws and confirms Done again; if none comes, or a click      *)
(* clears the canvas, the user loads the page again.                       *)
Idle(s) == loading[s] = 0 /\ \A m \in BagToSet(net) : m.session # s

CarefulPageStep(s) ==
  \/ picture[s] = 0 /\ Idle(s) /\ InitApp(s)
  \/ picture[s] # 0 /\ Idle(s) /\ (DrawRegion(s) \/ SaveImageData(s))
  \/ Redraw(s)
  \/ LoadCanvasImage(s)
  \/ \E n \in Images : ImageArrives(s, n)
  \/ ImageDrawn(s)

(* While the server is down, requests are refused, and an image it had not *)
(* sent in full is cut off; an "ok" left in one packet.                    *)
LoseInCrash == ~up /\ \E m \in BagToSet(net) : m.type # "ok" /\ Lose(m)

CarefulNext ==
  (LoseInCrash \/ ServerStep \/ \E s \in Sessions : CarefulPageStep(s)) /\ InBounds

AnswerRequest(s) ==
  \E m \in BagToSet(net) : m.session = s /\ (HandleNewImage(m) \/ HandleSaveData(m))

(* Node runs the handler of every request it has received, the browser the *)
(* callback of every reply, and the process manager restarts the server.   *)
(* What the user does is not bound to happen.                              *)
CarefulSpec ==
  /\ Init /\ [][CarefulNext]_vars
  /\ WF_vars(RestartServer)
  /\ \A s \in Sessions :
       /\ WF_vars(LoadCanvasImage(s))
       /\ WF_vars(\E n \in Images : ImageArrives(s, n))
       /\ WF_vars(AnswerRequest(s))

-----------------------------------------------------------------------------
(* n needs no segmentation of user u any more.                             *)
Settled(u, n) == HasDat(u, n) \/ CountFileOccurrences(n) >= MaxPerImage

(* The images of a page: those its regions were drawn on, the one on the   *)
(* canvas and the one being decoded.                                       *)
OnPage(s) == (drawing[s] \cup {shown[s], loading[s]}) \ {0}

(* The server, which never hears from the page what it shows, still means  *)
(* the same image as the page does, until the user has segmented that      *)
(* image in some page or others have filled its quota.                     *)
PageAgreesWithServer ==
  \A s \in Sessions : \A i \in OnPage(s) :
    IsCurrentImageNumber(userID[s], i) \/ Settled(userID[s], i)

(* A segmentation is filed under an image it was not drawn on only where   *)
(* its own image no longer needs one: a repeated request, a late one and   *)
(* another tab never cost an image a segmentation it still lacks.          *)
MisfiledOnlyWhenSettled ==
  \A u \in Users, n \in Numbers :
    dat[u][n] \in Payloads =>
      \A i \in dat[u][n] \ {n} : Settled(u, i) /\ i < n

(* Points put while the next image is decoded go into the new drawing and  *)
(* belong to the picture before, so one drawing may mix two images.  It    *)
(* never mixes three, however many replies race, and the earlier of the    *)
(* two needs no segmentation of the user any more.  That it is never three *)
(* takes three images to tell: SegmentationServiceMixed.cfg has them, for  *)
(* one page.                                                               *)
MixedOnlyWhenSettled ==
  \A s \in Sessions : \A i, j \in drawing[s] :
    i < j => Settled(userID[s], i) /\ drawing[s] \subseteq {i, j}

(* When users are careful and each may segment every image, a segmentation *)
(* is filed under the image it was drawn on, the crashes included that     *)
(* getNewImage brings on after the last image.                             *)
FiledUnderItsImage ==
  \A u \in Users, n \in Numbers : dat[u][n] \in Payloads => dat[u][n] \subseteq {n}

Confirmed(s) == \E d \in Payloads : InFlight(SaveDataRequest(s, userID[s], d))
Given(s) == \E n \in Images : InFlight(Image(s, n))

(* What the page promises when the user confirms Done, in the message of   *)
(* btnDone in functions.js: a new image is given to the user.              *)
NewImageGiven == \A s \in Sessions : Confirmed(s) ~> Given(s)

(* What the code does of it: a new image while there is one for the user,  *)
(* unless the server goes down meanwhile.                                  *)
NewImageGivenWhileAny ==
  \A s \in Sessions :
    Confirmed(s) ~> (Given(s) \/ OpenNumbers(userID[s]) \cap Images = {} \/ ~up)

-----------------------------------------------------------------------------
(* The inductive invariant.  The server has offered image n to user u: of  *)
(* the numbers that are open to u none is before n, nor will one ever be.  *)
Offered(u, n) == n \in Images /\ \A m \in OpenNumbers(u) : n <= m

(* Whatever a page shows, has drawn on or is about to get was offered to   *)
(* its user, and requests are made for the user of their page.             *)
PageOK(s) ==
  /\ \A i \in OnPage(s) : Offered(userID[s], i)
  /\ picture[s] # 0 => shown[s] = picture[s]
  /\ \A i, j \in OnPage(s) : i # j => OnPage(s) \subseteq {i, j}

MessageOK(m) ==
  /\ m \in Messages
  /\ m.type = "image" => Offered(userID[m.session], m.number)
  /\ m.type \in {"getNewImage", "saveData"} => m.uid = userID[m.session]
  /\ m.type = "saveData" => \A i \in m.regions : Offered(m.uid, i)

ServiceTypeOK ==
  /\ TypeOK
  /\ userID \in [Sessions -> Users]
  /\ shown \in [Sessions -> Images \cup {0}]
  /\ picture \in [Sessions -> Images \cup {0}]
  /\ loading \in [Sessions -> Images \cup {0}]
  /\ drawing \in [Sessions -> SUBSET Images]

IInv ==
  /\ ServiceTypeOK /\ QuotaRespected /\ NoneLeftBehind
  /\ \A s \in Sessions : PageOK(s)
  /\ \A m \in BagToSet(net) : MessageOK(m)
  /\ MisfiledOnlyWhenSettled

(* What careful users add to it: a page has at most one message under way  *)
(* or one image being decoded, and confirms what was drawn on its picture; *)
(* its regions were drawn on what it has, which is current until the "ok"  *)
(* of its save is under way.                                               *)
CarefulMessagesOK(s) ==
  \A m \in BagToSet(net) : m.session = s =>
    /\ net[m] = 1
    /\ \A o \in BagToSet(net) : o.session = s => o = m
    /\ m.type \in {"getNewImage", "saveData"} => m.live
    /\ m.type \in {"getNewImage", "image"} => picture[s] = 0
    /\ m.type = "image" => IsCurrentImageNumber(userID[s], m.number)
    /\ m.type = "saveData" =>
         picture[s] # 0 /\ m.regions \subseteq {picture[s]}
    /\ loading[s] = 0

CarefulPageOK(s) ==
  /\ loading[s] # 0 =>
       picture[s] = 0 /\ drawing[s] = {} /\ IsCurrentImageNumber(userID[s], loading[s])
  /\ picture[s] # 0 => drawing[s] \subseteq {picture[s]}
  /\ picture[s] # 0 /\ ~InFlight(Ok(s)) => IsCurrentImageNumber(userID[s], picture[s])

CarefulIInv ==
  /\ userID \in Logins
  /\ \A s \in Sessions : CarefulMessagesOK(s) /\ CarefulPageOK(s)
  /\ FiledUnderItsImage
=============================================================================
