---------------------- MODULE ManualSegmentation_proofs ----------------------
(***************************************************************************)
(* Proofs of the manual segmentation service, for any number of users,     *)
(* pages and images, any quota and any order of the messages: first of its *)
(* server alone, then of pages and server together, then of careful users, *)
(* and last of the drawing editor of a page and of the journey of a        *)
(* segmentation from the page's arrays to the benchmark's image, for any   *)
(* coordinates and any number of points and regions.                       *)
(***************************************************************************)
EXTENDS SegmentationService, RegionEditor, FiniteSums, SequenceTheorems

-----------------------------------------------------------------------------
(* Part I, the server: the invariants of AnnotationServer, whoever sends   *)
(* the requests.                                                           *)

(* Every step but a save leaves the .dat files alone; a save writes one.   *)
Writes(u, n, c) ==
  /\ IsCurrentImageNumber(u, n)
  /\ c \in Payloads \cup {Partial}
  /\ dat' = [dat EXCEPT ![u][n] = c]

-----------------------------------------------------------------------------
LEMMA TypeStep == TypeOK /\ [ServerNext]_serverVars => TypeOK'
<1> SUFFICES ASSUME TypeOK, [ServerNext]_serverVars PROVE TypeOK'
  OBVIOUS
<1>1. ASSUME NEW u \in Users, GetNewImage(u) PROVE TypeOK'
  BY <1>1 DEF GetNewImage, ProcessNewImage, MakeUserDir, TypeOK
<1>2. ASSUME NEW u \in Users, NEW n \in Numbers, NEW c \in Payloads \cup {Partial},
             ProcessSaveData(u, n, c)
      PROVE  TypeOK'
  BY <1>2 DEF ProcessSaveData, MakeUserDir, TypeOK
<1>3. ASSUME NEW u \in Users, SaveData(u) PROVE TypeOK'
  BY <1>2, <1>3 DEF SaveData
<1>4. ASSUME NEW u \in Users, SaveDataFails(u) PROVE TypeOK'
  BY <1>2, <1>4 DEF SaveDataFails
<1>5. CASE Restart
  BY <1>5 DEF Restart, TypeOK
<1>6. CASE UNCHANGED serverVars
  BY <1>6 DEF serverVars, TypeOK
<1> QED
  BY <1>1, <1>3, <1>4, <1>5, <1>6 DEF ServerNext

(* The server keeps its types: the type invariant of the run.              *)
THEOREM TypeCorrect == ServerSpec => []TypeOK
<1>1. ServerInit => TypeOK
  BY DEF ServerInit, TypeOK
<1> QED
  BY <1>1, TypeStep, PTL DEF ServerSpec

(* What a step does to the files, in the one form the proofs below need.   *)
LEMMA StepWrites ==
  ASSUME [ServerNext]_serverVars
  PROVE  \/ dat' = dat
         \/ \E u \in Users, n \in Numbers, c \in Payloads \cup {Partial} : Writes(u, n, c)
<1>1. ASSUME NEW u \in Users, GetNewImage(u) PROVE dat' = dat
  BY <1>1 DEF GetNewImage, ProcessNewImage
<1>2. ASSUME NEW u \in Users, NEW n \in Numbers, NEW c \in Payloads \cup {Partial},
             ProcessSaveData(u, n, c)
      PROVE  Writes(u, n, c)
  BY <1>2 DEF ProcessSaveData, Writes
<1>3. ASSUME NEW u \in Users, SaveData(u) \/ SaveDataFails(u)
      PROVE  \E n \in Numbers, c \in Payloads \cup {Partial} : Writes(u, n, c)
  BY <1>2, <1>3 DEF SaveData, SaveDataFails
<1>4. CASE Restart
  BY <1>4 DEF Restart
<1>5. CASE UNCHANGED serverVars
  BY <1>5 DEF serverVars
<1> QED
  BY <1>1, <1>3, <1>4, <1>5 DEF ServerNext

(* Where a write puts a file: a number the user had none at, and that the  *)
(* write adds the user, and nobody else, to the annotators of that number. *)
LEMMA WriteAddsAnnotator ==
  ASSUME TypeOK, NEW u \in Users, NEW n \in Numbers, NEW c \in Payloads \cup {Partial},
         Writes(u, n, c)
  PROVE  /\ ~HasDat(u, n)
         /\ Annotators(n)' = Annotators(n) \cup {u}
         /\ u \notin Annotators(n)
         /\ \A m \in Numbers : m # n => Annotators(m)' = Annotators(m)
         /\ \A v \in Users, m \in Numbers :
               HasDat(v, m)' <=> (HasDat(v, m) \/ (v = u /\ m = n))
<1>1. ~HasDat(u, n)
  BY DEF Writes, IsCurrentImageNumber, OpenNumbers, AfterLast, Numbers
<1>2. c # NoFile
  BY ContentAssumption
<1>3. \A v \in Users, m \in Numbers :
         dat'[v][m] = IF v = u /\ m = n THEN c ELSE dat[v][m]
  BY DEF Writes, TypeOK
<1>4. \A v \in Users, m \in Numbers :
         HasDat(v, m)' <=> (HasDat(v, m) \/ (v = u /\ m = n))
  BY <1>1, <1>2, <1>3 DEF HasDat
<1> QED
  BY <1>1, <1>4 DEF Annotators

(* The users of an image are finitely many, so their number is a natural.  *)
LEMMA CountIsNat ==
  ASSUME NEW n \in Numbers
  PROVE  IsFiniteSet(Annotators(n)) /\ CountFileOccurrences(n) \in Nat
  BY UsersAssumption, FS_Subset, FS_CardinalityType
  DEF Annotators, CountFileOccurrences

(* A step never lowers the number of users who have segmented an image, and *)
(* raises it only where it was below the quota.                            *)
LEMMA CountGrows ==
  ASSUME TypeOK, [ServerNext]_serverVars, NEW m \in Numbers
  PROVE  /\ CountFileOccurrences(m)' >= CountFileOccurrences(m)
         /\ \/ CountFileOccurrences(m)' = CountFileOccurrences(m)
            \/ /\ CountFileOccurrences(m) < MaxPerImage
               /\ CountFileOccurrences(m)' = CountFileOccurrences(m) + 1
<1>1. CASE dat' = dat
  BY <1>1, CountIsNat DEF CountFileOccurrences, Annotators, HasDat
<1>2. ASSUME NEW u \in Users, NEW n \in Numbers, NEW c \in Payloads \cup {Partial},
             Writes(u, n, c)
      PROVE  \/ CountFileOccurrences(m)' = CountFileOccurrences(m)
             \/ /\ CountFileOccurrences(m) < MaxPerImage
                /\ CountFileOccurrences(m)' = CountFileOccurrences(m) + 1
  <2>1. CASE m # n
    BY <1>2, <2>1, WriteAddsAnnotator DEF CountFileOccurrences
  <2>2. CASE m = n
    <3>1. CountFileOccurrences(n) < MaxPerImage
      BY <1>2 DEF Writes, IsCurrentImageNumber, OpenNumbers
    <3>2. Annotators(n)' = Annotators(n) \cup {u} /\ u \notin Annotators(n)
      BY <1>2, WriteAddsAnnotator
    <3>3. CountFileOccurrences(n)' = CountFileOccurrences(n) + 1
      BY <3>2, CountIsNat, FS_AddElement DEF CountFileOccurrences
    <3> QED
      BY <2>2, <3>1, <3>3
  <2> QED
    BY <2>1, <2>2
<1> QED
  BY <1>1, <1>2, StepWrites, CountIsNat

-----------------------------------------------------------------------------
LEMMA QuotaStep == TypeOK /\ QuotaRespected /\ [ServerNext]_serverVars => QuotaRespected'
<1> SUFFICES ASSUME TypeOK, QuotaRespected, [ServerNext]_serverVars, NEW n \in Numbers
             PROVE  CountFileOccurrences(n)' <= MaxPerImage
  BY DEF QuotaRespected
<1>1. CountFileOccurrences(n) <= MaxPerImage
  BY DEF QuotaRespected
<1> QED
  BY <1>1, CountGrows, CountIsNat, NumbersAssumption

(* No image is segmented by more users than the quota, whatever the order  *)
(* of the requests, however often a client repeats one and whenever the    *)
(* server crashes.                                                         *)
THEOREM QuotaHolds == ServerSpec => []QuotaRespected
<1>1. ServerInit => QuotaRespected
  <2> SUFFICES ASSUME ServerInit, NEW n \in Numbers
               PROVE  CountFileOccurrences(n) <= MaxPerImage
    BY DEF QuotaRespected
  <2>1. Annotators(n) = {}
    BY DEF ServerInit, Annotators, HasDat
  <2> QED
    BY <2>1, FS_EmptySet, NumbersAssumption DEF CountFileOccurrences
<1> QED
  BY <1>1, QuotaStep, TypeCorrect, PTL DEF ServerSpec

LEMMA NoGapStep == TypeOK /\ NoneLeftBehind /\ [ServerNext]_serverVars => NoneLeftBehind'
<1> SUFFICES ASSUME TypeOK, NoneLeftBehind, [ServerNext]_serverVars,
                    NEW v \in Users, NEW k \in Numbers, HasDat(v, k)',
                    NEW m \in 1..(k - 1)
             PROVE  HasDat(v, m)' \/ CountFileOccurrences(m)' >= MaxPerImage
  BY DEF NoneLeftBehind
<1>0. m \in Numbers /\ m < k
  BY NumbersAssumption DEF Numbers
<1>1. ASSUME HasDat(v, m) \/ CountFileOccurrences(m) >= MaxPerImage, 
             \A w \in Users, j \in Numbers : HasDat(w, j) => HasDat(w, j)'
      PROVE  HasDat(v, m)' \/ CountFileOccurrences(m)' >= MaxPerImage
  BY <1>0, <1>1, CountGrows, CountIsNat, NumbersAssumption
<1>2. CASE dat' = dat
  <2>1. HasDat(v, k)
    BY <1>2 DEF HasDat
  <2>2. HasDat(v, m) \/ CountFileOccurrences(m) >= MaxPerImage
    BY <2>1 DEF NoneLeftBehind
  <2> QED
    BY <1>1, <1>2, <2>2 DEF HasDat
<1>3. ASSUME NEW u \in Users, NEW n \in Numbers, NEW c \in Payloads \cup {Partial},
             Writes(u, n, c)
      PROVE  HasDat(v, m)' \/ CountFileOccurrences(m)' >= MaxPerImage
  <2>1. \A w \in Users, j \in Numbers :
           HasDat(w, j)' <=> (HasDat(w, j) \/ (w = u /\ j = n))
    BY <1>3, WriteAddsAnnotator
  <2>2. CASE HasDat(v, k)
    BY <1>1, <2>1, <2>2 DEF NoneLeftBehind
  <2>3. CASE v = u /\ k = n
    <3>1. CASE AfterLast(u, m)
      <4>1. ~(CountFileOccurrences(m) < MaxPerImage)
        BY <1>0, <1>3, <2>3, <3>1 DEF Writes, IsCurrentImageNumber, OpenNumbers, Numbers
      <4> QED
        BY <1>0, <1>1, <2>1, <4>1, CountIsNat, NumbersAssumption
    <3>2. CASE ~AfterLast(u, m)
      <4>1. PICK j \in Numbers : HasDat(u, j) /\ ~(j < m)
        BY <3>2 DEF AfterLast
      <4>2. j = m \/ m \in 1..(j - 1)
        BY <1>0, <4>1, NumbersAssumption DEF Numbers
      <4>3. HasDat(u, m) \/ CountFileOccurrences(m) >= MaxPerImage
        BY <4>1, <4>2 DEF NoneLeftBehind
      <4> QED
        BY <1>1, <2>1, <2>3, <4>3
    <3> QED
      BY <3>1, <3>2
  <2> QED
    BY <2>1, <2>2, <2>3
<1> QED
  BY <1>2, <1>3, StepWrites

(* No user is sent past an image that still needs a segmentation and that  *)
(* the user has not segmented.                                             *)
THEOREM NothingSkipped == ServerSpec => []NoneLeftBehind
<1>1. ServerInit => NoneLeftBehind
  BY DEF ServerInit, NoneLeftBehind, HasDat
<1> QED
  BY <1>1, NoGapStep, TypeCorrect, PTL DEF ServerSpec

(* The images fill up from the first one.  Below its quota, an image has   *)
(* among its annotators those of every later image.                        *)
THEOREM InOrder == ServerSpec => []FilledInOrder
<1>1. QuotaRespected /\ NoneLeftBehind => FilledInOrder
  <2> SUFFICES ASSUME QuotaRespected, NoneLeftBehind,
                      NEW m \in Numbers, NEW n \in Numbers, m < n
               PROVE  CountFileOccurrences(n) <= CountFileOccurrences(m)
    BY DEF FilledInOrder
  <2>1. m \in 1..(n - 1)
    BY NumbersAssumption DEF Numbers
  <2>2. CASE CountFileOccurrences(m) >= MaxPerImage
    BY <2>2, CountIsNat, NumbersAssumption DEF QuotaRespected
  <2>3. CASE ~(CountFileOccurrences(m) >= MaxPerImage)
    <3>1. Annotators(n) \subseteq Annotators(m)
      BY <2>1, <2>3 DEF NoneLeftBehind, Annotators
    <3> QED
      BY <3>1, CountIsNat, FS_Subset DEF CountFileOccurrences
  <2> QED
    BY <2>2, <2>3
<1> QED
  BY <1>1, QuotaHolds, NothingSkipped, PTL

(* No save ever replaces a file, and a user's files are written in the     *)
(* order of their numbers.                                                 *)
THEOREM NothingOverwritten == ServerSpec => AppendOnly
<1>1. TypeOK /\ [ServerNext]_serverVars =>
        [\A u \in Users, n \in Numbers :
           dat'[u][n] # dat[u][n] => ~HasDat(u, n) /\ AfterLast(u, n)]_dat
  <2> SUFFICES ASSUME TypeOK, [ServerNext]_serverVars, NEW v \in Users, NEW m \in Numbers,
                      dat'[v][m] # dat[v][m]
               PROVE  ~HasDat(v, m) /\ AfterLast(v, m)
    OBVIOUS
  <2>1. PICK u \in Users, n \in Numbers, c \in Payloads \cup {Partial} : Writes(u, n, c)
    BY StepWrites
  <2>2. v = u /\ m = n
    BY <2>1 DEF Writes, TypeOK
  <2>3. AfterLast(u, n)
    BY <2>1 DEF Writes, IsCurrentImageNumber, OpenNumbers
  <2> QED
    BY <2>1, <2>2, <2>3, WriteAddsAnnotator
<1> QED
  BY <1>1, TypeCorrect, PTL DEF ServerSpec, AppendOnly

-----------------------------------------------------------------------------
(* Part II, pages and server.  What the server says of an image stays true *)
(* enough, whatever happens until the page acts on it: an image offered to *)
(* a user is at all later times either the current one or settled.         *)

(* Files are only added and images only fill up.                           *)
LEMMA FilesStay ==
  ASSUME TypeOK, [ServerNext]_serverVars, NEW u \in Users, NEW n \in Numbers, HasDat(u, n)
  PROVE  HasDat(u, n)' /\ dat'[u][n] = dat[u][n]
<1>1. CASE dat' = dat
  BY <1>1 DEF HasDat
<1>2. ASSUME NEW v \in Users, NEW k \in Numbers, NEW c \in Payloads \cup {Partial},
             Writes(v, k, c)
      PROVE  HasDat(u, n)' /\ dat'[u][n] = dat[u][n]
  <2>1. ~HasDat(v, k) /\ HasDat(u, n)'
    BY <1>2, WriteAddsAnnotator
  <2>2. ~(u = v /\ n = k)
    BY <2>1
  <2>3. dat'[u][n] = dat[u][n]
    BY <1>2, <2>2 DEF Writes, TypeOK
  <2> QED
    BY <2>1, <2>3
<1> QED
  BY <1>1, <1>2, StepWrites

LEMMA SettledStays ==
  ASSUME TypeOK, [ServerNext]_serverVars, NEW u \in Users, NEW n \in Numbers, Settled(u, n)
  PROVE  Settled(u, n)'
  BY FilesStay, CountGrows, CountIsNat, NumbersAssumption DEF Settled

(* A number that is not open to a user never is again, so that an offer is *)
(* for good.                                                               *)
LEMMA OfferStands ==
  ASSUME TypeOK, [ServerNext]_serverVars, NEW u \in Users, NEW n, Offered(u, n)
  PROVE  Offered(u, n)'
<1>1. ASSUME NEW m \in Numbers, m \in OpenNumbers(u)' PROVE m \in OpenNumbers(u)
  <2>1. AfterLast(u, m)
    BY <1>1, FilesStay DEF OpenNumbers, AfterLast
  <2>2. CountFileOccurrences(m) < MaxPerImage
    BY <1>1, CountGrows, CountIsNat, NumbersAssumption DEF OpenNumbers
  <2> QED
    BY <2>1, <2>2 DEF OpenNumbers
<1> QED
  BY <1>1 DEF Offered, OpenNumbers

(* An image offered to a user is the one the server would file the user's  *)
(* segmentation under, or needs none of the user any more.                 *)
LEMMA OfferIsCurrentOrSettled ==
  ASSUME NoneLeftBehind, NEW u \in Users, NEW n, Offered(u, n)
  PROVE  IsCurrentImageNumber(u, n) \/ Settled(u, n)
<1>1. n \in Numbers
  BY NumbersAssumption DEF Offered, Images, Numbers
<1>2. CASE n \in OpenNumbers(u)
  BY <1>2 DEF Offered, IsCurrentImageNumber
<1>3. CASE ~AfterLast(u, n)
  <2>1. PICK m \in Numbers : HasDat(u, m) /\ ~(m < n)
    BY <1>3 DEF AfterLast
  <2>2. m = n \/ n \in 1..(m - 1)
    BY <1>1, <2>1, NumbersAssumption DEF Numbers
  <2> QED
    BY <2>1, <2>2 DEF NoneLeftBehind, Settled
<1>4. CASE n \notin OpenNumbers(u) /\ AfterLast(u, n)
  BY <1>1, <1>4, CountIsNat, NumbersAssumption DEF OpenNumbers, Settled
<1> QED
  BY <1>2, <1>3, <1>4

(* The image the server gives, and the one it would file under, are the    *)
(* first of those that are open to the user.                               *)
LEMMA CurrentIsOffered ==
  ASSUME NEW u, NEW n \in Images, IsCurrentImageNumber(u, n)
  PROVE  Offered(u, n)
  BY DEF IsCurrentImageNumber, Offered

LEMMA OfferedBeforeCurrent ==
  ASSUME NEW u \in Users, NEW i, Offered(u, i), NEW n \in Numbers, IsCurrentImageNumber(u, n),
         NoneLeftBehind, i # n
  PROVE  i < n /\ Settled(u, i)
<1>1. i \in Images /\ i <= n /\ ~IsCurrentImageNumber(u, i)
  BY NumbersAssumption DEF Offered, IsCurrentImageNumber, Images, Numbers, OpenNumbers
<1> QED
  BY <1>1, OfferIsCurrentOrSettled, NumbersAssumption DEF Images, Numbers
-----------------------------------------------------------------------------
(* Which messages are under way after one was sent or taken, and after a   *)
(* page was left.                                                          *)
LEMMA Sent ==
  ASSUME NEW b, NEW m PROVE BagToSet(Send(b, m)) = BagToSet(b) \cup {m}
  BY DEF Send, BagToSet, SetToBag, (+)

LEMMA Taken == ASSUME NEW m PROVE BagToSet(Take(m)) \subseteq BagToSet(net)
  BY DEF Take, BagToSet, SetToBag, (-)

LEMMA Abandoned ==
  ASSUME NEW s, NEW o \in BagToSet(Abandon(s))
  PROVE  \/ o \in BagToSet(net) /\ (o.session = s => ~o.live)
         \/ \E m \in BagToSet(net) : /\ m.session = s
                                     /\ m.type \in {"getNewImage", "saveData"}
                                     /\ o = [m EXCEPT !.live = FALSE]
  BY DEF Abandon, BagToSet, (+)

(* A message that is fit to be under way stays so, and so does a page.     *)
LEMMA MessageStaysOK ==
  ASSUME ServiceTypeOK, [ServerNext]_serverVars, userID' = userID, NEW m, MessageOK(m)
  PROVE  MessageOK(m)'
<1>1. m.session \in Sessions /\ userID[m.session] \in Users
  BY DEF MessageOK, Messages, ServiceTypeOK
<1>2. m.type = "image" => Offered(userID[m.session], m.number)'
  BY <1>1, OfferStands DEF MessageOK, ServiceTypeOK
<1>3. m.type = "saveData" => \A i \in m.regions : Offered(m.uid, i)'
  BY <1>1, OfferStands DEF MessageOK, ServiceTypeOK
<1> QED
  BY <1>2, <1>3 DEF MessageOK

LEMMA PageStaysOK ==
  ASSUME ServiceTypeOK, [ServerNext]_serverVars, userID' = userID, NEW s \in Sessions,
         PageOK(s), shown'[s] = shown[s], picture'[s] = picture[s], loading'[s] = loading[s],
         drawing'[s] = drawing[s]
  PROVE  PageOK(s)'
<1>1. userID[s] \in Users /\ OnPage(s)' = OnPage(s)
  BY DEF ServiceTypeOK, OnPage
<1>2. \A i \in OnPage(s) : Offered(userID[s], i)'
  BY <1>1, OfferStands DEF PageOK, ServiceTypeOK
<1> QED
  BY <1>1, <1>2 DEF PageOK

(* A step of the server files what it files under an image that is not     *)
(* before those it was drawn on.                                           *)
LEMMA FilingStaysOK ==
  ASSUME ServiceTypeOK, NoneLeftBehind, MisfiledOnlyWhenSettled, [ServerNext]_serverVars,
         \A u \in Users, n \in Numbers :
           dat'[u][n] # dat[u][n] /\ dat'[u][n] \in Payloads =>
             IsCurrentImageNumber(u, n) /\ \A i \in dat'[u][n] : Offered(u, i)
  PROVE  MisfiledOnlyWhenSettled'
<1> SUFFICES ASSUME NEW u \in Users, NEW n \in Numbers, dat'[u][n] \in Payloads,
                    NEW i \in dat'[u][n], i # n
             PROVE  Settled(u, i)' /\ i < n
  BY DEF MisfiledOnlyWhenSettled
<1>1. Settled(u, i) /\ i < n
  <2>1. CASE dat'[u][n] = dat[u][n]
    BY <2>1 DEF MisfiledOnlyWhenSettled
  <2>2. CASE dat'[u][n] # dat[u][n]
    BY <2>2, OfferedBeforeCurrent
  <2> QED
    BY <2>1, <2>2
<1>2. i \in Numbers
  BY SessionsAssumption, NumbersAssumption DEF Images, Numbers
<1> QED
  BY <1>1, <1>2, SettledStays DEF ServiceTypeOK

-----------------------------------------------------------------------------
LEMMA InitiallyOK == Init => IInv
<1> SUFFICES ASSUME Init PROVE IInv
  OBVIOUS
<1>1. ServiceTypeOK
  BY SessionsAssumption DEF Init, ServerInit, ServiceTypeOK, TypeOK
<1>2. NoneLeftBehind /\ MisfiledOnlyWhenSettled
  BY ContentAssumption DEF Init, ServerInit, NoneLeftBehind, MisfiledOnlyWhenSettled, HasDat
<1>3. QuotaRespected
  <2>1. ASSUME NEW n \in Numbers PROVE CountFileOccurrences(n) <= MaxPerImage
    <3>1. Annotators(n) = {}
      BY DEF Init, ServerInit, Annotators, HasDat
    <3> QED
      BY <3>1, FS_EmptySet, NumbersAssumption DEF CountFileOccurrences
  <2> QED
    BY <2>1 DEF QuotaRespected
<1>4. \A s \in Sessions : OnPage(s) = {} /\ picture[s] = 0
  BY DEF Init, OnPage
<1>5. (\A s \in Sessions : PageOK(s)) /\ BagToSet(net) = {}
  BY <1>4 DEF Init, PageOK, EmptyBag, SetToBag, BagToSet
<1> QED
  BY <1>1, <1>2, <1>3, <1>5 DEF IInv

(* The part of the invariant that is the server's own.                     *)
LEMMA ServerPart ==
  ASSUME IInv, [ServerNext]_serverVars
  PROVE  TypeOK' /\ QuotaRespected' /\ NoneLeftBehind'
  BY TypeStep, QuotaStep, NoGapStep DEF IInv, ServiceTypeOK

PageBecomes(s, n, p, l, d) ==
  /\ shown' = [shown EXCEPT ![s] = n] /\ picture' = [picture EXCEPT ![s] = p]
  /\ loading' = [loading EXCEPT ![s] = l] /\ drawing' = [drawing EXCEPT ![s] = d]

MayBeOn(s, D) ==
  /\ \A i \in D : Offered(userID[s], i)
  /\ \A i, j \in D : i # j => D \subseteq {i, j}

(* A step of page s changes nothing of the others.  It leaves the messages *)
(* of others alone, and what it sends is fit to be sent.                   *)
LEMMA PageStepKeeps ==
  ASSUME IInv, NEW s \in Sessions, UNCHANGED <<serverVars, userID>>,
         NEW n \in Images \cup {0}, NEW p \in Images \cup {0}, NEW l \in Images \cup {0},
         NEW d \in SUBSET Images,
         PageBecomes(s, n, p, l, d),
         MayBeOn(s, (d \cup {n, l}) \ {0}),
         p # 0 => n = p,
         \A m \in BagToSet(net)' : MessageOK(m)
  PROVE  IInv'
<1>1. [ServerNext]_serverVars
  OBVIOUS
<1>2. TypeOK' /\ QuotaRespected' /\ NoneLeftBehind'
  BY <1>1, ServerPart
<1>3. ServiceTypeOK'
  BY <1>2 DEF IInv, ServiceTypeOK, PageBecomes
<1>4. MisfiledOnlyWhenSettled'
  BY <1>1, FilingStaysOK DEF IInv, serverVars
<1>5. \A m \in BagToSet(net)' : MessageOK(m)'
  BY <1>1, MessageStaysOK DEF IInv
<1>6. ASSUME NEW q \in Sessions PROVE PageOK(q)'
  <2>1. userID[q] \in Users
    BY DEF IInv, ServiceTypeOK
  <2>2. CASE q = s
    <3>1. shown'[s] = n /\ picture'[s] = p /\ loading'[s] = l /\ drawing'[s] = d
      BY DEF IInv, ServiceTypeOK, PageBecomes
    <3>2. OnPage(s)' = (d \cup {n, l}) \ {0}
      BY <3>1 DEF OnPage
    <3>3. \A i \in OnPage(s)' : Offered(userID[s], i)'
      BY <1>1, <2>1, <2>2, <3>2, OfferStands DEF IInv, ServiceTypeOK, MayBeOn
    <3>4. \A i, j \in OnPage(s)' : i # j => OnPage(s)' \subseteq {i, j}
      BY <3>2 DEF MayBeOn
    <3> QED
      BY <2>2, <3>1, <3>3, <3>4 DEF PageOK
  <2>3. CASE q # s
    BY <1>1, <2>3, PageStaysOK DEF IInv, ServiceTypeOK, PageBecomes
  <2> QED
    BY <2>2, <2>3
<1> QED
  BY <1>2, <1>3, <1>4, <1>5, <1>6 DEF IInv

(* What leaves a page no image that it did not have needs nothing more.    *)
LEMMA PageStepOwn ==
  ASSUME IInv, NEW s \in Sessions, UNCHANGED <<serverVars, userID>>,
         NEW n \in Images \cup {0}, NEW p \in Images \cup {0}, NEW l \in Images \cup {0},
         NEW d \in SUBSET Images,
         PageBecomes(s, n, p, l, d),
         (d \cup {n, l}) \ {0} \subseteq OnPage(s),
         p # 0 => n = p,
         \A m \in BagToSet(net)' : MessageOK(m)
  PROVE  IInv'
<1>1. MayBeOn(s, (d \cup {n, l}) \ {0})
  BY DEF IInv, PageOK, MayBeOn
<1> QED
  BY <1>1, PageStepKeeps

LEMMA PageStepOK == ASSUME IInv, NEW s \in Sessions, PageStep(s) PROVE IInv'
<1>0. /\ userID[s] \in Users /\ shown[s] \in Images \cup {0} /\ picture[s] \in Images \cup {0}
      /\ loading[s] \in Images \cup {0}
      /\ drawing[s] \in SUBSET Images /\ drawing[s] \in Payloads
      /\ shown = [shown EXCEPT ![s] = shown[s]] /\ picture = [picture EXCEPT ![s] = picture[s]]
      /\ loading = [loading EXCEPT ![s] = loading[s]] /\ drawing = [drawing EXCEPT ![s] = drawing[s]]
  BY SessionsAssumption DEF IInv, ServiceTypeOK
<1>z. 0 \in Images \cup {0} /\ {} \in SUBSET Images /\ 0 \notin Images
  BY NumbersAssumption DEF Images
<1>p. PageOK(s) /\ (picture[s] # 0 => shown[s] = picture[s])
  BY DEF IInv, PageOK
<1>g. MessageOK(GetNewImageRequest(s, userID[s]))
  BY <1>0 DEF MessageOK, Messages, GetNewImageRequest
<1>m. net' = net => \A m \in BagToSet(net)' : MessageOK(m)
  BY DEF IInv
<1>1. CASE InitApp(s)
  <2>1. ASSUME NEW o \in BagToSet(Abandon(s)) PROVE MessageOK(o)
    <3>1. CASE o \in BagToSet(net)
      BY <3>1 DEF IInv
    <3>2. ASSUME NEW m \in BagToSet(net), m.type \in {"getNewImage", "saveData"},
                 o = [m EXCEPT !.live = FALSE]
          PROVE  MessageOK(o)
      <4>1. MessageOK(m) /\ m \in Messages
        BY DEF IInv, MessageOK
      <4>2. o \in Messages /\ o.type = m.type /\ o.session = m.session /\ o.uid = m.uid
            /\ (m.type = "saveData" => o.regions = m.regions)
        BY <3>2, <4>1 DEF Messages
      <4> QED
        BY <3>2, <4>1, <4>2 DEF MessageOK
    <3> QED
      BY <3>1, <3>2, Abandoned
  <2>2. \A m \in BagToSet(net)' : MessageOK(m)
    BY <1>1, <1>g, <2>1, Sent DEF InitApp
  <2>3. UNCHANGED <<serverVars, userID>> /\ PageBecomes(s, 0, 0, 0, {})
    BY <1>1 DEF InitApp, PageBecomes
  <2>4. ({} \cup {0, 0}) \ {0} \subseteq OnPage(s)
    OBVIOUS
  <2> QED
    BY <1>z, <2>2, <2>3, <2>4, PageStepOwn
<1>2. CASE Redraw(s)
  <2>1. PICK d \in SUBSET drawing[s] : drawing' = [drawing EXCEPT ![s] = d]
    BY <1>2 DEF Redraw
  <2>2. /\ UNCHANGED <<serverVars, userID>> /\ net' = net
        /\ PageBecomes(s, picture[s], picture[s], loading[s], d)
    BY <1>0, <1>2, <2>1 DEF Redraw, PageBecomes
  <2>3. (d \cup {picture[s], loading[s]}) \ {0} \subseteq OnPage(s)
    BY <1>p DEF OnPage
  <2> QED
    BY <1>0, <1>m, <2>1, <2>2, <2>3, PageStepOwn
<1>3. CASE DrawRegion(s)
  <2>1. PICK d : d = drawing[s] \cup ({shown[s]} \ {0})
    OBVIOUS
  <2>2. /\ UNCHANGED <<serverVars, userID>> /\ net' = net
        /\ PageBecomes(s, picture[s], picture[s], loading[s], d)
    BY <1>0, <1>3, <2>1 DEF DrawRegion, PageBecomes
  <2>3. d \in SUBSET Images /\ (d \cup {picture[s], loading[s]}) \ {0} \subseteq OnPage(s)
    BY <1>0, <1>p, <2>1 DEF OnPage
  <2> QED
    BY <1>0, <1>m, <2>2, <2>3, PageStepOwn
<1>4. CASE SaveImageData(s)
  <2>1. PICK n \in {shown[s], picture[s]} : shown' = [shown EXCEPT ![s] = n]
    BY <1>4 DEF SaveImageData
  <2>2. drawing[s] \subseteq OnPage(s)
    BY <1>0, <1>z DEF OnPage
  <2>3. MessageOK(SaveDataRequest(s, userID[s], drawing[s]))
    BY <1>0, <1>p, <2>2 DEF MessageOK, Messages, SaveDataRequest, PageOK
  <2>4. \A m \in BagToSet(net)' : MessageOK(m)
    BY <1>4, <2>3, Sent DEF SaveImageData, IInv
  <2>5. /\ UNCHANGED <<serverVars, userID>>
        /\ PageBecomes(s, n, picture[s], loading[s], drawing[s])
    BY <1>0, <1>4, <2>1 DEF SaveImageData, PageBecomes
  <2>6. /\ n \in Images \cup {0} /\ (picture[s] # 0 => n = picture[s])
        /\ (drawing[s] \cup {n, loading[s]}) \ {0} \subseteq OnPage(s)
    BY <1>0, <1>p, <2>1 DEF OnPage
  <2> QED
    BY <1>0, <2>1, <2>4, <2>5, <2>6, PageStepOwn
<1>5. CASE LoadCanvasImage(s)
  <2>1. \A m \in BagToSet(net)' : MessageOK(m)
    BY <1>5, <1>g, Sent, Taken DEF LoadCanvasImage, IInv
  <2>2. UNCHANGED <<serverVars, userID>> /\ PageBecomes(s, shown[s], 0, 0, drawing[s])
    BY <1>0, <1>5 DEF LoadCanvasImage, PageBecomes
  <2>3. (drawing[s] \cup {shown[s], 0}) \ {0} \subseteq OnPage(s)
    BY DEF OnPage
  <2> QED
    BY <1>0, <1>z, <2>1, <2>2, <2>3, PageStepOwn
<1>6. ASSUME NEW n \in Images, ImageArrives(s, n) PROVE IInv'
  <2>1. \A m \in BagToSet(net)' : MessageOK(m)
    BY <1>6, Taken DEF ImageArrives, IInv
  <2>2. Offered(userID[s], n)
    BY <1>6 DEF ImageArrives, InFlight, BagIn, IInv, MessageOK, Image
  <2>3. MayBeOn(s, ({} \cup {shown[s], n}) \ {0})
    BY <1>p, <2>2 DEF PageOK, OnPage, MayBeOn
  <2>4. UNCHANGED <<serverVars, userID>> /\ PageBecomes(s, shown[s], picture[s], n, {})
    BY <1>0, <1>6 DEF ImageArrives, PageBecomes
  <2>5. n \in Images \cup {0}
    OBVIOUS
  <2> QED
    BY <1>0, <1>z, <1>p, <2>1, <2>3, <2>4, <2>5, PageStepKeeps
<1>7. CASE ImageDrawn(s)
  <2>1. /\ UNCHANGED <<serverVars, userID>> /\ net' = net
        /\ PageBecomes(s, loading[s], loading[s], 0, drawing[s])
    BY <1>0, <1>7 DEF ImageDrawn, PageBecomes
  <2>2. (drawing[s] \cup {loading[s], 0}) \ {0} \subseteq OnPage(s)
    BY DEF OnPage
  <2> QED
    BY <1>0, <1>z, <1>m, <2>1, <2>2, PageStepOwn
<1> QED
  BY <1>1, <1>2, <1>3, <1>4, <1>5, <1>6, <1>7 DEF PageStep

-----------------------------------------------------------------------------
(* A step of the server changes nothing of the pages.                      *)
LEMMA ServerStepKeeps ==
  ASSUME IInv, [ServerNext]_serverVars, UNCHANGED <<userID, pageVars>>,
         \A m \in BagToSet(net)' : MessageOK(m),
         \A u \in Users, n \in Numbers :
           dat'[u][n] # dat[u][n] /\ dat'[u][n] \in Payloads =>
             IsCurrentImageNumber(u, n) /\ \A i \in dat'[u][n] : Offered(u, i)
  PROVE  IInv'
<1>1. TypeOK' /\ QuotaRespected' /\ NoneLeftBehind'
  BY ServerPart
<1>2. ServiceTypeOK'
  BY <1>1 DEF IInv, ServiceTypeOK, pageVars
<1>3. MisfiledOnlyWhenSettled'
  BY FilingStaysOK DEF IInv
<1>4. \A m \in BagToSet(net)' : MessageOK(m)'
  BY MessageStaysOK DEF IInv
<1>5. \A s \in Sessions : PageOK(s)'
  BY PageStaysOK DEF IInv, pageVars
<1> QED
  BY <1>1, <1>2, <1>3, <1>4, <1>5 DEF IInv

(* What the handlers do is a step of the server for the user of the page.  *)
LEMMA RequestOK ==
  ASSUME IInv, NEW m \in BagToSet(net), m.type \in {"getNewImage", "saveData"}
  PROVE  /\ MessageOK(m) /\ m.session \in Sessions /\ m.uid \in Users
         /\ m.uid = userID[m.session]
         /\ m.type = "saveData" => m.regions \in Payloads
  BY DEF IInv, MessageOK, Messages

LEMMA HandleNewImageOK ==
  ASSUME IInv, NEW m \in BagToSet(net), HandleNewImage(m) PROVE IInv' /\ [ServerNext]_serverVars
<1>1. PICK n \in Numbers :
        /\ ProcessNewImage(m.uid, n)
        /\ net' = IF m.live /\ n \in Images THEN Send(Take(m), Image(m.session, n)) ELSE Take(m)
  BY DEF HandleNewImage
<1>2. MessageOK(m) /\ m.session \in Sessions /\ m.uid \in Users /\ m.uid = userID[m.session]
  BY RequestOK DEF HandleNewImage
<1>3. ServerNext
  BY <1>1, <1>2 DEF ServerNext, GetNewImage
<1>4. dat' = dat
  BY <1>1 DEF ProcessNewImage
<1>5. n \in Images => MessageOK(Image(m.session, n))
  BY <1>1, <1>2, CurrentIsOffered DEF ProcessNewImage, MessageOK, Messages, Image
<1>6. \A o \in BagToSet(net)' : MessageOK(o)
  BY <1>1, <1>5, Sent, Taken DEF IInv
<1> QED
  BY <1>3, <1>4, <1>6, ServerStepKeeps DEF HandleNewImage

LEMMA FilingOK ==
  ASSUME IInv, NEW m \in BagToSet(net), m.type = "saveData",
         NEW c \in {m.regions, Partial}, NEW n \in Numbers, ProcessSaveData(m.uid, n, c),
         UNCHANGED <<userID, pageVars>>,
         \A o \in BagToSet(net)' : o \in BagToSet(net) \/ o = Ok(m.session)
  PROVE  IInv' /\ [ServerNext]_serverVars
<1>1. /\ MessageOK(m) /\ m.session \in Sessions /\ m.uid \in Users /\ m.uid = userID[m.session]
      /\ m.regions \in Payloads
  BY RequestOK
<1>2. ServerNext
  BY <1>1 DEF ServerNext, SaveData, SaveDataFails
<1>3. IsCurrentImageNumber(m.uid, n) /\ dat' = [dat EXCEPT ![m.uid][n] = c]
  BY DEF ProcessSaveData
<1>4. \A u \in Users, k \in Numbers :
        dat'[u][k] # dat[u][k] => u = m.uid /\ k = n /\ dat'[u][k] = c
  BY <1>1, <1>3 DEF IInv, ServiceTypeOK, TypeOK
<1>5. \A u \in Users, k \in Numbers :
        dat'[u][k] # dat[u][k] /\ dat'[u][k] \in Payloads =>
          IsCurrentImageNumber(u, k) /\ \A i \in dat'[u][k] : Offered(u, i)
  BY <1>1, <1>3, <1>4, ContentAssumption DEF MessageOK
<1>6. MessageOK(Ok(m.session))
  BY <1>1 DEF MessageOK, Messages, Ok
<1>7. \A o \in BagToSet(net)' : MessageOK(o)
  BY <1>6 DEF IInv
<1> QED
  BY <1>2, <1>5, <1>7, ServerStepKeeps

LEMMA HandleSaveDataOK ==
  ASSUME IInv, NEW m \in BagToSet(net), HandleSaveData(m) PROVE IInv' /\ [ServerNext]_serverVars
<1>1. \A o \in BagToSet(net)' : o \in BagToSet(net) \/ o = Ok(m.session)
  BY Sent, Taken DEF HandleSaveData
<1> QED
  BY <1>1, FilingOK DEF HandleSaveData

LEMMA HandleSaveDataFailsOK ==
  ASSUME IInv, NEW m \in BagToSet(net), HandleSaveDataFails(m)
  PROVE  IInv' /\ [ServerNext]_serverVars
<1>1. \A o \in BagToSet(net)' : o \in BagToSet(net) \/ o = Ok(m.session)
  BY Taken DEF HandleSaveDataFails
<1> QED
  BY <1>1, FilingOK DEF HandleSaveDataFails

LEMMA LoseOK == ASSUME IInv, NEW m \in BagToSet(net), Lose(m) PROVE IInv'
<1>1. \A o \in BagToSet(net)' : MessageOK(o)
  BY Taken DEF Lose, IInv
<1> QED
  BY <1>1, ServerStepKeeps DEF Lose, serverVars

LEMMA RestartServerOK == ASSUME IInv, RestartServer PROVE IInv' /\ [ServerNext]_serverVars
<1>1. ServerNext /\ dat' = dat
  BY DEF RestartServer, ServerNext, Restart
<1>2. \A o \in BagToSet(net)' : MessageOK(o)
  BY DEF RestartServer, IInv
<1> QED
  BY <1>1, <1>2, ServerStepKeeps DEF RestartServer

(* The invariant is inductive, and every step is one of the server or      *)
(* leaves the server alone.                                                *)
LEMMA StepOK == IInv /\ [Next]_vars => IInv' /\ [ServerNext]_serverVars
<1> SUFFICES ASSUME IInv, [Next]_vars PROVE IInv' /\ [ServerNext]_serverVars
  OBVIOUS
<1>1. ASSUME NEW s \in Sessions, PageStep(s) PROVE IInv' /\ UNCHANGED serverVars
  BY <1>1, PageStepOK DEF PageStep, InitApp, Redraw, DrawRegion, SaveImageData, LoadCanvasImage,
                          ImageArrives, ImageDrawn
<1>2. CASE ServerStep
  BY <1>2, HandleNewImageOK, HandleSaveDataOK, RestartServerOK DEF ServerStep
<1>3. CASE Fault
  BY <1>3, HandleSaveDataFailsOK, LoseOK DEF Fault, Lose
<1>4. CASE UNCHANGED vars
  <2>1. UNCHANGED <<serverVars, userID, pageVars, net>>
    BY <1>4 DEF vars, serverVars, pageVars
  <2>2. dat' = dat /\ \A m \in BagToSet(net)' : MessageOK(m)
    BY <2>1 DEF serverVars, IInv
  <2> QED
    BY <2>1, <2>2, ServerStepKeeps
<1> QED
  BY <1>1, <1>2, <1>3, <1>4 DEF Next

-----------------------------------------------------------------------------
(* The invariant: what a page shows, or is about to get, was offered to    *)
(* its user, and files and quotas are as the server keeps them.            *)
THEOREM Invariance == Spec => []IInv
  BY InitiallyOK, StepOK, PTL DEF Spec

(* The server of the service is the server of AnnotationServer: pages that *)
(* come and go, and messages that are lost, repeated or late, let it do    *)
(* nothing else.  So what was proved of the server alone holds here.       *)
THEOREM ServiceRunsServer == Spec => ServerSpec
<1>1. Init => ServerInit
  BY DEF Init
<1> QED
  BY <1>1, StepOK, Invariance, PTL DEF Spec, ServerSpec

(* Whatever the pages do, an image gets no more segmentations than its     *)
(* quota, none is left behind, and no save replaces a file.                *)
THEOREM ServiceKeepsQuota == Spec => [](QuotaRespected /\ NoneLeftBehind) /\ AppendOnly
  BY ServiceRunsServer, QuotaHolds, NothingSkipped, NothingOverwritten, PTL

(* Page and server never exchange the number of the image a segmentation   *)
(* is of, and yet agree on it until the image needs none of the user.      *)
THEOREM Agreement == Spec => []PageAgreesWithServer
<1>1. IInv => PageAgreesWithServer
  BY OfferIsCurrentOrSettled DEF IInv, ServiceTypeOK, PageOK, PageAgreesWithServer
<1> QED
  BY <1>1, Invariance, PTL

(* A segmentation is filed under another image only when its own image is  *)
(* settled: repeated and late requests and a second tab cost no image a    *)
(* segmentation.                                                           *)
THEOREM Misfiling == Spec => []MisfiledOnlyWhenSettled
  BY Invariance, PTL DEF IInv

(* A drawing mixes at most two images, and two only when the user clicked  *)
(* on a picture while its successor was decoded: the earlier one is then   *)
(* settled, so that no image lacks a segmentation for it.                  *)
THEOREM Mixing == Spec => []MixedOnlyWhenSettled
<1>1. ASSUME IInv, NEW s \in Sessions, NEW i \in drawing[s], NEW j \in drawing[s], i < j
      PROVE  Settled(userID[s], i) /\ drawing[s] \subseteq {i, j}
  <2>0. userID[s] \in Users /\ NoneLeftBehind /\ drawing[s] \in SUBSET Images /\ PageOK(s)
    BY <1>1 DEF IInv, ServiceTypeOK
  <2>n. 0 \notin Images
    BY NumbersAssumption DEF Images
  <2>1. i \in Images /\ j \in Images /\ drawing[s] \subseteq OnPage(s)
    BY <2>0, <2>n DEF OnPage
  <2>2. Offered(userID[s], i) /\ Offered(userID[s], j)
    BY <2>0, <2>1 DEF PageOK
  <2>3. i # j /\ ~(j <= i)
    BY <1>1, <2>1, NumbersAssumption DEF Images
  <2>4. ~IsCurrentImageNumber(userID[s], i)
    BY <2>2, <2>3 DEF Offered, IsCurrentImageNumber
  <2>5. Settled(userID[s], i)
    BY <2>0, <2>2, <2>4, OfferIsCurrentOrSettled
  <2> QED
    BY <2>0, <2>1, <2>3, <2>5 DEF PageOK
<1>2. IInv => MixedOnlyWhenSettled
  BY <1>1 DEF MixedOnlyWhenSettled
<1> QED
  BY <1>2, Invariance, PTL

-----------------------------------------------------------------------------
(* Part III, careful users: what they add to the invariant.                *)

EachOnce(b) == \A m \in BagToSet(b) : b[m] = 1

(* Bags whose messages are there once are like sets.                       *)
LEMMA SentOnce ==
  ASSUME NEW b, EachOnce(b), NEW m, m \notin BagToSet(b) PROVE EachOnce(Send(b, m))
  BY DEF EachOnce, Send, BagToSet, SetToBag, (+)

LEMMA TakenOnce ==
  ASSUME EachOnce(net), NEW m \in BagToSet(net)
  PROVE  BagToSet(Take(m)) = BagToSet(net) \ {m} /\ EachOnce(Take(m))
  BY DEF EachOnce, Take, BagToSet, SetToBag, (-)

LEMMA IdleAbandon ==
  ASSUME EachOnce(net), NEW s, \A m \in BagToSet(net) : m.session # s
  PROVE  BagToSet(Abandon(s)) = BagToSet(net) /\ EachOnce(Abandon(s))
  BY DEF EachOnce, Abandon, BagToSet, (+)

LEMMA CarefulOnce == CarefulIInv /\ IInv => EachOnce(net)
  BY DEF EachOnce, CarefulIInv, CarefulMessagesOK, IInv, MessageOK, Messages

SamePage(t) ==
  picture'[t] = picture[t] /\ loading'[t] = loading[t] /\ drawing'[t] = drawing[t]

(* A step leaves the other pages careful if it leaves their messages and   *)
(* their current images.                                                   *)
LEMMA CarefulStep ==
  ASSUME IInv, CarefulIInv, NEW s \in Sessions, userID' = userID,
         \A t \in Sessions \ {s} : SamePage(t),
         EachOnce(net)',
         \A o : o.session # s => (o \in BagToSet(net)' <=> o \in BagToSet(net)),
         \A t \in Sessions \ {s}, n \in Images :
           IsCurrentImageNumber(userID[t], n) => IsCurrentImageNumber(userID[t], n)',
         CarefulMessagesOK(s)', CarefulPageOK(s)',
         FiledUnderItsImage'
  PROVE  CarefulIInv'
<1>1. ASSUME NEW t \in Sessions, t # s PROVE CarefulMessagesOK(t)'
  <2> SUFFICES ASSUME NEW m \in BagToSet(net)', m.session = t
               PROVE  /\ net'[m] = 1
                      /\ \A o \in BagToSet(net)' : o.session = t => o = m
                      /\ m.type \in {"getNewImage", "saveData"} => m.live
                      /\ m.type \in {"getNewImage", "image"} => picture'[t] = 0
                      /\ m.type = "image" => IsCurrentImageNumber(userID[t], m.number)'
                      /\ m.type = "saveData" =>
                           picture'[t] # 0 /\ m.regions \subseteq {picture'[t]}
                      /\ loading'[t] = 0
    BY DEF CarefulMessagesOK
  <2>1. m \in BagToSet(net)
    BY <1>1
  <2>2. m.type = "image" => m.number \in Images
    BY <2>1 DEF IInv, MessageOK, Offered
  <2> QED
    BY <1>1, <2>1, <2>2 DEF CarefulIInv, CarefulMessagesOK, EachOnce, SamePage
<1>2. ASSUME NEW t \in Sessions, t # s PROVE CarefulPageOK(t)'
  <2>1. CarefulPageOK(t) /\ SamePage(t) /\ userID'[t] = userID[t]
    BY <1>2 DEF CarefulIInv
  <2>2. /\ loading[t] # 0 => loading[t] \in Images
        /\ picture[t] # 0 => picture[t] \in Images
    BY DEF IInv, ServiceTypeOK
  <2>3. InFlight(Ok(t))' <=> InFlight(Ok(t))
    <3>1. Ok(t).session = t /\ Ok(t).session # s
      BY <1>2 DEF Ok
    <3>2. (Ok(t) \in BagToSet(net)') <=> (Ok(t) \in BagToSet(net))
      BY <3>1
    <3> QED
      BY <3>2 DEF InFlight, BagIn, Ok
  <2>4. ASSUME loading[t] # 0 PROVE IsCurrentImageNumber(userID[t], loading[t])'
    <3>1. PICK k \in Images : k = loading[t] /\ k = loading'[t]
      BY <2>1, <2>2, <2>4 DEF SamePage
    <3>2. IsCurrentImageNumber(userID[t], k)'
      BY <1>2, <2>1, <2>4, <3>1 DEF CarefulPageOK
    <3> QED
      BY <3>1, <3>2
  <2>5. ASSUME picture[t] # 0 /\ ~InFlight(Ok(t)) PROVE IsCurrentImageNumber(userID[t], picture[t])'
    <3>1. PICK k \in Images : k = picture[t] /\ k = picture'[t]
      BY <2>1, <2>2, <2>5 DEF SamePage
    <3>2. IsCurrentImageNumber(userID[t], k)'
      BY <1>2, <2>1, <2>5, <3>1 DEF CarefulPageOK
    <3> QED
      BY <3>1, <3>2
  <2> QED
    BY <2>1, <2>3, <2>4, <2>5 DEF CarefulPageOK, SamePage
<1>3. userID' \in Logins
  BY DEF CarefulIInv
<1> QED
  BY <1>1, <1>2, <1>3 DEF CarefulIInv

(* The current image stays current as long as no file is written.          *)
LEMMA CurrentStays ==
  ASSUME dat' = dat, NEW u, NEW n
  PROVE  IsCurrentImageNumber(u, n)' <=> IsCurrentImageNumber(u, n)
  BY DEF IsCurrentImageNumber, OpenNumbers, AfterLast, CountFileOccurrences, Annotators, HasDat

(* It also does when another user files a segmentation, if every user may  *)
(* segment every image.                                                    *)
EverybodyMaySegment == Cardinality(Users) <= MaxPerImage

LEMMA OthersCurrentStays ==
  ASSUME EverybodyMaySegment, TypeOK, [ServerNext]_serverVars,
         NEW u \in Users, NEW n \in Numbers, IsCurrentImageNumber(u, n),
         dat'[u] = dat[u]
  PROVE  IsCurrentImageNumber(u, n)'
<1>1. AfterLast(u, n)' /\ ~HasDat(u, n)' /\ AfterLast(u, n)
  BY NumbersAssumption
  DEF IsCurrentImageNumber, OpenNumbers, AfterLast, HasDat, Numbers
<1>2. CountFileOccurrences(n)' < MaxPerImage
  <2>1. Annotators(n)' \subseteq Users \ {u}
    BY <1>1 DEF Annotators
  <2>2. IsFiniteSet(Users \ {u}) /\ Cardinality(Users \ {u}) = Cardinality(Users) - 1
        /\ Cardinality(Users) \in Nat
    BY UsersAssumption, FS_RemoveElement, FS_CardinalityType
  <2>3. Cardinality(Annotators(n)') <= Cardinality(Users) - 1 /\ Cardinality(Annotators(n)') \in Nat
    BY <2>1, <2>2, FS_Subset, FS_CardinalityType
  <2> QED
    BY <2>2, <2>3, NumbersAssumption DEF EverybodyMaySegment, CountFileOccurrences
<1>3. \A m \in OpenNumbers(u)' : n <= m
  <2> SUFFICES ASSUME NEW m \in OpenNumbers(u)' PROVE n <= m
    OBVIOUS
  <2>1. m \in Numbers /\ AfterLast(u, m) /\ CountFileOccurrences(m)' < MaxPerImage
    BY FilesStay DEF OpenNumbers, AfterLast
  <2>2. CountFileOccurrences(m) < MaxPerImage
    BY <2>1, CountGrows, CountIsNat, NumbersAssumption
  <2> QED
    BY <2>1, <2>2 DEF IsCurrentImageNumber, OpenNumbers
<1> QED
  BY <1>1, <1>2, <1>3 DEF IsCurrentImageNumber, OpenNumbers

(* A careful page has one message under way or none.                       *)
LEMMA NothingElse ==
  ASSUME IInv, CarefulIInv, NEW m \in BagToSet(net)
  PROVE  /\ m.session \in Sessions
         /\ EachOnce(Take(m)) /\ BagToSet(Take(m)) = BagToSet(net) \ {m}
         /\ \A o \in BagToSet(Take(m)) : o.session # m.session
<1>1. m.session \in Sessions
  BY DEF IInv, MessageOK, Messages
<1>2. EachOnce(Take(m)) /\ BagToSet(Take(m)) = BagToSet(net) \ {m}
  BY CarefulOnce, TakenOnce
<1> QED
  BY <1>1, <1>2 DEF CarefulIInv, CarefulMessagesOK

(* Page s gets its only message, or none.                                  *)
LEMMA NowOnly ==
  ASSUME NEW s \in Sessions, NEW b, EachOnce(b), \A o \in BagToSet(b) : o.session # s,
         \A o : o.session # s => (o \in BagToSet(b) <=> o \in BagToSet(net)),
         NEW a, a.session = s, net' = Send(b, a),
         a.type \in {"getNewImage", "saveData"} => a.live,
         a.type \in {"getNewImage", "image"} => picture'[s] = 0,
         a.type = "image" => IsCurrentImageNumber(userID[s], a.number)',
         a.type = "saveData" => picture'[s] # 0 /\ a.regions \subseteq {picture'[s]},
         loading'[s] = 0
  PROVE  /\ EachOnce(net)' /\ CarefulMessagesOK(s)' /\ a \in BagToSet(net)'
         /\ \A o : o.session # s => (o \in BagToSet(net)' <=> o \in BagToSet(net))
<1>1. EachOnce(net)' /\ BagToSet(net)' = BagToSet(b) \cup {a}
  BY SentOnce, Sent DEF EachOnce
<1>2. \A o \in BagToSet(net)' : o.session = s => o = a
  BY <1>1
<1>3. net'[a] = 1
  BY <1>1 DEF EachOnce
<1>4. CarefulMessagesOK(s)'
  BY <1>2, <1>3 DEF CarefulMessagesOK
<1> QED
  BY <1>1, <1>4

LEMMA NowNone ==
  ASSUME NEW s \in Sessions, NEW b, EachOnce(b), \A o \in BagToSet(b) : o.session # s,
         \A o : o.session # s => (o \in BagToSet(b) <=> o \in BagToSet(net)),
         net' = b
  PROVE  /\ EachOnce(net)' /\ CarefulMessagesOK(s)'
         /\ \A o : o.session # s => (o \in BagToSet(net)' <=> o \in BagToSet(net))
  BY DEF EachOnce, CarefulMessagesOK

(* A step that writes no file.                                             *)
LEMMA CarefulQuiet ==
  ASSUME IInv, CarefulIInv, NEW s \in Sessions, userID' = userID, dat' = dat,
         \A t \in Sessions \ {s} : SamePage(t),
         EachOnce(net)', CarefulMessagesOK(s)', CarefulPageOK(s)',
         \A o : o.session # s => (o \in BagToSet(net)' <=> o \in BagToSet(net))
  PROVE  CarefulIInv'
<1>1. \A t \in Sessions \ {s}, n \in Images :
        IsCurrentImageNumber(userID[t], n) => IsCurrentImageNumber(userID[t], n)'
  BY CurrentStays
<1>2. FiledUnderItsImage'
  BY DEF CarefulIInv, FiledUnderItsImage
<1> QED
  BY <1>1, <1>2, CarefulStep

LEMMA CarefulLose ==
  ASSUME IInv, CarefulIInv, NEW m \in BagToSet(net), m.type # "ok", Lose(m)
  PROVE  CarefulIInv'
<1> DEFINE s == m.session
<1>1. s \in Sessions /\ EachOnce(net)' /\ CarefulMessagesOK(s)'
      /\ \A o : o.session # s => (o \in BagToSet(net)' <=> o \in BagToSet(net))
  BY NothingElse, NowNone DEF Lose
<1>2. ~InFlight(Ok(s)) /\ CarefulPageOK(s)
  BY <1>1, NothingElse DEF InFlight, BagIn, CarefulIInv, CarefulMessagesOK, Ok
<1>3. CarefulPageOK(s)'
  BY <1>2, CurrentStays DEF CarefulPageOK, Lose, serverVars, pageVars
<1> QED
  BY <1>1, <1>3, CarefulQuiet DEF Lose, serverVars, pageVars, SamePage

LEMMA CarefulNewImage ==
  ASSUME IInv, CarefulIInv, NEW m \in BagToSet(net), HandleNewImage(m)
  PROVE  CarefulIInv'
<1> DEFINE s == m.session
<1>1. /\ s \in Sessions /\ EachOnce(Take(m)) /\ \A o \in BagToSet(Take(m)) : o.session # s
      /\ \A o : o.session # s => (o \in BagToSet(Take(m)) <=> o \in BagToSet(net))
  BY NothingElse
<1>2. m.live /\ m.uid = userID[s] /\ picture[s] = 0 /\ loading[s] = 0
  BY <1>1, RequestOK DEF HandleNewImage, CarefulIInv, CarefulMessagesOK
<1>3. PICK n \in Numbers :
        /\ ProcessNewImage(m.uid, n)
        /\ net' = IF m.live /\ n \in Images THEN Send(Take(m), Image(s, n)) ELSE Take(m)
  BY DEF HandleNewImage
<1>4. /\ dat' = dat /\ userID' = userID /\ IsCurrentImageNumber(userID[s], n)'
      /\ picture' = picture /\ loading' = loading /\ \A t \in Sessions : SamePage(t)
  BY <1>2, <1>3, CurrentStays DEF HandleNewImage, ProcessNewImage, pageVars, SamePage
<1>5. /\ EachOnce(net)' /\ CarefulMessagesOK(s)'
      /\ \A o : o.session # s => (o \in BagToSet(net)' <=> o \in BagToSet(net))
  <2> HIDE DEF s
  <2>1. CASE n \in Images
    <3>1. /\ Image(s, n).session = s /\ Image(s, n).type = "image" /\ Image(s, n).number = n
          /\ net' = Send(Take(m), Image(s, n))
      BY <1>2, <1>3, <2>1 DEF Image
    <3> QED
      BY <1>1, <1>2, <1>4, <3>1, NowOnly
  <2>2. CASE n \notin Images
    BY <1>1, <1>3, <2>2, NowNone
  <2> QED
    BY <2>1, <2>2
<1>6. CarefulPageOK(s)'
  BY <1>2, <1>4 DEF CarefulPageOK
<1> QED
  BY <1>1, <1>4, <1>5, <1>6, CarefulQuiet

(* Where no two pages are of one user, a save changes the files of no      *)
(* other page's user.                                                      *)
OnePageEach == \A l \in Logins : \A s, t \in Sessions : l[s] = l[t] => s = t

LEMMA CarefulSaveData ==
  ASSUME IInv, CarefulIInv, OnePageEach, EverybodyMaySegment,
         NEW m \in BagToSet(net), HandleSaveData(m)
  PROVE  CarefulIInv'
<1> DEFINE s == m.session
<1>1. /\ s \in Sessions /\ EachOnce(Take(m)) /\ \A o \in BagToSet(Take(m)) : o.session # s
      /\ \A o : o.session # s => (o \in BagToSet(Take(m)) <=> o \in BagToSet(net))
  BY NothingElse
<1>2. /\ m.live /\ m.uid = userID[s] /\ m.uid \in Users /\ m.regions \in Payloads
      /\ picture[s] # 0 /\ m.regions \subseteq {picture[s]} /\ loading[s] = 0
  BY <1>1, RequestOK DEF HandleSaveData, CarefulIInv, CarefulMessagesOK
<1>3. PICK n \in Numbers : ProcessSaveData(m.uid, n, m.regions)
  BY DEF HandleSaveData
<1>4. /\ userID' = userID /\ net' = Send(Take(m), Ok(s))
      /\ picture' = picture /\ loading' = loading /\ drawing' = drawing
      /\ \A t \in Sessions : SamePage(t)
  BY <1>2 DEF HandleSaveData, pageVars, SamePage
<1>5. Ok(s).session = s /\ Ok(s).type = "ok"
  BY DEF Ok
<1>6. /\ EachOnce(net)' /\ CarefulMessagesOK(s)' /\ Ok(s) \in BagToSet(net)'
      /\ \A o : o.session # s => (o \in BagToSet(net)' <=> o \in BagToSet(net))
  <2> HIDE DEF s
  <2> QED
    BY <1>1, <1>2, <1>4, <1>5, NowOnly
<1>7. CarefulPageOK(s)'
  BY <1>1, <1>2, <1>4, <1>6 DEF CarefulIInv, CarefulPageOK, InFlight, BagIn
<1>8. n = picture[s]
  <2>1. ~InFlight(Ok(s))
    BY <1>1, <1>5 DEF HandleSaveData, InFlight, BagIn, CarefulIInv, CarefulMessagesOK
  <2>2. IsCurrentImageNumber(m.uid, picture[s]) /\ IsCurrentImageNumber(m.uid, n)
    BY <1>1, <1>2, <1>3, <2>1 DEF CarefulIInv, CarefulPageOK, ProcessSaveData
  <2> QED
    BY <2>2 DEF IsCurrentImageNumber, OpenNumbers, Numbers
<1>9. dat' = [dat EXCEPT ![m.uid][n] = m.regions]
  BY <1>3 DEF ProcessSaveData
<1>10. FiledUnderItsImage'
  <2> SUFFICES ASSUME NEW u \in Users, NEW k \in Numbers, dat'[u][k] \in Payloads
               PROVE  dat'[u][k] \subseteq {k}
    BY DEF FiledUnderItsImage
  <2>1. CASE u = m.uid /\ k = n
    BY <1>2, <1>8, <1>9, <2>1 DEF IInv, ServiceTypeOK, TypeOK
  <2>2. CASE ~(u = m.uid /\ k = n)
    <3>1. dat'[u][k] = dat[u][k]
      BY <1>9, <2>2 DEF IInv, ServiceTypeOK, TypeOK
    <3> QED
      BY <3>1 DEF CarefulIInv, FiledUnderItsImage
  <2> QED
    BY <2>1, <2>2
<1>11. \A t \in Sessions \ {s}, k \in Images :
         IsCurrentImageNumber(userID[t], k) => IsCurrentImageNumber(userID[t], k)'
  <2> SUFFICES ASSUME NEW t \in Sessions, t # s, NEW k \in Images,
                      IsCurrentImageNumber(userID[t], k)
               PROVE  IsCurrentImageNumber(userID[t], k)'
    OBVIOUS
  <2>1. PICK v \in Users : v = userID[t]
    BY DEF IInv, ServiceTypeOK
  <2>2. v # m.uid
    BY <1>1, <1>2, <2>1 DEF CarefulIInv, OnePageEach
  <2>3. dat'[v] = dat[v]
    BY <1>9, <2>2 DEF IInv, ServiceTypeOK, TypeOK
  <2>4. [ServerNext]_serverVars /\ k \in Numbers
    BY HandleSaveDataOK DEF IsCurrentImageNumber, OpenNumbers
  <2>5. IsCurrentImageNumber(v, k)'
    BY <2>1, <2>3, <2>4, OthersCurrentStays DEF IInv, ServiceTypeOK
  <2> QED
    BY <1>4, <2>1, <2>5
<1> QED
  BY <1>1, <1>4, <1>6, <1>7, <1>10, <1>11, CarefulStep

LEMMA CarefulUnchanged ==
  ASSUME CarefulIInv, UNCHANGED <<dat, userID, pageVars, net>> PROVE CarefulIInv'
<1>1. \A s \in Sessions : CarefulMessagesOK(s)'
  <2> SUFFICES ASSUME NEW s \in Sessions, NEW m \in BagToSet(net), m.session = s
               PROVE  /\ net[m] = 1
                      /\ \A o \in BagToSet(net) : o.session = s => o = m
                      /\ m.type \in {"getNewImage", "saveData"} => m.live
                      /\ m.type \in {"getNewImage", "image"} => picture[s] = 0
                      /\ m.type = "image" => IsCurrentImageNumber(userID[s], m.number)'
                      /\ m.type = "saveData" =>
                           picture[s] # 0 /\ m.regions \subseteq {picture[s]}
                      /\ loading[s] = 0
    BY DEF CarefulMessagesOK, pageVars
  <2>1. CarefulMessagesOK(s)
    BY DEF CarefulIInv
  <2>2. IsCurrentImageNumber(userID[s], m.number) => IsCurrentImageNumber(userID[s], m.number)'
    BY CurrentStays
  <2> QED
    BY <2>1, <2>2 DEF CarefulMessagesOK
<1>2. \A s \in Sessions : CarefulPageOK(s)'
  BY CurrentStays DEF CarefulIInv, CarefulPageOK, InFlight, pageVars
<1> QED
  BY <1>1, <1>2 DEF CarefulIInv, FiledUnderItsImage

LEMMA CarefulPage ==
  ASSUME IInv, CarefulIInv, NEW s \in Sessions, CarefulPageStep(s)
  PROVE  CarefulIInv'
<1>1. \A t \in Sessions \ {s} : SamePage(t)
  BY DEF CarefulPageStep, InitApp, Redraw, DrawRegion, SaveImageData, LoadCanvasImage,
         ImageArrives, ImageDrawn, IInv, ServiceTypeOK, SamePage
<1>2. dat' = dat /\ userID' = userID
  BY DEF CarefulPageStep, InitApp, Redraw, DrawRegion, SaveImageData, LoadCanvasImage,
         ImageArrives, ImageDrawn, serverVars
<1>3. EachOnce(net) /\ CarefulPageOK(s) /\ CarefulMessagesOK(s)
      /\ (picture[s] # 0 => shown[s] = picture[s])
  BY CarefulOnce DEF CarefulIInv, IInv, PageOK
<1>4. CASE picture[s] = 0 /\ Idle(s) /\ InitApp(s)
  <2> DEFINE a == GetNewImageRequest(s, userID[s])
  <2>1. /\ EachOnce(Abandon(s)) /\ \A o \in BagToSet(Abandon(s)) : o.session # s
        /\ \A o : o.session # s => (o \in BagToSet(Abandon(s)) <=> o \in BagToSet(net))
    BY <1>3, <1>4, IdleAbandon DEF Idle
  <2>2. a.session = s /\ a.type = "getNewImage" /\ a.live
    BY DEF GetNewImageRequest
  <2>3. net' = Send(Abandon(s), a) /\ picture'[s] = 0 /\ loading'[s] = 0
    BY <1>4 DEF InitApp, IInv, ServiceTypeOK
  <2> HIDE DEF a
  <2>4. /\ EachOnce(net)' /\ CarefulMessagesOK(s)'
        /\ \A o : o.session # s => (o \in BagToSet(net)' <=> o \in BagToSet(net))
    BY <2>1, <2>2, <2>3, NowOnly
  <2>5. CarefulPageOK(s)'
    BY <2>3 DEF CarefulPageOK
  <2> QED
    BY <1>1, <1>2, <2>4, <2>5, CarefulQuiet
<1>5. CASE Redraw(s) \/ (picture[s] # 0 /\ Idle(s) /\ DrawRegion(s))
  <2>1. net' = net /\ picture' = picture /\ loading' = loading
    BY <1>5 DEF Redraw, DrawRegion
  <2>2. /\ loading[s] # 0 => drawing'[s] = {}
        /\ picture[s] # 0 => drawing'[s] \subseteq {picture[s]}
    <3>1. CASE Redraw(s)
      <4>1. drawing'[s] \subseteq drawing[s]
        BY <3>1 DEF Redraw, IInv, ServiceTypeOK
      <4> QED
        BY <1>3, <4>1 DEF CarefulPageOK
    <3>2. CASE picture[s] # 0 /\ Idle(s) /\ DrawRegion(s)
      BY <1>3, <3>2 DEF DrawRegion, Idle, IInv, ServiceTypeOK, CarefulPageOK
    <3> QED
      BY <1>5, <3>1, <3>2
  <2>3. CarefulPageOK(s)'
    BY <1>2, <1>3, <2>1, <2>2, CurrentStays DEF CarefulPageOK, InFlight
  <2>4. CarefulMessagesOK(s)'
    BY <1>2, <1>3, <2>1, CurrentStays DEF CarefulMessagesOK
  <2>5. EachOnce(net)'
    BY <1>3, <2>1 DEF EachOnce
  <2> QED
    BY <1>1, <1>2, <2>1, <2>3, <2>4, <2>5, CarefulQuiet
<1>6. CASE picture[s] # 0 /\ Idle(s) /\ SaveImageData(s)
  <2> DEFINE a == SaveDataRequest(s, userID[s], drawing[s])
  <2>1. a.session = s /\ a.type = "saveData" /\ a.live /\ a.regions = drawing[s]
    BY DEF SaveDataRequest
  <2>2. /\ net' = Send(net, a) /\ picture' = picture /\ loading' = loading /\ drawing' = drawing
        /\ drawing[s] \subseteq {picture[s]} /\ loading[s] = 0
    BY <1>3, <1>6 DEF SaveImageData, Idle, CarefulPageOK
  <2> HIDE DEF a
  <2>3. /\ EachOnce(net)' /\ CarefulMessagesOK(s)'
        /\ \A o : o.session # s => (o \in BagToSet(net)' <=> o \in BagToSet(net))
    BY <1>3, <1>6, <2>1, <2>2, NowOnly DEF Idle
  <2>4. IsCurrentImageNumber(userID[s], picture[s])
    BY <1>3, <1>6 DEF Idle, CarefulPageOK, InFlight, BagIn, Ok
  <2>5. CarefulPageOK(s)'
    BY <1>2, <2>2, <2>4, CurrentStays DEF CarefulPageOK
  <2> QED
    BY <1>1, <1>2, <2>3, <2>5, CarefulQuiet
<1>7. CASE LoadCanvasImage(s)
  <2> DEFINE a == GetNewImageRequest(s, userID[s])
             ok == Ok(s)
  <2>1. a.session = s /\ a.type = "getNewImage" /\ a.live /\ ok.session = s
    BY DEF GetNewImageRequest, Ok
  <2>2. /\ net' = Send(Take(ok), a) /\ picture'[s] = 0 /\ loading'[s] = 0
        /\ ok \in BagToSet(net)
    BY <1>7 DEF LoadCanvasImage, IInv, ServiceTypeOK, InFlight, BagIn
  <2> HIDE DEF a, ok
  <2>3. /\ EachOnce(Take(ok)) /\ \A o \in BagToSet(Take(ok)) : o.session # s
        /\ \A o : o.session # s => (o \in BagToSet(Take(ok)) <=> o \in BagToSet(net))
    BY <2>1, <2>2, NothingElse
  <2>4. /\ EachOnce(net)' /\ CarefulMessagesOK(s)'
        /\ \A o : o.session # s => (o \in BagToSet(net)' <=> o \in BagToSet(net))
    BY <2>1, <2>2, <2>3, NowOnly
  <2>5. CarefulPageOK(s)'
    BY <2>2 DEF CarefulPageOK
  <2> QED
    BY <1>1, <1>2, <2>4, <2>5, CarefulQuiet
<1>8. ASSUME NEW n \in Images, ImageArrives(s, n) PROVE CarefulIInv'
  <2> DEFINE m == Image(s, n)
  <2>1. m.session = s /\ m.type = "image" /\ m.number = n
    BY DEF Image
  <2>2. /\ net' = Take(m) /\ loading'[s] = n /\ picture'[s] = picture[s] /\ drawing'[s] = {}
        /\ m \in BagToSet(net)
    BY <1>8 DEF ImageArrives, IInv, ServiceTypeOK, InFlight, BagIn
  <2> HIDE DEF m
  <2>3. /\ EachOnce(net)' /\ CarefulMessagesOK(s)'
        /\ \A o : o.session # s => (o \in BagToSet(net)' <=> o \in BagToSet(net))
    BY <2>1, <2>2, NothingElse, NowNone
  <2>4. IsCurrentImageNumber(userID[s], n) /\ picture[s] = 0
    BY <1>3, <2>1, <2>2 DEF CarefulMessagesOK
  <2>5. CarefulPageOK(s)'
    BY <1>2, <2>2, <2>4, CurrentStays DEF CarefulPageOK
  <2> QED
    BY <1>1, <1>2, <2>3, <2>5, CarefulQuiet
<1>9. CASE ImageDrawn(s)
  <2>1. /\ net' = net /\ picture'[s] = loading[s] /\ loading'[s] = 0 /\ drawing' = drawing
        /\ loading[s] # 0
    BY <1>9 DEF ImageDrawn, IInv, ServiceTypeOK
  <2>2. \A m \in BagToSet(net) : m.session # s
    BY <1>3, <2>1 DEF CarefulMessagesOK
  <2>3. CarefulMessagesOK(s)' /\ EachOnce(net)'
    BY <1>3, <2>1, <2>2 DEF CarefulMessagesOK, EachOnce
  <2>4. CarefulPageOK(s)'
    BY <1>2, <1>3, <2>1, CurrentStays DEF CarefulPageOK
  <2> QED
    BY <1>1, <1>2, <2>1, <2>3, <2>4, CarefulQuiet
<1> QED
  BY <1>4, <1>5, <1>6, <1>7, <1>8, <1>9 DEF CarefulPageStep

LEMMA CarefulStartsOK == ASSUME Init PROVE CarefulIInv
<1>1. BagToSet(net) = {} /\ \A s \in Sessions : picture[s] = 0 /\ loading[s] = 0
  BY DEF Init, EmptyBag, BagToSet, SetToBag
<1>2. FiledUnderItsImage
  BY ContentAssumption DEF Init, ServerInit, FiledUnderItsImage
<1> QED
  BY <1>1, <1>2 DEF Init, CarefulIInv, CarefulMessagesOK, CarefulPageOK

LEMMA CarefulStepOK ==
  ASSUME OnePageEach, EverybodyMaySegment, IInv, CarefulIInv, [CarefulNext]_vars
  PROVE  CarefulIInv'
<1>1. CASE LoseInCrash
  BY <1>1, CarefulLose DEF LoseInCrash
<1>2. CASE ServerStep
  <2>1. CASE RestartServer
    BY <2>1, CarefulUnchanged DEF RestartServer, Restart
  <2> QED
    BY <1>2, <2>1, CarefulNewImage, CarefulSaveData DEF ServerStep
<1>3. CASE \E s \in Sessions : CarefulPageStep(s)
  BY <1>3, CarefulPage
<1>4. CASE UNCHANGED vars
  BY <1>4, CarefulUnchanged DEF vars, pageVars
<1> QED
  BY <1>1, <1>2, <1>3, <1>4 DEF CarefulNext

LEMMA CarefulIsService == CarefulNext => Next
  BY DEF CarefulNext, Next, LoseInCrash, Fault, CarefulPageStep, PageStep

(* A careful user does nothing other users may not do.                     *)
THEOREM CarefulUser == CarefulSpec => Spec
  BY CarefulIsService, PTL DEF CarefulSpec, Spec

(* Where each user has one page and may segment every image, a careful     *)
(* user's segmentation is filed under the image it was drawn on, the       *)
(* crashes after the last image included.                                  *)
THEOREM CarefulFiling ==
  ASSUME OnePageEach, EverybodyMaySegment
  PROVE  CarefulSpec => []FiledUnderItsImage
<1>1. Init => CarefulIInv
  BY CarefulStartsOK
<1>2. IInv /\ CarefulIInv /\ [CarefulNext]_vars => CarefulIInv'
  BY CarefulStepOK
<1>3. CarefulIInv => FiledUnderItsImage
  BY DEF CarefulIInv
<1> QED
  BY <1>1, <1>2, <1>3, CarefulUser, Invariance, PTL DEF CarefulSpec

-----------------------------------------------------------------------------
(* Part IV, the editor.                                                    *)
-----------------------------------------------------------------------------
(* The lists of the page and their form in the file.                       *)

(* The coordinates of a region, joined into one list, halve into the       *)
(* points again.                                                           *)
LEMMA PointsComeBack ==
  ASSUME NEW S, NEW xs \in Seq(S), NEW ys \in Seq(S), Len(xs) = Len(ys)
  PROVE  PointsLine(Joined(<<xs, ys>>)) = [j \in 1..Len(xs) |-> <<xs[j], ys[j]>>]
<1> DEFINE c == xs \o ys
<1>1. Joined(<<xs, ys>>) = c
  BY DEF Joined
<1>2. Len(c) = 2 * Len(xs) /\ Len(c) \div 2 = Len(xs) /\ Len(xs) \in Nat
  OBVIOUS
<1>3. \A j \in 1..Len(xs) : c[j] = xs[j] /\ c[j + Len(xs)] = ys[j]
  OBVIOUS
<1> HIDE DEF c
<1> QED
  BY <1>1, <1>2, <1>3 DEF PointsLine

(* Fitting(h, t, c): the finished regions are described consistently.      *)
Fitting(h, t, c) ==
  /\ h \in Seq(Seq(Int) \X Seq(Int)) /\ t \in Seq({"cr", "pt"}) /\ c = Len(h) /\ Len(t) = c
  /\ \A i \in 1..Len(h) : Len(h[i][1]) = Len(h[i][2]) /\ h[i][1] # <<>>

(* The file has the regions of the page, each with its points.             *)
LEMMA FileOfRegions ==
  ASSUME NEW h, NEW t, NEW c, Fitting(h, t, c)
  PROVE  /\ Filed(h, t, c).count = c
         /\ \A i \in 1..c : Filed(h, t, c).regions[i] =
              [type |-> t[i], points |-> [j \in 1..Len(h[i][1]) |-> <<h[i][1][j], h[i][2][j]>>]]
<1> DEFINE v == [i \in 1..Len(h) |-> Joined(h[i])]
<1>1. c \in Nat /\ Len(h) = c /\ Len(t) = c
  BY DEF Fitting
<1>2. Len(v) = c /\ \A i \in 1..c : v[i] = Joined(h[i])
  BY <1>1
<1>3. \A i \in 1..c : PointsLine(v[i]) = [j \in 1..Len(h[i][1]) |-> <<h[i][1][j], h[i][2][j]>>]
  <2> TAKE i \in 1..c
  <2>1. PICK xs \in Seq(Int), ys \in Seq(Int) : h[i] = <<xs, ys>> /\ Len(xs) = Len(ys)
    BY <1>1 DEF Fitting
  <2>2. PointsLine(Joined(<<xs, ys>>)) = [j \in 1..Len(xs) |-> <<xs[j], ys[j]>>]
    BY <2>1, PointsComeBack
  <2>3. v[i] = Joined(<<xs, ys>>) /\ h[i][1] = xs /\ h[i][2] = ys
    <3>1. v[i] = Joined(h[i])
      BY <1>2
    <3> HIDE DEF v
    <3> QED
      BY <2>1, <3>1
  <2> HIDE DEF v
  <2> QED
    BY <2>2, <2>3
<1>4. Filed(h, t, c) = CreateDatFileContent(Parsed(v), Parsed(t), c)
  BY DEF Filed
<1> HIDE DEF v
<1>5. CASE c = 0
  BY <1>4, <1>5 DEF CreateDatFileContent
<1>6. CASE c = 1
  <2>1. /\ Parsed(v) = [kind |-> "string", value |-> v[1]]
        /\ Parsed(t) = [kind |-> "string", value |-> t[1]]
    BY <1>1, <1>2, <1>6 DEF Parsed
  <2>2. Filed(h, t, c) = [count |-> 1, regions |-> <<[type |-> t[1], points |-> PointsLine(v[1])]>>]
    BY <1>4, <1>6, <2>1 DEF CreateDatFileContent
  <2>3. /\ Filed(h, t, c).count = c
        /\ Filed(h, t, c).regions[1] = [type |-> t[1], points |-> PointsLine(v[1])]
    BY <1>6, <2>2
  <2> QED
    <3> SUFFICES ASSUME NEW i \in 1..c
                 PROVE  Filed(h, t, c).regions[i] = [type |-> t[i], points |-> PointsLine(v[i])]
      BY <1>3, <1>6, <2>3
    <3>1. i = 1
      BY <1>6
    <3> QED
      BY <2>3, <3>1
<1>7. CASE c > 1
  <2>1. Parsed(v) = [kind |-> "array", value |-> v] /\ Parsed(t) = [kind |-> "array", value |-> t]
    BY <1>1, <1>2, <1>7 DEF Parsed
  <2>2. Filed(h, t, c) =
          [count |-> c,
           regions |-> [i \in 1..c |-> [type |-> t[i], points |-> PointsLine(v[i])]]]
    BY <1>1, <1>2, <1>4, <1>7, <2>1 DEF CreateDatFileContent
  <2> QED
    BY <1>3, <2>2
<1> QED
  BY <1>1, <1>5, <1>6, <1>7

(* Somewhere between a number of a set and one out of it the set begins or *)
(* ends.                                                                   *)
LEMMA Change ==
  ASSUME NEW n \in Nat, NEW S, NEW a \in 1..n, a \in S, NEW b \in 1..n, b \notin S
  PROVE  \E j \in 1..(n - 1) : (j \in S /\ j + 1 \notin S) \/ (j \notin S /\ j + 1 \in S)
<1>1. CASE a < b
  <2> DEFINE R == {j \in 1..n : j > a /\ j \notin S}
  <2>1. R \subseteq Nat /\ b \in R
    BY <1>1
  <2>2. PICK m \in R : \A j \in R : m <= j
    <3> HIDE DEF R
    <3> QED
      BY <2>1, LeastOf
  <2>3. m - 1 \in 1..(n - 1) /\ m - 1 >= a /\ (m - 1) + 1 = m /\ ~(m <= m - 1) /\ m - 1 \in 1..n
    BY <2>2
  <2>4. m - 1 \in S
    <3>1. m - 1 \notin R
      BY <2>2, <2>3
    <3> QED
      BY <2>3, <3>1
  <2> QED
    BY <2>2, <2>3, <2>4
<1>2. CASE b < a
  <2> DEFINE R == {j \in 1..n : j > b /\ j \in S}
  <2>1. R \subseteq Nat /\ a \in R
    BY <1>2
  <2>2. PICK m \in R : \A j \in R : m <= j
    <3> HIDE DEF R
    <3> QED
      BY <2>1, LeastOf
  <2>3. m - 1 \in 1..(n - 1) /\ m - 1 >= b /\ (m - 1) + 1 = m /\ ~(m <= m - 1) /\ m - 1 \in 1..n
    BY <2>2
  <2>4. m - 1 \notin S
    <3>1. m - 1 \notin R
      BY <2>2, <2>3
    <3> QED
      BY <2>3, <3>1
  <2> QED
    BY <2>2, <2>3, <2>4
<1> QED
  BY <1>1, <1>2

(* A point of a region is an end of a line that shows, unless all points   *)
(* of the region are at its place.                                         *)
LEMMA OnALine ==
  ASSUME NEW p, Len(p) \in Nat, NEW k \in 1..Len(p)
  PROVE  \/ \A j \in 1..Len(p) : p[j] = p[1]
         \/ \E l \in Visible(Path(p)) : p[k] \in {l[1], l[2]}
<1> SUFFICES ASSUME NEW i \in 1..Len(p), p[i] # p[1]
             PROVE  \E l \in Visible(Path(p)) : p[k] \in {l[1], l[2]}
  OBVIOUS
<1>1. PICK b \in 1..Len(p) : p[b] # p[k]
  OBVIOUS
<1> DEFINE S == {j \in 1..Len(p) : p[j] = p[k]}
<1>2. k \in S /\ b \notin S
  BY <1>1
<1>3. PICK j \in 1..(Len(p) - 1) : (j \in S /\ j + 1 \notin S) \/ (j \notin S /\ j + 1 \in S)
  <2> HIDE DEF S
  <2> QED
    BY <1>2, Change
<1>4. p[j] # p[j + 1] /\ p[k] \in {p[j], p[j + 1]}
  BY <1>3
<1>5. PICK l : l = <<p[j], p[j + 1]>> /\ l \in Path(p)
  BY DEF Path
<1>6. l \in Visible(Path(p)) /\ p[k] \in {l[1], l[2]}
  BY <1>4, <1>5 DEF Visible
<1> QED
  BY <1>6

(* What of a region the canvas has not.                                    *)
LEMMA OnlyDots ==
  ASSUME NEW p, Len(p) \in Nat \ {0}, NEW y, NEW d \in Segments(p, y) \ Visible(Segments(p, y))
  PROVE  /\ d[1] = d[2]
         /\ \/ d[1] = p[1] /\ \A j \in 1..Len(p) : p[j] = p[1]
            \/ \E l \in Visible(Segments(p, y)) : d[1] \in {l[1], l[2]}
<1>1. d[1] = d[2]
  BY DEF Visible
<1>2. PICK k \in 1..Len(p) : d[1] = p[k]
  <2>1. CASE d \in Path(p)
    <3>1. PICK j \in 1..(Len(p) - 1) : d = <<p[j], p[j + 1]>>
      BY <2>1 DEF Path
    <3> QED
      BY <3>1
  <2>2. CASE d \notin Path(p)
    BY <2>2 DEF Segments
  <2> QED
    BY <2>1, <2>2
<1>3. Visible(Path(p)) \subseteq Visible(Segments(p, y))
  BY DEF Visible, Segments
<1> QED
  BY <1>1, <1>2, <1>3, OnALine

LEMMA DrawnAgain ==
  ASSUME NEW h, NEW t, NEW c, Fitting(h, t, c)
  PROVE  /\ Filed(h, t, c) # Unwritten
         /\ DrawPreviousRegions(h, t) \subseteq ConvertDatToImage(Filed(h, t, c))
         /\ \A d \in ConvertDatToImage(Filed(h, t, c)) \ DrawPreviousRegions(h, t) :
              /\ d[1] = d[2]
              /\ \/ d[1] \in Spots(h)
                 \/ \E l \in DrawPreviousRegions(h, t) : d[1] \in {l[1], l[2]}
<1>1. c \in Nat /\ Len(h) = c
  BY DEF Fitting
<1>2. PICK f : f = Filed(h, t, c)
  OBVIOUS
<1>3. f.count = c /\ \A i \in 1..c : f.regions[i] = [type |-> t[i], points |-> Points(h[i])]
  BY <1>2, FileOfRegions DEF Points
<1>4. f # Unwritten
  BY <1>1, <1>3 DEF Unwritten
<1>5. \A i \in 1..c : f.regions[i].type = t[i] /\ f.regions[i].points = Points(h[i])
  <2> TAKE i \in 1..c
  <2>1. PICK g : g = f.regions[i] /\ g = [type |-> t[i], points |-> Points(h[i])]
    BY <1>3
  <2>2. g.type = t[i] /\ g.points = Points(h[i])
    BY <2>1
  <2> QED
    BY <2>1, <2>2
<1>6. \A d : d \in ConvertDatToImage(f) <=> \E i \in 1..c : d \in Segments(Points(h[i]), t[i])
  BY <1>3, <1>5 DEF ConvertDatToImage
<1>7. \A d : d \in DrawPreviousRegions(h, t) <=>
               \E i \in 1..c : d \in Visible(Segments(Points(h[i]), t[i]))
  BY <1>1 DEF DrawPreviousRegions
<1>8. DrawPreviousRegions(h, t) \subseteq ConvertDatToImage(f)
  BY <1>6, <1>7 DEF Visible
<1>9. ASSUME NEW d \in ConvertDatToImage(f) \ DrawPreviousRegions(h, t)
      PROVE  /\ d[1] = d[2]
             /\ \/ d[1] \in Spots(h)
                \/ \E l \in DrawPreviousRegions(h, t) : d[1] \in {l[1], l[2]}
  <2>1. PICK i \in 1..c : d \in Segments(Points(h[i]), t[i]) \ Visible(Segments(Points(h[i]), t[i]))
    BY <1>6, <1>7
  <2>2. PICK p : p = Points(h[i])
    OBVIOUS
  <2>3. Len(p) = Len(h[i][1]) /\ Len(p) \in Nat \ {0}
    <3>1. PICK xs \in Seq(Int) : xs = h[i][1] /\ xs # <<>>
      BY <1>1 DEF Fitting
    <3>2. Len(xs) \in Nat \ {0}
      BY <3>1
    <3> QED
      BY <2>2, <3>1, <3>2 DEF Points
  <2>4. /\ d[1] = d[2]
        /\ \/ d[1] = p[1] /\ \A j \in 1..Len(p) : p[j] = p[1]
           \/ \E l \in Visible(Segments(p, t[i])) : d[1] \in {l[1], l[2]}
    BY <2>1, <2>2, <2>3, OnlyDots
  <2>5. CASE d[1] = p[1] /\ \A j \in 1..Len(p) : p[j] = p[1]
    <3>1. d[1] \in Spots(h)
      BY <1>1, <2>2, <2>3, <2>5 DEF Spots
    <3> QED
      BY <2>4, <3>1
  <2>6. CASE \E l \in Visible(Segments(p, t[i])) : d[1] \in {l[1], l[2]}
    BY <1>7, <2>2, <2>4, <2>6
  <2> QED
    BY <2>4, <2>5, <2>6
<1> QED
  BY <1>2, <1>4, <1>8, <1>9

-----------------------------------------------------------------------------
(* The steps of the editor.  Of the lists only their descriptions matter:  *)
(* a step that leaves what was posted alone keeps its truth.               *)

LEMMA RegionsFit ==
  ASSUME NEW h \in Seq(Region), NEW t \in Seq({"cr", "pt"}), Len(t) = Len(h),
         \A i \in 1..Len(h) : Len(h[i][1]) = Len(h[i][2]) /\ h[i][1] # <<>>
  PROVE  Fitting(h, t, Len(h))
<1>1. Region \subseteq Seq(Int) \X Seq(Int)
  BY SeqMonotonic, EditorAssumption DEF Region
<1>2. h \in Seq(Seq(Int) \X Seq(Int))
  BY <1>1, SeqMonotonic
<1> QED
  BY <1>2 DEF Fitting

(* A handler that leaves the region being drawn or the finished ones alone.*)
LEMMA SameHistory ==
  ASSUME EditorIInv, regionVars' = regionVars, posted' = posted \/ posted' = Nothing,
         clickX' \in Seq(Xs), clickY' \in Seq(Ys), Len(clickX') = Len(clickY')
  PROVE  EditorIInv'
  BY DEF EditorIInv, EditorTypeOK, RegionsAgree, FileShowsTheCanvas, regionVars

LEMMA AddClickOK ==
  ASSUME EditorIInv, NEW x \in Xs, NEW y \in Ys, AddClick(x, y)
  PROVE  clickX' \in Seq(Xs) /\ clickY' \in Seq(Ys) /\ Len(clickX') = Len(clickY')
  BY DEF EditorIInv, EditorTypeOK, RegionsAgree, AddClick

LEMMA SaveCurrentRegionOK ==
  ASSUME EditorIInv, SaveCurrentRegion PROVE EditorTypeOK' /\ RegionsAgree'
<1>1. clickX' = <<>> /\ clickY' = <<>>
  BY DEF SaveCurrentRegion
<1>2. CASE clickX = <<>>
  BY <1>1, <1>2 DEF SaveCurrentRegion, EditorIInv, EditorTypeOK, RegionsAgree, History, Types, Count
<1>3. CASE clickX # <<>>
  <2>1. PICK r \in Region : r = <<clickX, clickY>> /\ Len(r[1]) = Len(r[2]) /\ r[1] # <<>>
    <3>1. <<clickX, clickY>> \in Region
      BY DEF EditorIInv, EditorTypeOK, Region
    <3>2. PICK r : r = <<clickX, clickY>>
      OBVIOUS
    <3>3. r[1] = clickX /\ r[2] = clickY
      BY <3>2
    <3> QED
      BY <1>3, <3>1, <3>2, <3>3 DEF EditorIInv, RegionsAgree
  <2>2. PICK k \in {"cr", "pt"} : regionType' = Append(regionType, k)
    BY <1>3 DEF SaveCurrentRegion, Types
  <2>3. regionHistory' = Append(regionHistory, r) /\ regionCount' = regionCount + 1
    BY <1>3, <2>1 DEF SaveCurrentRegion, History, Count
  <2>4. /\ regionHistory' \in Seq(Region) /\ regionType' \in Seq({"cr", "pt"})
        /\ Len(regionHistory') = Len(regionHistory) + 1
        /\ Len(regionType') = Len(regionType) + 1
        /\ \A i \in 1..Len(regionHistory) : regionHistory'[i] = regionHistory[i]
        /\ regionHistory'[Len(regionHistory) + 1] = r
    BY <2>2, <2>3 DEF EditorIInv, EditorTypeOK
  <2>5. \A i \in 1..Len(regionHistory)' :
          Len(regionHistory'[i][1]) = Len(regionHistory'[i][2]) /\ regionHistory'[i][1] # <<>>
    <3> TAKE i \in 1..Len(regionHistory)'
    <3>1. Len(regionHistory) \in Nat /\ (i \in 1..Len(regionHistory) \/ i = Len(regionHistory) + 1)
      BY <2>4 DEF EditorIInv, EditorTypeOK
    <3> QED
      BY <2>1, <2>4, <3>1 DEF EditorIInv, RegionsAgree
  <2>6. clickX' \in Seq(Xs) /\ clickY' \in Seq(Ys) /\ Len(clickX') = Len(clickY')
    BY <1>1
  <2> QED
    BY <2>3, <2>4, <2>5, <2>6 DEF EditorIInv, EditorTypeOK, RegionsAgree
<1> QED
  BY <1>2, <1>3

LEMMA UndoOK ==
  ASSUME EditorIInv, Undo PROVE EditorIInv'
<1>1. clickX' \in Seq(Xs) /\ clickY' \in Seq(Ys) /\ Len(clickX') = Len(clickY')
  <2>1. Len(clickX) \in Nat \ {0} /\ Len(clickY) = Len(clickX)
    BY DEF EditorIInv, EditorTypeOK, RegionsAgree, Undo
  <2>2. Len(clickX) - 1 \in 0..Len(clickX)
    BY <2>1
  <2> QED
    BY <2>1, <2>2 DEF EditorIInv, EditorTypeOK, Undo
<1> QED
  BY <1>1, SameHistory DEF Undo

LEMMA DeleteLastOK ==
  ASSUME EditorIInv, DeleteLast PROVE EditorIInv'
<1> DEFINE n == Len(regionHistory) - 1
<1>1. n \in Nat /\ regionCount = n + 1 /\ Len(regionHistory) = n + 1 /\ Len(regionType) = n + 1
  BY DEF EditorIInv, EditorTypeOK, RegionsAgree, DeleteLast
<1>2. /\ regionHistory' = SubSeq(regionHistory, 1, n) /\ regionType' = SubSeq(regionType, 1, n)
      /\ regionCount' = n
  BY <1>1 DEF DeleteLast
<1> HIDE DEF n
<1>3. /\ regionHistory' \in Seq(Region) /\ Len(regionHistory') = n
      /\ \A i \in 1..n : regionHistory'[i] = regionHistory[i]
  BY <1>1, <1>2 DEF EditorIInv, EditorTypeOK
<1>4. regionType' \in Seq({"cr", "pt"}) /\ Len(regionType') = n
  BY <1>1, <1>2 DEF EditorIInv, EditorTypeOK
<1>5. \A i \in 1..n : i \in 1..Len(regionHistory)
  BY <1>1
<1>6. \A i \in 1..Len(regionHistory)' :
        Len(regionHistory'[i][1]) = Len(regionHistory'[i][2]) /\ regionHistory'[i][1] # <<>>
  BY <1>3, <1>5 DEF EditorIInv, RegionsAgree
<1>7. UNCHANGED <<clickX, clickY>> /\ posted' = Nothing
  BY DEF DeleteLast, clickVars
<1> QED
  BY <1>1, <1>2, <1>3, <1>4, <1>6, <1>7 DEF EditorIInv, EditorTypeOK, RegionsAgree, FileShowsTheCanvas

LEMMA DoneOK ==
  ASSUME EditorIInv, Done PROVE EditorIInv'
<1>1. EditorTypeOK' /\ RegionsAgree'
  <2>1. CASE clickX # <<>>
    BY <2>1, SaveCurrentRegionOK DEF Done
  <2>2. CASE clickX = <<>>
    BY <2>2 DEF Done, EditorIInv, EditorTypeOK, RegionsAgree, clickVars, regionVars
  <2> QED
    BY <2>1, <2>2
<1>2. PICK h, t, c : h = regionHistory' /\ t = regionType' /\ c = regionCount'
  OBVIOUS
<1>3. /\ h \in Seq(Region) /\ t \in Seq({"cr", "pt"}) /\ c = Len(h) /\ Len(t) = Len(h)
      /\ \A i \in 1..Len(h) : Len(h[i][1]) = Len(h[i][2]) /\ h[i][1] # <<>>
  BY <1>1, <1>2 DEF EditorTypeOK, RegionsAgree
<1>4. Fitting(h, t, c)
  BY <1>3, RegionsFit
<1>5. /\ posted'.file = Filed(h, t, c) /\ posted'.canvas = DrawPreviousRegions(h, t)
      /\ posted'.spots = Spots(h)
  BY <1>2 DEF Done
<1>6. /\ posted'.file # Unwritten /\ posted'.canvas \subseteq ConvertDatToImage(posted'.file)
      /\ \A d \in ConvertDatToImage(posted'.file) \ posted'.canvas :
           /\ d[1] = d[2]
           /\ d[1] \in posted'.spots \/ \E l \in posted'.canvas : d[1] \in {l[1], l[2]}
  BY <1>4, <1>5, DrawnAgain
<1> QED
  BY <1>1, <1>6 DEF EditorIInv, FileShowsTheCanvas

LEMMA ClearOK ==
  ASSUME EditorIInv, ClearDrawingVariables PROVE EditorIInv'
  BY DEF ClearDrawingVariables, EditorIInv, EditorTypeOK, RegionsAgree, FileShowsTheCanvas

LEMMA InitOK == EditorInit => EditorIInv
  BY DEF EditorInit, EditorIInv, EditorTypeOK, RegionsAgree, FileShowsTheCanvas

LEMMA EditorStepOK == EditorIInv /\ [EditorNext]_editorVars => EditorIInv'
<1> SUFFICES ASSUME EditorIInv, [EditorNext]_editorVars PROVE EditorIInv'
  OBVIOUS
<1>0. clickX \in Seq(Xs) /\ clickY \in Seq(Ys) /\ Len(clickX) = Len(clickY)
  BY DEF EditorIInv, EditorTypeOK, RegionsAgree
<1>1. ASSUME NEW closed \in BOOLEAN, SelectMode(closed) PROVE EditorIInv'
  BY <1>0, <1>1, SameHistory DEF SelectMode, clickVars
<1>2. ASSUME NEW x \in Xs, NEW y \in Ys, CanvasMouseDown(x, y) PROVE EditorIInv'
  BY <1>0, <1>2, AddClickOK, SameHistory DEF CanvasMouseDown, clickVars
<1>3. ASSUME NEW x \in Xs, NEW y \in Ys, CanvasMouseMove(x, y) PROVE EditorIInv'
  BY <1>3, AddClickOK, SameHistory DEF CanvasMouseMove
<1>4. CASE CanvasMouseUp
  BY <1>0, <1>4, SameHistory DEF CanvasMouseUp, clickVars
<1>5. CASE SaveRegion
  BY <1>5, SaveCurrentRegionOK DEF SaveRegion, EditorIInv, FileShowsTheCanvas
<1>6. CASE Undo
  BY <1>6, UndoOK
<1>7. CASE DeleteLast
  BY <1>7, DeleteLastOK
<1>8. CASE Done
  BY <1>8, DoneOK
<1>9. CASE ClearDrawingVariables
  BY <1>9, ClearOK
<1>10. CASE UNCHANGED editorVars
  BY <1>0, <1>10, SameHistory DEF editorVars, regionVars
<1> QED
  BY <1>1, <1>2, <1>3, <1>4, <1>5, <1>6, <1>7, <1>8, <1>9, <1>10 DEF EditorNext

-----------------------------------------------------------------------------
(* The invariant the two properties follow from.                           *)
THEOREM EditorInvariance == EditorSpec => []EditorIInv
  BY InitOK, EditorStepOK, PTL DEF EditorSpec

(* Whatever keys are pressed when, the number of regions, their points and *)
(* their types describe the same regions, each with as many x as y and at  *)
(* least one: what createDatFileContent relies on.                         *)
THEOREM DescriptionsAgree == EditorSpec => []RegionsAgree
  BY EditorInvariance, PTL DEF EditorIInv

(* The file of a confirmed segmentation can always be written, and from it *)
(* the benchmark draws every line the page showed, and nothing more but    *)
(* dots on those lines or for regions that are all at one place.           *)
THEOREM NothingLostOnTheWay == EditorSpec => []FileShowsTheCanvas
  BY EditorInvariance, PTL DEF EditorIInv
==============================================================================
