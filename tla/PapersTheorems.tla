--------------------------- MODULE PapersTheorems ---------------------------
(***************************************************************************)
(* No document without its file, and no extended term cut back.            *)
(***************************************************************************)
EXTENDS Papers, WellFoundedInduction, TLAPS

PaperStatus == {"none", "PENDING", "ACTIVE", "REJECTED", "deleted"}

PaperRows ==
  [status : PaperStatus, kind : {"CONTRACT", "LETTER"}, replaces : 0..LastPaper,
   step : PaperSteps, term : PaperTerms \cup {0}]

PaperRowsTyped ==
  /\ stands \in PaperSteps /\ sealed \in BOOLEAN /\ extended \in BOOLEAN
  /\ paper \in [Papers -> PaperRows]
  /\ form \in PaperTerms \cup {0} /\ store \subseteq Papers
  /\ clip \in [Clips -> [at : {"free", "stored", "unfiled"},
                         by : {"none", "manager", "superviser"},
                         file : 0..LastPaper, doc : PaperRows]]

(* A version stands behind the row it replaces, which is there.            *)
InLine ==
  \A d \in Papers :
    /\ paper[d].replaces < d
    /\ d \in Rows => paper[d].replaces \in Rows \cup {0}

(* An upload holds a number of its own, beyond the row it will replace,    *)
(* and its file is stored; a deletion holds the number of a row that went. *)
Clipped ==
  \A c \in Clips :
    /\ clip[c].at = "free" => clip[c].file = 0
    /\ clip[c].at = "stored" =>
         /\ clip[c].file \in store /\ paper[clip[c].file].status = "none"
         /\ clip[c].doc.status = "none" /\ clip[c].doc.replaces < clip[c].file
         /\ \A b \in Clips \ {c} : clip[b].file # clip[c].file
    /\ clip[c].at = "unfiled" =>
         clip[c].file \in Papers /\ paper[clip[c].file].status = "deleted"

(* Numbers are given in order.                                             *)
Numbered == \A d \in Fresh, e \in Papers : d < e => e \in Fresh

PapersRight ==
  PaperRowsTyped /\ InLine /\ Clipped /\ Numbered /\ Rows \subseteq store
-----------------------------------------------------------------------------
LEMMA LeastElement ==
  ASSUME NEW T, T \subseteq Nat, T # {}
  PROVE  \E x \in T : \A y \in T : x <= y
<1> DEFINE Less == OpToRel(<, Nat)
<1>1. \E x \in T : \A y \in T : ~ (<<y, x>> \in Less)
  BY WFMin, NatLessThanWellFounded
<1>2. \A x, y \in Nat : <<y, x>> \in Less <=> y < x
  BY DEF OpToRel
<1> HIDE DEF Less
<1>3. PICK x \in T : \A y \in T : ~ (<<y, x>> \in Less)
  BY <1>1
<1>4. \A y \in T : x <= y
  <2> SUFFICES ASSUME NEW y \in T PROVE x <= y
    OBVIOUS
  <2>1. ~ (<<y, x>> \in Less)
    BY <1>3
  <2>2. x \in Nat /\ y \in Nat
    OBVIOUS
  <2>3. ~ (y < x)
    BY <1>2, <2>1, <2>2
  <2> QED
    BY <2>2, <2>3
<1> QED
  BY <1>4

LEMMA MinIsLeast ==
  ASSUME NEW T, T \subseteq Nat, T # {}
  PROVE  Min(T) \in T /\ \A y \in T : Min(T) <= y
BY LeastElement DEF Min

LEMMA GreatestElement ==
  ASSUME NEW n \in Nat, NEW T, T \subseteq 0..n, T # {}
  PROVE  \E x \in T : \A y \in T : x >= y
<1>1. \A x \in T : x \in Nat /\ x <= n
  OBVIOUS
<1> DEFINE U == {u \in Nat : \E x \in T : u = n - x}
<1>2. \A x \in T : n - x \in U
  BY <1>1
<1>3. U \subseteq Nat /\ U # {}
  BY <1>2
<1>4. \A u \in U : \E x \in T : u = n - x
  OBVIOUS
<1> HIDE DEF U
<1>5. PICK u \in U : \A v \in U : u <= v
  BY <1>3, LeastElement
<1>6. PICK x \in T : u = n - x
  BY <1>4
<1>7. \A y \in T : x >= y
  <2> SUFFICES ASSUME NEW y \in T PROVE x >= y
    OBVIOUS
  <2>1. u <= n - y
    BY <1>2, <1>5
  <2> QED
    BY <1>1, <1>6, <2>1
<1> QED
  BY <1>7

LEMMA MaxIsGreatest ==
  ASSUME NEW n \in Nat, NEW T, T \subseteq 0..n, T # {}
  PROVE  Max(T) \in T /\ \A y \in T : Max(T) >= y
BY GreatestElement DEF Max

LEMMA LatestOf ==
  ASSUME NEW S, S \subseteq Papers, S # {}
  PROVE  Max(S) \in S /\ Max(S) \in Papers /\ \A d \in S : d <= Max(S)
<1>1. S \subseteq 0..LastPaper /\ LastPaper \in Nat
  BY PapersAssumption DEF Papers
<1>2. Max(S) \in S /\ \A d \in S : Max(S) >= d
  BY <1>1, MaxIsGreatest
<1> QED
  BY <1>1, <1>2 DEF Papers

LEMMA NextNumber ==
  ASSUME Fresh # {}
  PROVE  Min(Fresh) \in Fresh /\ Min(Fresh) \in Papers /\ \A d \in Fresh : Min(Fresh) <= d
<1>1. Fresh \subseteq Papers /\ Papers \subseteq Nat
  BY PapersAssumption DEF Fresh, Papers
<1>2. Min(Fresh) \in Fresh /\ \A d \in Fresh : Min(Fresh) <= d
  BY <1>1, MinIsLeast
<1> QED
  BY <1>1, <1>2

LEMMA ContractIsCurrent ==
  IF CurrentContracts = {} THEN Contract = 0
  ELSE /\ Contract \in CurrentContracts /\ Contract \in Papers
       /\ \A d \in CurrentContracts : d <= Contract
BY LatestOf DEF Contract, CurrentContracts, Rows

LEMMA TermsTyped ==
  ASSUME PapersRight
  PROVE  /\ Contract \in 0..LastPaper /\ ContractTerm \in PaperTerms \cup {0}
         /\ Contract # 0 => Contract \in Papers /\ Contract \in Rows
<1>1. Contract # 0 => Contract \in Papers /\ Contract \in Rows
  BY ContractIsCurrent DEF CurrentContracts
<1>2. 0 \in 0..LastPaper /\ Papers \subseteq 0..LastPaper
  BY PapersAssumption DEF Papers
<1>3. ContractTerm \in PaperTerms \cup {0}
  BY <1>1 DEF ContractTerm, PapersRight, PaperRowsTyped, PaperRows
<1> QED
  BY <1>1, <1>2, <1>3

(* What is attached or approved is a row in the place it asked for.        *)
LEMMA ActiveRow ==
  ASSUME PapersRight, NEW p \in PaperRows
  PROVE  /\ BecomesActive(p) \in PaperRows
         /\ BecomesActive(p).status = "ACTIVE"
         /\ BecomesActive(p).kind = p.kind /\ BecomesActive(p).replaces = p.replaces
         /\ BecomesActive(p).step = p.step
         /\ BecomesActive(p).term =
              IF p.kind = "CONTRACT" THEN KeepTerm(Details(p)) ELSE 0
         /\ Details(p) \in PaperTerms \cup {0}
<1>1. Details(p) \in PaperTerms \cup {0}
  <2>1. p.replaces \in Rows => paper[p.replaces] \in PaperRows
    BY DEF Rows, PapersRight, PaperRowsTyped
  <2> QED
    BY <2>1 DEF Details, PaperRows
<1>2. KeepTerm(Details(p)) \in PaperTerms \cup {0}
  BY <1>1, TermsTyped DEF KeepTerm
<1>3. (IF p.kind = "CONTRACT" THEN KeepTerm(Details(p)) ELSE 0) \in PaperTerms \cup {0}
  BY <1>2
<1> DEFINE t == IF p.kind = "CONTRACT" THEN KeepTerm(Details(p)) ELSE 0
<1>4. BecomesActive(p) = [p EXCEPT !.status = "ACTIVE", !.term = t]
  BY DEF BecomesActive
<1>5. "ACTIVE" \in PaperStatus
  BY DEF PaperStatus
<1>6. t \in PaperTerms \cup {0}
  BY <1>3
<1> HIDE DEF t
<1>7. /\ BecomesActive(p) \in PaperRows
      /\ BecomesActive(p).status = "ACTIVE"
      /\ BecomesActive(p).kind = p.kind /\ BecomesActive(p).replaces = p.replaces
      /\ BecomesActive(p).step = p.step
      /\ BecomesActive(p).term = t
  BY <1>4, <1>5, <1>6 DEF PaperRows
<1> QED
  BY <1>1, <1>7 DEF t

LEMMA AttachedRow ==
  ASSUME PapersRight, NEW c \in Clips
  PROVE  /\ Attached(clip[c]) \in PaperRows
         /\ Attached(clip[c]).status \in {"PENDING", "ACTIVE"}
         /\ Attached(clip[c]).replaces = clip[c].doc.replaces
         /\ Attached(clip[c]).kind = clip[c].doc.kind
         /\ Attached(clip[c]).status = "ACTIVE" =>
              Attached(clip[c]) = BecomesActive(clip[c].doc)
<1> DEFINE p == clip[c].doc
<1>1. p \in PaperRows
  BY DEF PapersRight, PaperRowsTyped
<1>2. CASE Waits(clip[c].by, clip[c].doc.step)
  <2>1. Attached(clip[c]) = [p EXCEPT !.status = "PENDING", !.term = Details(p)]
    BY <1>2 DEF Attached
  <2>2. Details(p) \in PaperTerms \cup {0} /\ "PENDING" \in PaperStatus
    BY <1>1, ActiveRow DEF PaperStatus
  <2> HIDE DEF p
  <2>3. /\ Attached(clip[c]) \in PaperRows
        /\ Attached(clip[c]).status = "PENDING"
        /\ Attached(clip[c]).replaces = p.replaces
        /\ Attached(clip[c]).kind = p.kind
    BY <1>1, <2>1, <2>2 DEF PaperRows
  <2> QED
    BY <2>3 DEF p
<1>3. CASE ~Waits(clip[c].by, clip[c].doc.step)
  <2>1. Attached(clip[c]) = BecomesActive(p)
    BY <1>3 DEF Attached
  <2> QED
    BY <1>1, <2>1, ActiveRow
<1> QED
  BY <1>2, <1>3
-----------------------------------------------------------------------------
LEMMA PapersRightInit ==
  ASSUME PapersInit
  PROVE  PapersRight
<1>1. LastPaper \in Nat /\ Papers \subseteq 1..LastPaper
  BY PapersAssumption DEF Papers
<1>2. NoPaper \in PaperRows
  BY <1>1 DEF NoPaper, PaperRows, PaperStatus, PaperSteps
<1>3. PaperRowsTyped
  <2>1. FreeClip \in [at : {"free", "stored", "unfiled"}, by : {"none", "manager", "superviser"},
                      file : 0..LastPaper, doc : PaperRows]
    BY <1>1, <1>2 DEF FreeClip
  <2> QED
    BY <1>2, <2>1 DEF PapersInit, PaperRowsTyped, PaperSteps
<1>4. Rows = {} /\ \A d \in Papers : paper[d].replaces = 0
  BY DEF PapersInit, Rows, NoPaper
<1>5. \A d \in Papers : d > 0
  BY <1>1
<1>6. InLine
  BY <1>4, <1>5 DEF InLine
<1>7. Clipped
  BY DEF PapersInit, Clipped, FreeClip
<1>8. Fresh = Papers
  BY <1>5 DEF PapersInit, Fresh, FreeClip, NoPaper
<1> QED
  BY <1>3, <1>4, <1>6, <1>7, <1>8 DEF PapersRight, Numbered

(* Steps that touch no row, no clip and no file.                           *)
LEMMA RowsRest ==
  ASSUME PapersRight, UNCHANGED <<paper, clip, store>>,
         stands' \in PaperSteps, sealed' \in BOOLEAN, extended' \in BOOLEAN,
         form' \in PaperTerms \cup {0}
  PROVE  PapersRight'
<1>1. Rows' = Rows /\ Fresh' = Fresh
  BY DEF Rows, Fresh
<1> QED
  BY <1>1 DEF PapersRight, PaperRowsTyped, InLine, Clipped, Numbered

(* Steps that change a row which stays one, and no clip.                   *)
LEMMA RowChanges ==
  ASSUME PapersRight, NEW d \in Rows, NEW p \in PaperRows,
         p.status \notin {"none", "deleted"}, p.replaces \in {paper[d].replaces, 0},
         paper' = [paper EXCEPT ![d] = p],
         UNCHANGED <<stands, sealed, clip, store>>, extended' \in BOOLEAN,
         form' \in PaperTerms \cup {0}
  PROVE  PapersRight'
<1>1. d \in Papers /\ paper[d].status \notin {"none", "deleted"}
  BY DEF Rows
<1>2. /\ paper' \in [Papers -> PaperRows]
      /\ paper'[d] = p /\ \A e \in Papers \ {d} : paper'[e] = paper[e]
  BY <1>1 DEF PapersRight, PaperRowsTyped
<1>3. Rows' = Rows
  BY <1>1, <1>2 DEF Rows
<1>4. Fresh' = Fresh
  BY <1>1, <1>2 DEF Fresh
<1>5. InLine'
  <2>1. d > 0
    BY <1>1, PapersAssumption DEF Papers
  <2>2. \A e \in Papers : paper'[e].replaces \in {paper[e].replaces, 0}
    BY <1>2
  <2>3. \A e \in Papers : paper[e].replaces < e /\ e > 0
    BY PapersAssumption DEF PapersRight, InLine, Papers
  <2> QED
    BY <1>3, <2>2, <2>3 DEF PapersRight, InLine
<1>6. Clipped'
  BY <1>1, <1>2 DEF PapersRight, Clipped
<1> QED
  BY <1>2, <1>3, <1>4, <1>5, <1>6 DEF PapersRight, PaperRowsTyped, Numbered

LEMMA StoreStep ==
  ASSUME PapersRight, NEW c \in Clips, NEW who \in {"manager", "superviser"},
         NEW doc \in Offered, StoreFile(c, who, doc)
  PROVE  PapersRight'
<1> DEFINE f == Min(Fresh)
<1>1. /\ clip[c].at = "free" /\ Fresh # {} /\ store' = store \cup {f}
      /\ clip' = [clip EXCEPT ![c] = [at |-> "stored", by |-> who, file |-> f, doc |-> doc]]
      /\ UNCHANGED <<about, stands, sealed, paper, extended, form>>
  BY DEF StoreFile, MayBegin
<1>2. f \in Fresh /\ f \in Papers /\ \A d \in Fresh : f <= d
  BY <1>1, NextNumber
<1> HIDE DEF f
<1>3. paper[f].status = "none" /\ \A b \in Clips : clip[b].file # f
  BY <1>2 DEF Fresh
<1>4. Papers \subseteq Nat /\ Papers \subseteq 0..LastPaper /\ 0 \in 0..LastPaper /\ f > 0
  BY <1>2, PapersAssumption DEF Papers
<1>5. \A d \in Rows : d < f
  <2> SUFFICES ASSUME NEW d \in Rows PROVE d < f
    OBVIOUS
  <2>1. d \in Papers /\ paper[d].status # "none"
    BY DEF Rows
  <2>2. d \notin Fresh
    BY <2>1 DEF Fresh
  <2>3. ~(f < d)
    BY <1>2, <2>1, <2>2 DEF PapersRight, Numbered
  <2>4. f # d
    BY <1>2, <2>2
  <2> QED
    BY <1>2, <1>4, <2>1, <2>3, <2>4
<1>6. doc \in PaperRows /\ doc.status = "none" /\ doc.replaces < f
  <2>1. /\ doc.status = "none" /\ doc.kind \in {"CONTRACT", "LETTER"}
        /\ doc.replaces \in Rows \cup {0} /\ doc.step \in PaperSteps
        /\ doc.term \in PaperTerms \cup {0}
        /\ doc = [status |-> doc.status, kind |-> doc.kind, replaces |-> doc.replaces,
                  step |-> doc.step, term |-> doc.term]
    BY DEF Offered, PaperSteps
  <2>2. doc.replaces \in 0..LastPaper /\ "none" \in PaperStatus
    BY <1>4, <2>1 DEF Rows, PaperStatus
  <2>3. doc.replaces < f
    BY <1>4, <1>5, <2>1
  <2> QED
    BY <2>1, <2>2, <2>3 DEF PaperRows
<1> DEFINE k == [at |-> "stored", by |-> who, file |-> f, doc |-> doc]
<1>7. /\ k \in [at : {"free", "stored", "unfiled"}, by : {"none", "manager", "superviser"},
                 file : 0..LastPaper, doc : PaperRows]
      /\ k.at = "stored" /\ k.file = f /\ k.doc = doc
  BY <1>2, <1>4, <1>6
<1>8. clip' = [clip EXCEPT ![c] = k]
  BY <1>1
<1> HIDE DEF k
<1>9. clip'[c] = k /\ \A b \in Clips \ {c} : clip'[b] = clip[b]
  BY <1>8 DEF PapersRight, PaperRowsTyped
<1>10. PaperRowsTyped'
  BY <1>1, <1>2, <1>7, <1>8 DEF PapersRight, PaperRowsTyped
<1>11. Rows' = Rows
  BY <1>1 DEF Rows
<1>12. InLine'
  BY <1>1, <1>11 DEF PapersRight, InLine
<1>13. Clipped'
  <2> SUFFICES ASSUME NEW b \in Clips
               PROVE  /\ clip'[b].at = "free" => clip'[b].file = 0
                      /\ clip'[b].at = "stored" =>
                           /\ clip'[b].file \in store' /\ paper'[clip'[b].file].status = "none"
                           /\ clip'[b].doc.status = "none" /\ clip'[b].doc.replaces < clip'[b].file
                           /\ \A e \in Clips \ {b} : clip'[e].file # clip'[b].file
                      /\ clip'[b].at = "unfiled" =>
                           clip'[b].file \in Papers /\ paper'[clip'[b].file].status = "deleted"
    BY DEF Clipped
  <2>1. CASE b = c
    BY <1>1, <1>3, <1>6, <1>7, <1>9, <2>1
  <2>2. CASE b # c
    <3>1. clip'[b] = clip[b] /\ clip[b].file # f
      BY <1>3, <1>9, <2>2
    <3> QED
      BY <1>1, <1>7, <1>9, <2>2, <3>1 DEF PapersRight, Clipped
  <2> QED
    BY <2>1, <2>2
<1>14. Fresh' = Fresh \ {f}
  <2>1. clip[c].file = 0
    BY <1>1 DEF PapersRight, Clipped
  <2>2. \A d \in Papers : d > 0
    BY PapersAssumption DEF Papers
  <2>3. \A d \in Papers : d \in Fresh' <=> d \in Fresh /\ d # f
    <3> SUFFICES ASSUME NEW d \in Papers PROVE d \in Fresh' <=> d \in Fresh /\ d # f
      OBVIOUS
    <3>1. (\A b \in Clips : clip'[b].file # d) <=> (\A b \in Clips : clip[b].file # d) /\ d # f
      BY <1>3, <1>7, <1>9, <2>1, <2>2
    <3> QED
      BY <1>1, <3>1 DEF Fresh
  <2> QED
    BY <2>3 DEF Fresh
<1>15. Numbered'
  <2> SUFFICES ASSUME NEW d \in Fresh', NEW e \in Papers, d < e PROVE e \in Fresh'
    BY DEF Numbered
  <2>1. d \in Fresh /\ d # f /\ d \in Papers
    BY <1>14 DEF Fresh
  <2>2. e \in Fresh
    BY <2>1 DEF PapersRight, Numbered
  <2>3. e # f
    BY <1>2, <1>4, <2>1
  <2> QED
    BY <1>14, <2>2, <2>3
<1> QED
  BY <1>1, <1>10, <1>11, <1>12, <1>13, <1>15 DEF PapersRight

(* An upload ends: its row is written, or its number is spent.             *)
LEMMA UploadEnds ==
  ASSUME PapersRight, NEW c \in Clips, clip[c].at = "stored",
         NEW p \in PaperRows, p.status # "none", p.replaces < clip[c].file,
         p.status # "deleted" => p.replaces \in Rows \cup {0},
         paper' = [paper EXCEPT ![clip[c].file] = p],
         clip' = [clip EXCEPT ![c] = FreeClip],
         store' \subseteq store, store \ {clip[c].file} \subseteq store',
         p.status # "deleted" => store' = store,
         UNCHANGED <<about, stands, sealed, extended, form>>
  PROVE  PapersRight'
<1> DEFINE f == clip[c].file
<1>1. /\ f \in store /\ f \in Papers /\ paper[f].status = "none" /\ f > 0
      /\ \A b \in Clips \ {c} : clip[b].file # f
  <2>1. f \in store /\ f \in Papers
    BY DEF PapersRight, Clipped, PaperRowsTyped
  <2> QED
    BY <2>1, PapersAssumption DEF PapersRight, Clipped, Papers
<1>2. paper' = [paper EXCEPT ![f] = p] /\ p.replaces < f
  OBVIOUS
<1>3. store' \subseteq store /\ store \ {f} \subseteq store'
  OBVIOUS
<1> HIDE DEF f
<1>4. /\ paper' \in [Papers -> PaperRows]
      /\ paper'[f] = p /\ \A e \in Papers \ {f} : paper'[e] = paper[e]
  BY <1>1, <1>2 DEF PapersRight, PaperRowsTyped
<1>5. FreeClip.at = "free" /\ FreeClip.file = 0
  BY DEF FreeClip
<1>6. FreeClip \in [at : {"free", "stored", "unfiled"}, by : {"none", "manager", "superviser"},
                    file : 0..LastPaper, doc : PaperRows]
  <2>1. NoPaper \in PaperRows /\ 0 \in 0..LastPaper
    BY PapersAssumption DEF NoPaper, PaperRows, PaperStatus, PaperSteps
  <2> QED
    BY <2>1 DEF FreeClip
<1>7. clip'[c] = FreeClip /\ \A b \in Clips \ {c} : clip'[b] = clip[b]
  BY DEF PapersRight, PaperRowsTyped
<1>8. PaperRowsTyped'
  BY <1>3, <1>4, <1>6 DEF PapersRight, PaperRowsTyped
<1>9. Rows' = IF p.status = "deleted" THEN Rows ELSE Rows \cup {f}
  <2>1. \A d \in Papers : d \in Rows' <=> d \in Rows \/ (d = f /\ p.status # "deleted")
    BY <1>1, <1>4 DEF Rows
  <2> QED
    BY <1>1, <2>1 DEF Rows
<1>10. InLine'
  <2> SUFFICES ASSUME NEW d \in Papers
               PROVE  /\ paper'[d].replaces < d
                      /\ d \in Rows' => paper'[d].replaces \in Rows' \cup {0}
    BY DEF InLine
  <2>1. CASE d = f
    BY <1>1, <1>2, <1>4, <1>9, <2>1 DEF Rows
  <2>2. CASE d # f
    BY <1>4, <1>9, <2>2 DEF PapersRight, InLine
  <2> QED
    BY <2>1, <2>2
<1>11. Clipped'
  <2> SUFFICES ASSUME NEW b \in Clips
               PROVE  /\ clip'[b].at = "free" => clip'[b].file = 0
                      /\ clip'[b].at = "stored" =>
                           /\ clip'[b].file \in store' /\ paper'[clip'[b].file].status = "none"
                           /\ clip'[b].doc.status = "none" /\ clip'[b].doc.replaces < clip'[b].file
                           /\ \A e \in Clips \ {b} : clip'[e].file # clip'[b].file
                      /\ clip'[b].at = "unfiled" =>
                           clip'[b].file \in Papers /\ paper'[clip'[b].file].status = "deleted"
    BY DEF Clipped
  <2>1. CASE b = c
    BY <1>5, <1>7, <2>1
  <2>2. CASE b # c
    <3>1. clip'[b] = clip[b] /\ clip[b].file # f
      BY <1>1, <1>7, <2>2
    <3>2. clip[b].file \in Papers => paper'[clip[b].file] = paper[clip[b].file]
      BY <1>4, <3>1
    <3>3. CASE clip[b].at = "stored"
      <4>1. /\ clip[b].file \in store /\ clip[b].file \in Papers
            /\ paper[clip[b].file].status = "none"
            /\ clip[b].doc.status = "none" /\ clip[b].doc.replaces < clip[b].file
            /\ \A e \in Clips \ {b} : clip[e].file # clip[b].file
        BY <3>3 DEF PapersRight, Clipped, PaperRowsTyped
      <4>2. clip[b].file # 0
        BY <4>1, PapersAssumption DEF Papers
      <4> QED
        BY <1>3, <1>5, <1>7, <3>1, <3>2, <3>3, <4>1, <4>2
    <3>4. CASE clip[b].at # "stored"
      BY <3>1, <3>2, <3>4 DEF PapersRight, Clipped
    <3> QED
      BY <3>3, <3>4
  <2> QED
    BY <2>1, <2>2
<1>12. Fresh' = Fresh
  <2> DEFINE g == clip[c].file
  <2>1. g = f
    BY DEF f
  <2>2. \A d \in Papers : d # 0
    BY PapersAssumption DEF Papers
  <2>3. \A d \in Papers : d \in Fresh' <=> d \in Fresh
    <3> SUFFICES ASSUME NEW d \in Papers PROVE d \in Fresh' <=> d \in Fresh
      OBVIOUS
    <3>1. CASE d = f
      BY <1>4, <2>1, <3>1 DEF Fresh
    <3>2. CASE d # f
      BY <1>4, <1>5, <1>7, <2>1, <2>2, <3>2 DEF Fresh
    <3> QED
      BY <3>1, <3>2
  <2> QED
    BY <2>3 DEF Fresh
<1>13. Rows' \subseteq store'
  BY <1>1, <1>3, <1>9 DEF PapersRight, Rows
<1> QED
  BY <1>8, <1>10, <1>11, <1>12, <1>13 DEF PapersRight, Numbered

LEMMA AttachStep ==
  ASSUME PapersRight, NEW c \in Clips, AttachFile(c)
  PROVE  PapersRight'
<1>1. Attached(clip[c]).replaces \in Rows \cup {0}
  BY AttachedRow DEF AttachFile, Attachable
<1>2. Attached(clip[c]).replaces < clip[c].file
  BY AttachedRow DEF AttachFile, PapersRight, Clipped
<1> DEFINE p == Attached(clip[c])
<1>3. p \in PaperRows /\ p.status \notin {"none", "deleted"}
  BY AttachedRow
<1>4. /\ p.replaces \in Rows \cup {0} /\ p.replaces < clip[c].file
      /\ paper' = [paper EXCEPT ![clip[c].file] = p]
  BY <1>1, <1>2 DEF AttachFile
<1> HIDE DEF p
<1> QED
  BY <1>3, <1>4, UploadEnds DEF AttachFile

LEMMA UploadLost ==
  ASSUME PapersRight, NEW c \in Clips, Refuse(c) \/ LoseUpload(c)
  PROVE  PapersRight'
<1> DEFINE f == clip[c].file
           p == [paper[f] EXCEPT !.status = "deleted"]
<1>1. clip[c].at = "stored"
  BY DEF Refuse, LoseUpload
<1>2. f \in Papers /\ paper[f] \in PaperRows
  BY <1>1 DEF PapersRight, PaperRowsTyped, Clipped
<1>3. paper[f].replaces < f
  BY <1>2 DEF PapersRight, InLine
<1>4. paper' = [paper EXCEPT ![f] = p]
  BY <1>2 DEF Refuse, LoseUpload, PapersRight, PaperRowsTyped
<1>5. p \in PaperRows /\ p.status = "deleted" /\ p.replaces < f
  <2> HIDE DEF f
  <2>1. "deleted" \in PaperStatus
    BY DEF PaperStatus
  <2> QED
    BY <1>2, <1>3, <2>1 DEF PaperRows
<1>6. /\ clip' = [clip EXCEPT ![c] = FreeClip]
      /\ store' \subseteq store /\ store \ {clip[c].file} \subseteq store'
      /\ UNCHANGED <<about, stands, sealed, extended, form>>
  BY DEF Refuse, LoseUpload
<1> HIDE DEF p
<1> QED
  BY <1>1, <1>4, <1>5, <1>6, UploadEnds

LEMMA DeleteStep ==
  ASSUME PapersRight, NEW c \in Clips, NEW d \in Papers, DeletePaper(c, d)
  PROVE  PapersRight'
<1>1. /\ clip[c].at = "free" /\ d \in Rows /\ paper' = Unlinked(d)
      /\ clip' = [clip EXCEPT ![c] = [FreeClip EXCEPT !.at = "unfiled", !.file = d]]
      /\ UNCHANGED <<about, stands, sealed, extended, form, store>>
  BY DEF DeletePaper, MayBegin
<1>2. Papers \subseteq Nat /\ Papers \subseteq 0..LastPaper /\ d > 0
  BY PapersAssumption DEF Papers
<1>3. \A e \in Papers : paper[e] \in PaperRows
  BY DEF PapersRight, PaperRowsTyped
<1>4. /\ paper'[d].status = "deleted" /\ paper'[d].replaces = paper[d].replaces
      /\ paper'[d] \in PaperRows
  <2>1. paper'[d] = [paper[d] EXCEPT !.status = "deleted"]
    <3>1. d \notin Successors(d)
      BY <1>2 DEF Successors, PapersRight, InLine
    <3> QED
      BY <1>1, <3>1 DEF Unlinked
  <2>2. "deleted" \in PaperStatus
    BY DEF PaperStatus
  <2> QED
    BY <1>3, <2>1, <2>2 DEF PaperRows
<1>5. \A e \in Successors(d) :
        /\ paper'[e].status = paper[e].status /\ paper'[e].replaces = paper[d].replaces
        /\ paper'[e] \in PaperRows
  <2> SUFFICES ASSUME NEW e \in Successors(d)
               PROVE  /\ paper'[e].status = paper[e].status
                      /\ paper'[e].replaces = paper[d].replaces
                      /\ paper'[e] \in PaperRows
    OBVIOUS
  <2>1. e \in Rows /\ e \in Papers /\ paper[e].replaces = d
    BY DEF Successors, Rows
  <2>2. e # d
    BY <1>2, <2>1 DEF PapersRight, InLine
  <2>3. paper'[e] = [paper[e] EXCEPT !.replaces = paper[d].replaces]
    BY <1>1, <2>1, <2>2 DEF Unlinked
  <2> QED
    BY <1>3, <2>1, <2>3 DEF PaperRows
<1>6. \A e \in Papers \ (Successors(d) \cup {d}) : paper'[e] = paper[e]
  BY <1>1 DEF Unlinked
<1>7. paper' \in [Papers -> PaperRows]
  <2>1. \A e \in Papers : paper'[e] \in PaperRows
    BY <1>3, <1>4, <1>5, <1>6
  <2>2. paper' = [e \in Papers |-> paper'[e]]
    BY <1>1 DEF Unlinked
  <2> QED
    BY <2>1, <2>2
<1>8. Rows' = Rows \ {d}
  <2>1. \A e \in Papers : e \in Rows' <=> e \in Rows /\ e # d
    BY <1>4, <1>5, <1>6 DEF Rows
  <2> QED
    BY <2>1 DEF Rows
<1>9. InLine'
  <2> SUFFICES ASSUME NEW e \in Papers
               PROVE  /\ paper'[e].replaces < e
                      /\ e \in Rows' => paper'[e].replaces \in Rows' \cup {0}
    BY DEF InLine
  <2>1. paper[d].replaces \in Rows \cup {0} /\ paper[d].replaces < d
    BY <1>1 DEF PapersRight, InLine
  <2>2. CASE e = d
    BY <1>4, <1>8, <2>1, <2>2
  <2>3. CASE e \in Successors(d)
    <3>1. d < e
      BY <2>3 DEF Successors, PapersRight, InLine
    <3>2. paper[d].replaces \in Nat
      BY <1>2, <2>1 DEF Rows
    <3> QED
      BY <1>2, <1>5, <1>8, <2>1, <2>3, <3>1, <3>2
  <2>4. CASE e \notin Successors(d) \cup {d}
    <3>1. paper'[e] = paper[e] /\ (e \in Rows => paper[e].replaces # d)
      BY <1>6, <2>4 DEF Successors
    <3> QED
      BY <1>8, <3>1 DEF PapersRight, InLine
  <2> QED
    BY <2>2, <2>3, <2>4
<1> DEFINE k == [FreeClip EXCEPT !.at = "unfiled", !.file = d]
<1>10. /\ k \in [at : {"free", "stored", "unfiled"}, by : {"none", "manager", "superviser"},
                  file : 0..LastPaper, doc : PaperRows]
       /\ k.at = "unfiled" /\ k.file = d
  <2>1. NoPaper \in PaperRows /\ 0 \in 0..LastPaper
    BY PapersAssumption DEF NoPaper, PaperRows, PaperStatus, PaperSteps
  <2> QED
    BY <1>2, <2>1 DEF FreeClip
<1>11. clip' = [clip EXCEPT ![c] = k]
  BY <1>1
<1> HIDE DEF k
<1>12. clip'[c] = k /\ \A b \in Clips \ {c} : clip'[b] = clip[b]
  BY <1>11 DEF PapersRight, PaperRowsTyped
<1>13. PaperRowsTyped'
  <2>1. clip' \in [Clips -> [at : {"free", "stored", "unfiled"},
                             by : {"none", "manager", "superviser"},
                             file : 0..LastPaper, doc : PaperRows]]
    BY <1>10, <1>11 DEF PapersRight, PaperRowsTyped
  <2> QED
    BY <1>1, <1>7, <2>1 DEF PapersRight, PaperRowsTyped
<1>14. \A e \in Papers : (paper'[e].status = "none" <=> paper[e].status = "none")
                        /\ (paper[e].status = "deleted" => paper'[e].status = "deleted")
  BY <1>1, <1>4, <1>5, <1>6 DEF Rows
<1>15. paper[d].status # "none"
  BY <1>1 DEF Rows
<1>16. Clipped'
  <2> SUFFICES ASSUME NEW b \in Clips
               PROVE  /\ clip'[b].at = "free" => clip'[b].file = 0
                      /\ clip'[b].at = "stored" =>
                           /\ clip'[b].file \in store' /\ paper'[clip'[b].file].status = "none"
                           /\ clip'[b].doc.status = "none" /\ clip'[b].doc.replaces < clip'[b].file
                           /\ \A e \in Clips \ {b} : clip'[e].file # clip'[b].file
                      /\ clip'[b].at = "unfiled" =>
                           clip'[b].file \in Papers /\ paper'[clip'[b].file].status = "deleted"
    BY DEF Clipped
  <2>1. CASE b = c
    BY <1>4, <1>10, <1>12, <2>1
  <2>2. CASE b # c
    <3>1. clip'[b] = clip[b]
      BY <1>12, <2>2
    <3>2. CASE clip[b].at = "stored"
      <4>1. /\ clip[b].file \in store /\ clip[b].file \in Papers
            /\ paper[clip[b].file].status = "none"
            /\ clip[b].doc.status = "none" /\ clip[b].doc.replaces < clip[b].file
            /\ \A e \in Clips \ {b} : clip[e].file # clip[b].file
        BY <3>2 DEF PapersRight, Clipped, PaperRowsTyped
      <4>2. clip[b].file # d
        BY <1>15, <4>1
      <4> QED
        BY <1>1, <1>10, <1>12, <1>14, <3>1, <3>2, <4>1, <4>2
    <3>3. CASE clip[b].at # "stored"
      BY <1>14, <3>1, <3>3 DEF PapersRight, Clipped
    <3> QED
      BY <3>2, <3>3
  <2> QED
    BY <2>1, <2>2
<1>17. Fresh' = Fresh
  <2>1. \A e \in Papers : e \in Fresh' <=> e \in Fresh
    <3> SUFFICES ASSUME NEW e \in Papers PROVE e \in Fresh' <=> e \in Fresh
      OBVIOUS
    <3>1. clip[c].file = 0 /\ e # 0
      BY <1>1, PapersAssumption DEF PapersRight, Clipped, Papers
    <3>2. CASE e = d
      BY <1>14, <1>15, <3>2 DEF Fresh
    <3>3. CASE e # d
      <4>1. (\A b \in Clips : clip'[b].file # e) <=> (\A b \in Clips : clip[b].file # e)
        BY <1>10, <1>12, <3>1, <3>3
      <4> QED
        BY <1>14, <4>1 DEF Fresh
    <3> QED
      BY <3>2, <3>3
  <2> QED
    BY <2>1 DEF Fresh
<1> QED
  BY <1>1, <1>8, <1>9, <1>13, <1>16, <1>17 DEF PapersRight, Numbered

LEMMA TakeAwayStep ==
  ASSUME PapersRight, NEW c \in Clips, TakeAway(c)
  PROVE  PapersRight'
<1> DEFINE f == clip[c].file
<1>1. /\ clip[c].at = "unfiled" /\ clip' = [clip EXCEPT ![c] = FreeClip]
      /\ store' \subseteq store /\ store \ {f} \subseteq store'
      /\ UNCHANGED <<about, stands, sealed, paper, extended, form>>
  BY DEF TakeAway
<1>2. f \in Papers /\ paper[f].status = "deleted"
  BY <1>1 DEF PapersRight, Clipped
<1>3. f = clip[c].file
  OBVIOUS
<1> HIDE DEF f
<1>4. /\ FreeClip.at = "free" /\ FreeClip.file = 0
      /\ FreeClip \in [at : {"free", "stored", "unfiled"}, by : {"none", "manager", "superviser"},
                       file : 0..LastPaper, doc : PaperRows]
  <2>1. NoPaper \in PaperRows /\ 0 \in 0..LastPaper
    BY PapersAssumption DEF NoPaper, PaperRows, PaperStatus, PaperSteps
  <2> QED
    BY <2>1 DEF FreeClip
<1>5. clip'[c] = FreeClip /\ \A b \in Clips \ {c} : clip'[b] = clip[b]
  BY <1>1 DEF PapersRight, PaperRowsTyped
<1>6. PaperRowsTyped'
  BY <1>1, <1>4 DEF PapersRight, PaperRowsTyped
<1>7. Rows' = Rows /\ f \notin Rows
  BY <1>1, <1>2 DEF Rows
<1>8. InLine' /\ Rows' \subseteq store'
  BY <1>1, <1>7 DEF PapersRight, InLine
<1>9. Clipped'
  <2> SUFFICES ASSUME NEW b \in Clips
               PROVE  /\ clip'[b].at = "free" => clip'[b].file = 0
                      /\ clip'[b].at = "stored" =>
                           /\ clip'[b].file \in store' /\ paper'[clip'[b].file].status = "none"
                           /\ clip'[b].doc.status = "none" /\ clip'[b].doc.replaces < clip'[b].file
                           /\ \A e \in Clips \ {b} : clip'[e].file # clip'[b].file
                      /\ clip'[b].at = "unfiled" =>
                           clip'[b].file \in Papers /\ paper'[clip'[b].file].status = "deleted"
    BY DEF Clipped
  <2>1. CASE b = c
    BY <1>4, <1>5, <2>1
  <2>2. CASE b # c
    <3>1. clip'[b] = clip[b]
      BY <1>5, <2>2
    <3>2. CASE clip[b].at = "stored"
      <4>1. /\ clip[b].file \in store /\ clip[b].file \in Papers
            /\ paper[clip[b].file].status = "none"
            /\ clip[b].doc.status = "none" /\ clip[b].doc.replaces < clip[b].file
            /\ \A e \in Clips \ {b} : clip[e].file # clip[b].file
        BY <3>2 DEF PapersRight, Clipped, PaperRowsTyped
      <4>2. clip[b].file # f /\ clip[b].file # 0
        BY <1>2, <4>1, PapersAssumption DEF Papers
      <4> QED
        BY <1>1, <1>4, <1>5, <3>1, <3>2, <4>1, <4>2
    <3>3. CASE clip[b].at # "stored"
      BY <1>1, <3>1, <3>3 DEF PapersRight, Clipped
    <3> QED
      BY <3>2, <3>3
  <2> QED
    BY <2>1, <2>2
<1>10. Fresh' = Fresh
  <2>1. \A e \in Papers : e \in Fresh' <=> e \in Fresh
    <3> SUFFICES ASSUME NEW e \in Papers PROVE e \in Fresh' <=> e \in Fresh
      OBVIOUS
    <3>1. e # 0
      BY PapersAssumption DEF Papers
    <3>2. CASE e = f
      BY <1>1, <1>2, <3>2 DEF Fresh
    <3>3. CASE e # f
      <4>1. (\A b \in Clips : clip'[b].file # e) <=> (\A b \in Clips : clip[b].file # e)
        BY <1>3, <1>4, <1>5, <3>1, <3>3
      <4> QED
        BY <1>1, <4>1 DEF Fresh
    <3> QED
      BY <3>2, <3>3
  <2> QED
    BY <2>1 DEF Fresh
<1> QED
  BY <1>6, <1>8, <1>9, <1>10 DEF PapersRight, Numbered
-----------------------------------------------------------------------------
LEMMA DecisionStep ==
  ASSUME PapersRight, NEW d \in Papers, ApprovePaper(d) \/ RejectPaper(d)
  PROVE  PapersRight'
<1>1. d \in Rows /\ paper[d] \in PaperRows /\ extended' = extended /\ form' = form
  BY DEF ApprovePaper, RejectPaper, PapersRight, PaperRowsTyped
<1>2. extended' \in BOOLEAN /\ form' \in PaperTerms \cup {0}
  BY <1>1 DEF PapersRight, PaperRowsTyped
<1>3. CASE ApprovePaper(d)
  <2> DEFINE p == BecomesActive(paper[d])
  <2>1. p \in PaperRows /\ p.status = "ACTIVE" /\ p.replaces = paper[d].replaces
    BY <1>1, ActiveRow
  <2>2. paper' = [paper EXCEPT ![d] = p]
    BY <1>3 DEF ApprovePaper
  <2> HIDE DEF p
  <2> QED
    BY <1>1, <1>2, <1>3, <2>1, <2>2, RowChanges DEF ApprovePaper
<1>4. CASE RejectPaper(d)
  <2> DEFINE p == [paper[d] EXCEPT !.status = "REJECTED", !.replaces = 0]
  <2>1. "REJECTED" \in PaperStatus /\ 0 \in 0..LastPaper
    BY PapersAssumption DEF PaperStatus
  <2>2. p \in PaperRows /\ p.status = "REJECTED" /\ p.replaces = 0
    BY <1>1, <2>1 DEF PaperRows
  <2>3. paper' = [paper EXCEPT ![d] = p]
    BY <1>1, <1>4 DEF RejectPaper, PapersRight, PaperRowsTyped
  <2> HIDE DEF p
  <2> QED
    BY <1>1, <1>2, <1>4, <2>2, <2>3, RowChanges DEF RejectPaper
<1> QED
  BY <1>3, <1>4

LEMMA TermSet ==
  ASSUME PapersRight, NEW t \in PaperTerms \cup {0}, Contract # 0,
         paper' = [paper EXCEPT ![Contract].term = t],
         UNCHANGED <<stands, sealed, clip, store>>, extended' \in BOOLEAN,
         form' \in PaperTerms \cup {0}
  PROVE  PapersRight'
<1> DEFINE d == Contract
           p == [paper[d] EXCEPT !.term = t]
<1>1. d \in Rows /\ paper[d] \in PaperRows
  BY TermsTyped DEF PapersRight, PaperRowsTyped
<1>2. paper' = [paper EXCEPT ![d] = p]
  BY <1>1 DEF PapersRight, PaperRowsTyped
<1> HIDE DEF d
<1>3. /\ p \in PaperRows /\ p.status = paper[d].status /\ p.replaces = paper[d].replaces
      /\ p.status \notin {"none", "deleted"}
  BY <1>1 DEF PaperRows, Rows
<1> HIDE DEF p
<1> QED
  BY <1>1, <1>2, <1>3, RowChanges

LEMMA TermStep ==
  ASSUME PapersRight,
         \/ \E term \in PaperTerms :
              \/ \E who \in {"manager", "superviser"} : SetTerm(who, term)
              \/ ExtendContract(term)
         \/ ApproveTerm \/ RejectTerm
  PROVE  PapersRight'
<1>1. stands \in PaperSteps /\ sealed \in BOOLEAN /\ extended \in BOOLEAN
      /\ form \in PaperTerms \cup {0}
  BY DEF PapersRight, PaperRowsTyped
<1>2. ASSUME NEW term \in PaperTerms, NEW who \in {"manager", "superviser"}, SetTerm(who, term)
      PROVE  PapersRight'
  <2>1. CASE Waits(who, 1)
    BY <1>1, <1>2, <2>1, RowsRest DEF SetTerm
  <2>2. CASE ~Waits(who, 1)
    BY <1>1, <1>2, <2>2, TermSet DEF SetTerm
  <2> QED
    BY <2>1, <2>2
<1>3. ASSUME NEW term \in PaperTerms, ExtendContract(term)
      PROVE  PapersRight'
  <2>1. Contract # 0
    BY <1>3 DEF ExtendContract, ContractTerm
  <2> QED
    BY <1>1, <1>3, <2>1, TermSet DEF ExtendContract
<1>4. CASE ApproveTerm
  BY <1>1, <1>4, TermSet DEF ApproveTerm
<1>5. CASE RejectTerm
  BY <1>1, <1>5, RowsRest DEF RejectTerm
<1> QED
  BY <1>2, <1>3, <1>4, <1>5

LEMMA PapersRightStep ==
  ASSUME PapersRight, [PapersNext]_paperVars
  PROVE  PapersRight'
<1>1. stands \in PaperSteps /\ sealed \in BOOLEAN /\ extended \in BOOLEAN
      /\ form \in PaperTerms \cup {0}
  BY DEF PapersRight, PaperRowsTyped
<1>2. CASE UNCHANGED paperVars
  BY <1>1, <1>2, RowsRest DEF paperVars
<1>3. CASE \E step \in PaperSteps : GoTo(step)
  BY <1>1, <1>3, RowsRest DEF GoTo
<1>4. CASE StartBranches
  BY <1>1, <1>4, RowsRest DEF StartBranches
<1> QED
  BY <1>2, <1>3, <1>4, StoreStep, AttachStep, UploadLost, DeleteStep, TakeAwayStep,
     DecisionStep, TermStep DEF PapersNext
-----------------------------------------------------------------------------
(* The invariant holds of every behaviour of the documents.                *)
THEOREM PapersStayRight == PapersSpec => []PapersRight
<1>1. PapersInit => PapersRight
  BY PapersRightInit
<1>2. PapersRight /\ [PapersNext]_paperVars => PapersRight'
  BY PapersRightStep
<1> QED
  BY <1>1, <1>2, PTL DEF PapersSpec

(* Every document's file is in the storage, whatever fails in an upload or *)
(* a deletion, and however many are under way (document_service.py,        *)
(* upload and delete_document).                                            *)
THEOREM NoFileIsMissing == PapersSpec => []NoRowWithoutFile
<1>1. ASSUME PapersRight PROVE NoRowWithoutFile
  <2>1. \A d \in Papers :
          /\ paper[d].status \in PaperStatus /\ paper[d].step \in PaperSteps
          /\ paper[d].term \in PaperTerms \cup {0}
          /\ paper[d].replaces \in 0..LastPaper /\ paper[d].replaces < d
    BY <1>1 DEF PapersRight, PaperRowsTyped, InLine, PaperRows
  <2>2. \A d \in Papers : paper[d].replaces \in 0..(d - 1)
    BY <2>1, PapersAssumption DEF Papers
  <2>3. \A c \in Clips : clip[c].at \in {"free", "stored", "unfiled"}
    BY <1>1 DEF PapersRight, PaperRowsTyped
  <2> QED
    BY <1>1, <2>1, <2>2, <2>3
    DEF NoRowWithoutFile, PapersTyped, PapersRight, PaperRowsTyped, PaperStatus
<1> QED
  BY <1>1, PapersStayRight, PTL
-----------------------------------------------------------------------------
LEMMA TermIsNumber ==
  \A p \in PaperRows : p.term \in Nat
<1>1. \A t \in PaperTerms \cup {0} : t \in Nat
  BY PapersAssumption
<1> QED
  BY <1>1 DEF PaperRows

(* The contract's term in a step: a version stays or comes that is no      *)
(* older, and those that are no older have no shorter term.                *)
LEMMA TermHolds ==
  ASSUME PapersRight, PapersRight',
         Contract # 0 =>
           /\ \E e \in CurrentContracts' : e >= Contract
           /\ \A e \in CurrentContracts' :
                e >= Contract => paper'[e].term >= paper[Contract].term
  PROVE  ContractTerm' >= ContractTerm
<1> DEFINE CC == CurrentContracts'
<1>1. CC \subseteq Papers /\ Papers \subseteq Nat
  BY PapersAssumption DEF CurrentContracts, Rows, Papers
<1>2. Contract' = IF CC = {} THEN 0 ELSE Max(CC)
  BY DEF Contract
<1>3. CC # {} => Max(CC) \in CC /\ \A e \in CC : e <= Max(CC)
  BY <1>1, LatestOf
<1>4. CASE Contract = 0
  <2>1. ContractTerm = 0
    BY <1>4 DEF ContractTerm
  <2>2. ContractTerm' \in Nat
    <3>1. Contract' # 0 => paper'[Contract'] \in PaperRows
      BY <1>1, <1>2, <1>3 DEF PapersRight, PaperRowsTyped
    <3> QED
      BY <3>1, TermIsNumber DEF ContractTerm
  <2> QED
    BY <2>1, <2>2
<1>5. CASE Contract # 0
  <2>1. PICK e \in CC : e >= Contract
    BY <1>5
  <2>2. Contract \in Nat
    BY <1>1, <1>5, TermsTyped, PapersAssumption DEF Papers
  <2>3. Contract' \in CC /\ Contract' >= Contract
    BY <1>1, <1>2, <1>3, <2>1, <2>2
  <2>4. paper'[Contract'].term >= paper[Contract].term
    BY <1>5, <2>3
  <2>5. Contract' # 0
    BY <2>3, PapersAssumption DEF CurrentContracts, Rows, Papers
  <2> QED
    BY <1>5, <2>4, <2>5 DEF ContractTerm
<1> QED
  BY <1>4, <1>5

(* As long as no other paper stands in its place, the contract is the      *)
(* newest active one.                                                      *)
LEMMA NewestIsCurrent ==
  ASSUME PapersRight, ~Misplaced, NEW d \in Rows,
         paper[d].kind = "CONTRACT", paper[d].status = "ACTIVE"
  PROVE  Contract \in CurrentContracts /\ d <= Contract
<1> DEFINE A == {e \in Rows : paper[e].kind = "CONTRACT" /\ paper[e].status = "ACTIVE"}
           m == Max(A)
<1>1. A \subseteq Papers /\ A # {} /\ d \in A
  BY DEF Rows
<1>2. m \in A /\ m \in Papers /\ \A e \in A : e <= m
  BY <1>1, LatestOf
<1> HIDE DEF m
<1>3. ~Replaced(m)
  <2> SUFFICES ASSUME NEW e \in Successors(m), paper[e].status = "ACTIVE"
               PROVE  FALSE
    BY DEF Replaced
  <2>1. e \in Rows /\ e \in Papers /\ paper[e].replaces = m /\ m < e
    BY DEF Successors, Rows, PapersRight, InLine
  <2>2. paper[e].kind = "CONTRACT"
    BY <1>2, <2>1 DEF Misplaced
  <2>3. e <= m
    BY <1>2, <2>1, <2>2
  <2> QED
    BY <1>2, <2>1, <2>3, PapersAssumption DEF Papers
<1>4. m \in CurrentContracts
  BY <1>2, <1>3 DEF CurrentContracts
<1>5. Contract \in CurrentContracts /\ m <= Contract
  BY <1>4, ContractIsCurrent
<1>6. d <= m
  BY <1>1, <1>2
<1> QED
  BY <1>2, <1>5, <1>6, PapersAssumption DEF CurrentContracts, Rows, Papers

(* A change that leaves who is current as it was.                          *)
LEMMA TermUnmoved ==
  ASSUME PapersRight, PapersRight',
         CurrentContracts' = CurrentContracts,
         \A e \in CurrentContracts : paper'[e].term = paper[e].term \/
           (e = Contract /\ paper'[e].term >= paper[e].term)
  PROVE  ContractTerm' >= ContractTerm
<1>1. Contract # 0 => Contract \in CurrentContracts /\ Contract \in Papers
                      /\ \A e \in CurrentContracts : e <= Contract
  BY ContractIsCurrent
<1>2. CurrentContracts \subseteq Papers /\ Papers \subseteq Nat
  BY PapersAssumption DEF CurrentContracts, Rows, Papers
<1>3. ASSUME Contract # 0, NEW e \in CurrentContracts, e >= Contract
      PROVE  e = Contract
  <2>1. e \in Nat /\ Contract \in Nat
    BY <1>1, <1>2, <1>3
  <2>2. e <= Contract
    BY <1>1, <1>3
  <2> QED
    BY <1>3, <2>1, <2>2
<1>4. Contract # 0 => paper[Contract].term \in Nat
  <2>1. Contract # 0 => paper[Contract] \in PaperRows
    BY <1>1 DEF PapersRight, PaperRowsTyped
  <2> QED
    BY <2>1, TermIsNumber
<1>5. Contract # 0 => paper'[Contract].term >= paper[Contract].term
  BY <1>1, <1>4
<1>6. Contract # 0 => \E e \in CurrentContracts' : e >= Contract
  BY <1>1, <1>2
<1> QED
  BY <1>3, <1>5, <1>6, TermHolds

(* A paper of another kind without details never stands for a term.        *)
LEMMA KeptTerm ==
  ASSUME PapersRight, extended, NEW p \in PaperRows, p.kind = "CONTRACT"
  PROVE  BecomesActive(p).term >= ContractTerm
<1>1. ContractTerm \in Nat /\ Details(p) \in Nat
  <2>1. ContractTerm \in PaperTerms \cup {0} /\ Details(p) \in PaperTerms \cup {0}
    BY TermsTyped, ActiveRow
  <2>2. \A t \in PaperTerms \cup {0} : t \in Nat
    BY PapersAssumption
  <2> QED
    BY <2>1, <2>2
<1>2. KeepTerm(Details(p)) >= ContractTerm
  BY <1>1 DEF KeepTerm
<1> QED
  BY <1>2, ActiveRow

LEMMA AttachKeepsTerm ==
  ASSUME PapersRight, PapersRight', NEW c \in Clips, AttachFile(c), extended, ~Misplaced
  PROVE  ContractTerm' >= ContractTerm
<1>0. PICK f, p, doc : f = clip[c].file /\ p = Attached(clip[c]) /\ doc = clip[c].doc
  OBVIOUS
<1>1. /\ f \in Papers /\ paper[f].status = "none" /\ doc \in PaperRows /\ doc.replaces < f
  BY <1>0 DEF AttachFile, PapersRight, PaperRowsTyped, Clipped
<1>2. /\ p \in PaperRows /\ p.status \in {"PENDING", "ACTIVE"}
      /\ p.replaces = doc.replaces /\ p.kind = doc.kind
      /\ p.status = "ACTIVE" => p = BecomesActive(doc)
  BY <1>0, AttachedRow
<1>3. paper' = [paper EXCEPT ![f] = p] /\ Attachable(doc)
  BY <1>0 DEF AttachFile
<1>4. paper'[f] = p /\ \A e \in Papers \ {f} : paper'[e] = paper[e]
  BY <1>1, <1>3 DEF PapersRight, PaperRowsTyped
<1>5. Rows' = Rows \cup {f} /\ f \notin Rows /\ Rows \subseteq Papers
  BY <1>1, <1>2, <1>4 DEF Rows
<1>6. \A e \in Rows : paper[e].replaces # f
  <2>1. f # 0
    BY <1>1, PapersAssumption DEF Papers
  <2> QED
    BY <1>5, <2>1 DEF PapersRight, InLine
<1>7. \A e \in Rows : Replaced(e)' <=> Replaced(e) \/ (p.status = "ACTIVE" /\ p.replaces = e)
  <2> SUFFICES ASSUME NEW e \in Rows
               PROVE  Replaced(e)' <=> Replaced(e) \/ (p.status = "ACTIVE" /\ p.replaces = e)
    OBVIOUS
  <2>1. Successors(e)' = Successors(e) \cup (IF p.replaces = e THEN {f} ELSE {})
    BY <1>4, <1>5 DEF Successors
  <2>2. \A d \in Successors(e) : paper'[d] = paper[d]
    BY <1>4, <1>5 DEF Successors
  <2>3. f \notin Successors(e)
    BY <1>5 DEF Successors
  <2> QED
    BY <1>4, <2>1, <2>2, <2>3 DEF Replaced
<1>8. ~Replaced(f)'
  <2>1. \A d \in Rows' : paper'[d].replaces # f
    <3>1. p.replaces # f
      BY <1>1, <1>2, PapersAssumption DEF Papers
    <3> QED
      BY <1>4, <1>5, <1>6, <3>1
  <2> QED
    BY <2>1 DEF Replaced, Successors
<1>9. \A e \in Papers :
        e \in CurrentContracts' <=>
          \/ e \in CurrentContracts /\ ~(p.status = "ACTIVE" /\ p.replaces = e)
          \/ e = f /\ p.kind = "CONTRACT" /\ p.status = "ACTIVE"
  <2> SUFFICES ASSUME NEW e \in Papers
               PROVE  e \in CurrentContracts' <=>
                        \/ e \in CurrentContracts /\ ~(p.status = "ACTIVE" /\ p.replaces = e)
                        \/ e = f /\ p.kind = "CONTRACT" /\ p.status = "ACTIVE"
    OBVIOUS
  <2>1. CASE e = f
    BY <1>4, <1>5, <1>8, <2>1 DEF CurrentContracts
  <2>2. CASE e # f
    BY <1>4, <1>5, <1>7, <2>2 DEF CurrentContracts
  <2> QED
    BY <2>1, <2>2
<1>10. /\ CurrentContracts \subseteq Rows /\ CurrentContracts' \subseteq Papers
       /\ Papers \subseteq Nat
  BY PapersAssumption DEF CurrentContracts, Rows, Papers
<1>11. Contract # 0 =>
         /\ Contract \in CurrentContracts /\ Contract \in Papers
         /\ Contract # f /\ paper[Contract] \in PaperRows
         /\ \A e \in CurrentContracts : e <= Contract
  BY <1>5, <1>10, ContractIsCurrent DEF PapersRight, PaperRowsTyped
<1>12. ASSUME Contract # 0, NEW e \in CurrentContracts', e >= Contract
       PROVE  paper'[e].term >= paper[Contract].term
  <2>1. paper[Contract].term \in Nat /\ ContractTerm = paper[Contract].term
    BY <1>11, <1>12, TermIsNumber DEF ContractTerm
  <2>2. CASE e = f
    <3>1. doc.kind = "CONTRACT" /\ p = BecomesActive(doc)
      BY <1>2, <1>5, <1>9, <1>10, <1>12, <2>2
    <3>2. p.term >= ContractTerm
      BY <1>1, <3>1, KeptTerm
    <3> QED
      BY <1>4, <2>1, <2>2, <3>2
  <2>3. CASE e # f
    <3>1. e \in CurrentContracts /\ e \in Nat /\ Contract \in Nat
      BY <1>9, <1>10, <1>11, <1>12, <2>3
    <3>2. e = Contract
      <4>1. e <= Contract
        BY <1>11, <1>12, <3>1
      <4> QED
        BY <1>12, <3>1, <4>1
    <3> QED
      BY <1>4, <1>11, <1>12, <2>1, <3>2
  <2> QED
    BY <2>2, <2>3
<1>13. CASE Contract # 0 /\ ~(p.status = "ACTIVE" /\ p.replaces = Contract)
  <2>1. Contract \in CurrentContracts'
    BY <1>9, <1>11, <1>13
  <2>2. Contract >= Contract
    BY <1>10, <1>11, <1>13
  <2> QED
    BY <1>12, <2>1, <2>2, TermHolds
<1>14. CASE p.status = "ACTIVE" /\ p.replaces = Contract /\ Contract # 0 /\ p.kind = "CONTRACT"
  <2>1. f \in CurrentContracts'
    BY <1>1, <1>9, <1>14
  <2>2. f >= Contract
    BY <1>1, <1>2, <1>10, <1>11, <1>14
  <2> QED
    BY <1>12, <2>1, <2>2, TermHolds
<1>15. CASE p.status = "ACTIVE" /\ p.replaces = Contract /\ Contract # 0 /\ p.kind # "CONTRACT"
  <2>1. Contract \in Rows
    BY <1>10, <1>11, <1>15
  <2>2. Details(doc) = 0
    BY <1>2, <1>3, <1>15 DEF Attachable
  <2>3. paper[Contract].term = 0
    BY <1>2, <1>15, <2>1, <2>2 DEF Details
  <2>4. ContractTerm = 0
    BY <1>15, <2>3 DEF ContractTerm
  <2>5. \A e \in CurrentContracts' : paper'[e].term \in Nat
    BY <1>10, TermIsNumber DEF PapersRight, PaperRowsTyped
  <2>6. ContractTerm' \in Nat
    <3>1. ContractTerm' \in PaperTerms \cup {0}
      <4>1. CurrentContracts' # {} => Max(CurrentContracts') \in CurrentContracts'
        BY <1>10, LatestOf
      <4>2. Contract' # 0 => Contract' \in Papers
        BY <1>10, <4>1 DEF Contract
      <4>3. \A e \in Papers : paper'[e].term \in PaperTerms \cup {0}
        BY DEF PapersRight, PaperRowsTyped, PaperRows
      <4> QED
        BY <4>2, <4>3 DEF ContractTerm
    <3> QED
      BY <3>1, PapersAssumption
  <2> QED
    BY <2>4, <2>6
<1>16. CASE Contract = 0
  BY <1>16, TermHolds
<1> QED
  BY <1>13, <1>14, <1>15, <1>16

LEMMA ApproveKeepsTerm ==
  ASSUME PapersRight, PapersRight', NEW f \in Papers, ApprovePaper(f), extended, ~Misplaced
  PROVE  ContractTerm' >= ContractTerm
<1>1. PICK p : p = BecomesActive(paper[f])
  OBVIOUS
<1>2. f \in Rows /\ paper[f] \in PaperRows /\ paper[f].status = "PENDING"
  BY DEF ApprovePaper, PapersRight, PaperRowsTyped
<1>3. /\ p \in PaperRows /\ p.status = "ACTIVE" /\ p.kind = paper[f].kind
      /\ p.replaces = paper[f].replaces
  BY <1>1, <1>2, ActiveRow
<1>4. paper'[f] = p /\ \A e \in Papers \ {f} : paper'[e] = paper[e]
  BY <1>1 DEF ApprovePaper, PapersRight, PaperRowsTyped
<1>5. Rows' = Rows
  BY <1>2, <1>3, <1>4 DEF Rows
<1>6. /\ CurrentContracts \subseteq Rows /\ CurrentContracts' \subseteq Papers
      /\ Papers \subseteq Nat /\ Rows \subseteq Papers
  BY PapersAssumption DEF CurrentContracts, Rows, Papers
<1>7. \A e \in Rows : Successors(e)' = Successors(e)
  <2> SUFFICES ASSUME NEW e \in Rows PROVE Successors(e)' = Successors(e)
    OBVIOUS
  <2>1. \A d \in Rows : paper'[d].replaces = paper[d].replaces
    BY <1>3, <1>4, <1>6
  <2> QED
    BY <1>5, <2>1 DEF Successors
<1>8. \A e \in Rows : Replaced(e)' <=> Replaced(e) \/ p.replaces = e
  <2> SUFFICES ASSUME NEW e \in Rows
               PROVE  Replaced(e)' <=> Replaced(e) \/ p.replaces = e
    OBVIOUS
  <2>1. \A d \in Successors(e) : d \in Papers
    BY <1>6 DEF Successors
  <2>2. f \in Successors(e) <=> p.replaces = e
    BY <1>2, <1>3 DEF Successors
  <2> QED
    BY <1>2, <1>3, <1>4, <1>7, <2>1, <2>2 DEF Replaced
<1>9. \A e \in Rows \ {f} :
        e \in CurrentContracts' <=> e \in CurrentContracts /\ p.replaces # e
  BY <1>4, <1>5, <1>6, <1>8 DEF CurrentContracts
<1>10. f \in CurrentContracts' <=> p.kind = "CONTRACT" /\ ~Replaced(f)
  <2>1. p.replaces # f
    BY <1>2, <1>3, PapersAssumption DEF PapersRight, InLine, Papers
  <2> QED
    BY <1>2, <1>3, <1>4, <1>5, <1>8, <2>1 DEF CurrentContracts
<1>11. Contract # 0 =>
         /\ Contract \in CurrentContracts /\ Contract \in Papers
         /\ Contract # f /\ paper[Contract] \in PaperRows
         /\ paper[Contract].kind = "CONTRACT" /\ paper[Contract].status = "ACTIVE"
         /\ \A e \in CurrentContracts : e <= Contract
  BY <1>2, ContractIsCurrent DEF PapersRight, PaperRowsTyped, CurrentContracts
<1>12. ASSUME Contract # 0, NEW e \in CurrentContracts', e >= Contract
       PROVE  paper'[e].term >= paper[Contract].term
  <2>1. paper[Contract].term \in Nat /\ ContractTerm = paper[Contract].term
    BY <1>11, <1>12, TermIsNumber DEF ContractTerm
  <2>2. CASE e = f
    <3>1. paper[f].kind = "CONTRACT"
      BY <1>3, <1>10, <1>12, <2>2
    <3>2. p.term >= ContractTerm
      BY <1>1, <1>2, <3>1, KeptTerm
    <3> QED
      BY <1>4, <2>1, <2>2, <3>2
  <2>3. CASE e # f
    <3>0. e \in Rows
      BY <1>5, <1>12 DEF CurrentContracts
    <3>1. e \in CurrentContracts /\ e \in Nat /\ Contract \in Nat
      BY <1>6, <1>9, <1>11, <1>12, <2>3, <3>0
    <3>2. e = Contract
      <4>1. e <= Contract
        BY <1>11, <1>12, <3>1
      <4> QED
        BY <1>12, <3>1, <4>1
    <3> QED
      BY <1>4, <1>11, <1>12, <2>1, <2>3, <3>2
  <2> QED
    BY <2>2, <2>3
<1>13. CASE Contract # 0 /\ p.replaces # Contract
  <2>1. Contract \in CurrentContracts'
    BY <1>6, <1>9, <1>11, <1>13
  <2>2. Contract >= Contract
    BY <1>6, <1>11, <1>13
  <2> QED
    BY <1>12, <2>1, <2>2, TermHolds
<1>14. CASE Contract # 0 /\ p.replaces = Contract
  <2>1. p.kind = "CONTRACT"
    BY <1>2, <1>3, <1>6, <1>11, <1>14 DEF Misplaced
  <2>2. Contract < f
    BY <1>2, <1>3, <1>14 DEF PapersRight, InLine
  <2>3. ~Replaced(f)
    <3> SUFFICES ASSUME NEW d \in Successors(f), paper[d].status = "ACTIVE"
                 PROVE  FALSE
      BY DEF Replaced
    <3>1. d \in Rows /\ d \in Papers /\ paper[d].replaces = f /\ f < d
      BY DEF Successors, Rows, PapersRight, InLine
    <3>2. paper[d].kind = "CONTRACT"
      BY <1>2, <1>3, <2>1, <3>1 DEF Misplaced
    <3>3. d <= Contract
      BY <3>1, <3>2, NewestIsCurrent
    <3> QED
      BY <1>6, <1>11, <1>14, <2>2, <3>1, <3>3
  <2>4. f \in CurrentContracts'
    BY <1>10, <2>1, <2>3
  <2>5. f >= Contract
    <3>1. f \in Nat /\ Contract \in Nat
      BY <1>6, <1>11, <1>14
    <3> QED
      BY <2>2, <3>1
  <2> QED
    BY <1>12, <2>4, <2>5, TermHolds
<1>15. CASE Contract = 0
  BY <1>15, TermHolds
<1> QED
  BY <1>13, <1>14, <1>15

(* A decision against a version leaves the current ones as they are: it    *)
(* was not one of them, and had not replaced one.                          *)
LEMMA RejectKeepsTerm ==
  ASSUME PapersRight, PapersRight', NEW f \in Papers, RejectPaper(f)
  PROVE  ContractTerm' >= ContractTerm
<1>1. f \in Rows /\ paper[f].status = "PENDING" /\ f # 0
  BY PapersAssumption DEF RejectPaper, Papers
<1>2. /\ paper'[f].status = "REJECTED" /\ paper'[f].replaces = 0
      /\ \A e \in Papers \ {f} : paper'[e] = paper[e]
  <2>1. paper[f] \in PaperRows
    BY DEF PapersRight, PaperRowsTyped
  <2> QED
    BY <2>1 DEF RejectPaper, PapersRight, PaperRowsTyped, PaperRows
<1>3. Rows' = Rows /\ Rows \subseteq Papers
  BY <1>1, <1>2 DEF Rows
<1>4. \A e \in Rows : Replaced(e)' <=> Replaced(e)
  <2> SUFFICES ASSUME NEW e \in Rows PROVE Replaced(e)' <=> Replaced(e)
    OBVIOUS
  <2>1. e # 0
    BY PapersAssumption DEF Rows, Papers
  <2>2. Successors(e)' = Successors(e) \ {f}
    BY <1>2, <1>3, <2>1 DEF Successors
  <2>3. \A d \in Successors(e) : d \in Papers
    BY DEF Successors, Rows
  <2> QED
    BY <1>1, <1>2, <2>2, <2>3 DEF Replaced
<1>5. \A e \in Rows : e \in CurrentContracts' <=> e \in CurrentContracts
  BY <1>1, <1>2, <1>3, <1>4 DEF CurrentContracts
<1>6. CurrentContracts' = CurrentContracts
  BY <1>3, <1>5 DEF CurrentContracts
<1>7. \A e \in CurrentContracts : paper'[e].term = paper[e].term
  BY <1>1, <1>2, <1>3 DEF CurrentContracts
<1> QED
  BY <1>6, <1>7, TermUnmoved

LEMMA SetKeepsTerm ==
  ASSUME PapersRight, PapersRight', Contract # 0, NEW t \in PaperTerms \cup {0},
         t >= ContractTerm, paper' = [paper EXCEPT ![Contract].term = t]
  PROVE  ContractTerm' >= ContractTerm
<1>1. PICK d : d = Contract
  OBVIOUS
<1>2. d \in Rows /\ d \in Papers /\ paper[d] \in PaperRows /\ ContractTerm = paper[d].term
  BY <1>1, TermsTyped DEF PapersRight, PaperRowsTyped, ContractTerm
<1>3. /\ paper'[d] = [paper[d] EXCEPT !.term = t]
      /\ \A e \in Papers \ {d} : paper'[e] = paper[e]
  BY <1>1, <1>2 DEF PapersRight, PaperRowsTyped
<1>4. /\ paper'[d].term = t /\ paper'[d].status = paper[d].status
      /\ paper'[d].kind = paper[d].kind /\ paper'[d].replaces = paper[d].replaces
  BY <1>2, <1>3 DEF PaperRows
<1>5. Rows' = Rows /\ Rows \subseteq Papers
  BY <1>3, <1>4 DEF Rows
<1>6. \A e \in Rows : Replaced(e)' <=> Replaced(e)
  BY <1>3, <1>4, <1>5 DEF Replaced, Successors
<1>7. \A e \in Rows : e \in CurrentContracts' <=> e \in CurrentContracts
  BY <1>3, <1>4, <1>5, <1>6 DEF CurrentContracts
<1>8. CurrentContracts' = CurrentContracts /\ CurrentContracts \subseteq Papers
  BY <1>5, <1>7 DEF CurrentContracts
<1>9. \A e \in CurrentContracts :
        paper'[e].term = paper[e].term \/ (e = Contract /\ paper'[e].term >= paper[e].term)
  BY <1>1, <1>2, <1>3, <1>4, <1>8
<1> QED
  BY <1>8, <1>9, TermUnmoved

LEMMA RowsKeepTerm ==
  ASSUME PapersRight, PapersRight', paper' = paper
  PROVE  ContractTerm' >= ContractTerm
<1>1. CurrentContracts' = CurrentContracts
  BY DEF CurrentContracts, Rows, Replaced, Successors
<1> QED
  BY <1>1, TermUnmoved

(* The number of a row that is spent was no row's.                         *)
LEMMA SpentKeepsTerm ==
  ASSUME PapersRight, PapersRight', NEW c \in Clips, Refuse(c) \/ LoseUpload(c)
  PROVE  ContractTerm' >= ContractTerm
<1>1. PICK f : f = clip[c].file
  OBVIOUS
<1>2. f \in Papers /\ paper[f].status = "none" /\ paper[f] \in PaperRows
  BY <1>1 DEF Refuse, LoseUpload, PapersRight, PaperRowsTyped, Clipped
<1>3. paper'[f].status = "deleted" /\ \A e \in Papers \ {f} : paper'[e] = paper[e]
  BY <1>1, <1>2 DEF Refuse, LoseUpload, PapersRight, PaperRowsTyped, PaperRows
<1>4. Rows' = Rows /\ f \notin Rows /\ Rows \subseteq Papers
  BY <1>2, <1>3 DEF Rows
<1>5. \A e \in Rows : paper'[e] = paper[e]
  BY <1>3, <1>4
<1>6. CurrentContracts' = CurrentContracts
  <2>1. \A e \in Rows : Replaced(e)' <=> Replaced(e)
    BY <1>4, <1>5 DEF Replaced, Successors
  <2> QED
    BY <1>4, <1>5, <2>1 DEF CurrentContracts
<1> QED
  BY <1>5, <1>6, TermUnmoved DEF CurrentContracts

LEMMA TermKept ==
  ASSUME PapersRight, PapersRight', [PapersNext]_paperVars,
         extended, Rows \subseteq Rows', ~Misplaced
  PROVE  ContractTerm' >= ContractTerm
<1>1. ContractTerm \in PaperTerms \cup {0} /\ ContractTerm >= ContractTerm
  <2>1. \A t \in PaperTerms \cup {0} : t >= t
    BY PapersAssumption
  <2> QED
    BY <2>1, TermsTyped
<1>2. ASSUME NEW c \in Clips, NEW d \in Papers, DeletePaper(c, d)
      PROVE  FALSE
  <2>1. d \in Rows /\ paper'[d] = Unlinked(d)[d]
    BY <1>2 DEF DeletePaper
  <2>2. d \notin Successors(d)
    BY PapersAssumption DEF Successors, PapersRight, InLine, Papers
  <2>3. paper'[d] = [paper[d] EXCEPT !.status = "deleted"]
    BY <2>1, <2>2 DEF Unlinked
  <2>4. paper'[d].status = "deleted"
    BY <2>3 DEF PapersRight, PaperRowsTyped, PaperRows
  <2> QED
    BY <2>1, <2>4 DEF Rows
<1>3. ASSUME NEW term \in PaperTerms, NEW who \in {"manager", "superviser"}, SetTerm(who, term)
      PROVE  ContractTerm' >= ContractTerm
  <2>1. CASE Waits(who, 1)
    BY <1>3, <2>1, RowsKeepTerm DEF SetTerm
  <2>2. CASE ~Waits(who, 1)
    BY <1>3, <2>2 DEF SetTerm, TermFree
  <2> QED
    BY <2>1, <2>2
<1>4. ASSUME NEW term \in PaperTerms, ExtendContract(term)
      PROVE  ContractTerm' >= ContractTerm
  <2>1. Contract # 0 /\ term >= ContractTerm
    <3>1. \A t, u \in PaperTerms \cup {0} : t > u => t >= u
      BY PapersAssumption
    <3> QED
      BY <1>1, <1>4, <3>1 DEF ExtendContract, ContractTerm
  <2> QED
    BY <1>4, <2>1, SetKeepsTerm DEF ExtendContract
<1>5. CASE ApproveTerm
  <2>1. Contract # 0 /\ form = ContractTerm /\ paper' = [paper EXCEPT ![Contract].term = form]
    BY <1>5 DEF ApproveTerm, TermFree
  <2> QED
    BY <1>1, <2>1, SetKeepsTerm
<1>6. ASSUME NEW c \in Clips, NEW who \in {"manager", "superviser"}, NEW doc \in Offered,
             StoreFile(c, who, doc)
      PROVE  ContractTerm' >= ContractTerm
  BY <1>6, RowsKeepTerm DEF StoreFile
<1>7. ASSUME NEW c \in Clips, TakeAway(c)
      PROVE  ContractTerm' >= ContractTerm
  BY <1>7, RowsKeepTerm DEF TakeAway
<1>8. CASE UNCHANGED paperVars \/ RejectTerm \/ StartBranches
             \/ \E step \in PaperSteps : GoTo(step)
  BY <1>8, RowsKeepTerm DEF paperVars, RejectTerm, StartBranches, GoTo
<1> QED
  BY <1>2, <1>3, <1>4, <1>5, <1>6, <1>7, <1>8, AttachKeepsTerm, SpentKeepsTerm,
     ApproveKeepsTerm, RejectKeepsTerm DEF PapersNext

(* What an agreement extended is not cut back by versions, edits and       *)
(* approvals (document_service.py, _keep_extended_term, and bindings.py,   *)
(* extension_locks), but where a paper of another kind has got into the    *)
(* contract's line.                                                        *)
THEOREM ExtendedTermsStay == PapersSpec => TermStays
<1>1. PapersRight /\ PapersRight' /\ [PapersNext]_paperVars =>
        [extended /\ Rows \subseteq Rows' /\ ~Misplaced => ContractTerm' >= ContractTerm]_paperVars
  BY TermKept
<1> QED
  BY <1>1, PapersStayRight, PTL DEF PapersSpec, TermStays
=============================================================================
