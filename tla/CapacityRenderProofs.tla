-------------------------- MODULE CapacityRenderProofs --------------------------
(***************************************************************************)
(* Theorems about CapacityRender, for every set of components and files,   *)
(* both orders of the components and any number of edits: an admission     *)
(* uses renders of the sources it compared, --verify-contract finds what a *)
(* report got wrong, and evidence has the figures the contract states.     *)
(***************************************************************************)
EXTENDS CapacityRender, TLAPS

(***************************************************************************)
(* What a run holds besides the types of its variables: a render run the   *)
(* lock it read (load_one in render_all) and, between render and entry,    *)
(* the render at hand; an admission the contract it read (main).           *)
(***************************************************************************)
Writing == {"write", "writing", "hash"}

RendererInv ==
  /\ RendererOK
  /\ rpc # "idle" => pins \in Versions
  /\ rpc \in Writing => rnext \in 1..Count /\ content \in Contents

AdmissionInv ==
  /\ AdmissionOK
  /\ apc # "idle" => held \in Contract
  /\ apc \in {"evidence", "load"} => anext \in 1..2
  /\ apc = "lock" => anext = 1
  /\ apc \in {"sources", "render"} => anext \in 1..Count

TypeInv ==
  FilesOK /\ RendererInv /\ AdmissionInv /\ HistoryOK /\ edits \in 0..MaxEdits

(***************************************************************************)
(* REQUIRED_COMPONENTS, as render_all and as evaluate take them: none is left *)
(* out by either.                                                          *)
(***************************************************************************)
LEMMA Orders ==
  /\ Count \in Nat \ {0}
  /\ \A i \in 1..Count : RenderOrder[i] \in Components /\ AdmitOrder[i] \in Components
  /\ \A c \in Components : \E i \in 1..Count : RenderOrder[i] = c
  /\ \A c \in Components : \E i \in 1..Count : AdmitOrder[i] = c
  /\ EvidenceOrder[1] = Baseline /\ EvidenceOrder[2] = Candidate /\ Len(EvidenceOrder) = 2
<1>1. Count \in Nat
  BY RenderAssumption DEF RenderAssumption, Count
<1>2. \A i \in 1..Count : RenderOrder[i] \in Components /\ AdmitOrder[i] \in Components
  BY <1>1, RenderAssumption DEF RenderAssumption, Count
<1>3. /\ \A c \in Components : \E i \in 1..Count : RenderOrder[i] = c
      /\ \A c \in Components : \E i \in 1..Count : AdmitOrder[i] = c
  BY RenderAssumption, Zenon DEF RenderAssumption
<1>4. Count # 0
  BY <1>1, <1>3, RenderAssumption DEF RenderAssumption
<1>5. EvidenceOrder[1] = Baseline /\ EvidenceOrder[2] = Candidate /\ Len(EvidenceOrder) = 2
  BY DEF EvidenceOrder
<1> QED
  BY <1>1, <1>2, <1>3, <1>4, <1>5

(***************************************************************************)
(* The sources of a component, and what a run that read the lock renders   *)
(* for it, are contents of that component.                                 *)
(***************************************************************************)
LEMMA SourcesAreContents ==
  ASSUME FilesOK, NEW c \in Components
  PROVE  /\ Of(Reads[c]) \in Contents
         /\ Of(Reads[c]) # None
         /\ pins \in Versions => Rendered(c) \in Contents
BY RenderAssumption DEF RenderAssumption, FilesOK, Contents, Inputs, Of, Rendered

(***************************************************************************)
(* A group of variables a step leaves alone keeps its type.                *)
(***************************************************************************)
LEMMA Unmoved ==
  ASSUME TypeInv
  PROVE  /\ UNCHANGED files => FilesOK'
         /\ UNCHANGED renderer => RendererInv'
         /\ UNCHANGED admission => AdmissionInv'
         /\ UNCHANGED history => HistoryOK'
         /\ UNCHANGED edits => edits' \in 0..MaxEdits
<1>1. UNCHANGED files => FilesOK'
  BY Zenon DEF TypeInv, FilesOK, files
<1>2. UNCHANGED renderer => RendererInv'
  BY Zenon DEF TypeInv, RendererInv, RendererOK, renderer, Done
<1>3. UNCHANGED admission => AdmissionInv'
  BY Zenon DEF TypeInv, AdmissionInv, AdmissionOK, admission
<1>4. UNCHANGED history => HistoryOK'
  BY Zenon DEF TypeInv, HistoryOK, history
<1> QED
  BY <1>1, <1>2, <1>3, <1>4 DEF TypeInv

(***************************************************************************)
(* _bound_input is only called with the two pieces of evidence.            *)
(***************************************************************************)
LEMMA ItemIsEvidence ==
  ASSUME AdmissionInv, apc \in {"evidence", "load"}
  PROVE  Item \in Evidence /\ (anext = 1 => Item = Baseline) /\ (anext = 2 => Item = Candidate)
<1>1. anext = 1 \/ anext = 2
  BY DEF AdmissionInv
<1> QED
  BY <1>1, Orders, RenderAssumption DEF RenderAssumption, Item, Evidence

(***************************************************************************)
(* An admission that ends, however, leaves nothing behind.                 *)
(***************************************************************************)
LEMMA EndKeeps == AdmissionInv /\ EndAdmission => AdmissionInv'
<1> SUFFICES ASSUME AdmissionInv, EndAdmission PROVE AdmissionInv'
  OBVIOUS
<1>1. anext' \in 1..(Count + 2)
  BY Orders DEF EndAdmission
<1>2. /\ apc' = "idle" /\ held' = None /\ apins' = None
      /\ loaded' \in [Evidence -> Versions \cup {None}]
      /\ seen' \in [Components -> Contents \cup {None}]
      /\ used' \in [Components -> Contents \cup {None}]
  BY DEF EndAdmission
<1> QED
  BY <1>1, <1>2 DEF AdmissionInv, AdmissionOK

(***************************************************************************)
(* Every step keeps the types and what the runs hold.                      *)
(***************************************************************************)
LEMMA TypeStep ==
  ASSUME TypeInv, [Next]_vars
  PROVE  TypeInv'
<1> USE DEF TypeInv
<1>1. CASE \E mode \in {"report", "verify"} : StartRender(mode)
  <2>1. RendererInv'
    BY <1>1, Orders, SourcesAreContents, RenderAssumption DEF StartRender,
       RendererInv, RendererOK, Writing, Entries, Entry, FilesOK, Done
  <2>2. HistoryOK'
    BY <1>1, Zenon DEF StartRender, HistoryOK, Mark, Evidence
  <2>3. UNCHANGED <<files, admission, edits>>
    BY <1>1, Zenon DEF StartRender
  <2> QED
    BY <2>1, <2>2, <2>3, Unmoved
<1>2. CASE RenderComponent
  <2>1. RendererInv'
    <3>1. rnext \in 1..Count /\ pins \in Versions
      BY <1>2, Orders DEF RenderComponent, RendererInv, RendererOK
    <3>2. content' \in Contents
      BY <1>2, <3>1, Orders, SourcesAreContents DEF RenderComponent, At
    <3>3. Done' = Done
      BY <1>2 DEF RenderComponent, Done
    <3> QED
      BY <1>2, <3>1, <3>2, <3>3 DEF RenderComponent, RendererInv, RendererOK, Writing
  <2>2. UNCHANGED <<files, admission, history, edits>>
    BY <1>2, Zenon DEF RenderComponent
  <2> QED
    BY <2>1, <2>2, Unmoved
<1>3. CASE RenderError
  <2>1. RendererInv'
    BY <1>3, Orders, SourcesAreContents, RenderAssumption DEF RenderError,
       EndRender, RendererInv, RendererOK, Writing, Entries, Entry, Done
  <2>2. HistoryOK'
    BY <1>3, Zenon DEF RenderError, EndRender, HistoryOK, Mark, Evidence
  <2>3. UNCHANGED <<files, admission, edits>>
    BY <1>3, Zenon DEF RenderError, EndRender
  <2> QED
    BY <2>1, <2>2, <2>3, Unmoved
<1>4. CASE Truncate
  <2>1. FilesOK'
    BY <1>4, Orders, SourcesAreContents DEF Truncate, FilesOK, Entries, Entry,
       Contract
  <2>2. RendererInv'
    BY <1>4, Orders, SourcesAreContents, RenderAssumption DEF Truncate,
       RendererInv, RendererOK, Writing, Entries, Entry, Done
  <2>3. UNCHANGED <<admission, history, edits>>
    BY <1>4, Zenon DEF Truncate
  <2> QED
    BY <2>1, <2>2, <2>3, Unmoved
<1>5. CASE CanonicalWrite
  <2>1. FilesOK'
    BY <1>5, Orders, SourcesAreContents DEF CanonicalWrite, FilesOK, Entries,
       Entry, Contract, RendererInv, Writing
  <2>2. RendererInv'
    BY <1>5, Orders, SourcesAreContents, RenderAssumption DEF CanonicalWrite,
       RendererInv, RendererOK, Writing, Entries, Entry, Done
  <2>3. UNCHANGED <<admission, history, edits>>
    BY <1>5, Zenon DEF CanonicalWrite
  <2> QED
    BY <2>1, <2>2, <2>3, Unmoved
<1>6. CASE ComponentEntry
  <2>1. RendererInv'
    <3>1. rnext \in 1..Count /\ content \in Contents /\ pins \in Versions
      BY <1>6, Zenon DEF ComponentEntry, RendererInv, Writing
    <3>2. Done' = Done \cup {At} /\ rnext' \in 1..(Count + 1)
      BY <1>6, <3>1, Orders DEF ComponentEntry, Done, At
    <3>3. Of(Reads[At]) \in Contents
      BY <3>1, Orders, SourcesAreContents DEF At
    <3>4. entries' \in Entries(Done')
      BY <1>6, <3>1, <3>2, <3>3 DEF ComponentEntry, RendererInv, RendererOK, Entries, Entry
    <3> QED
      BY <1>6, <3>1, <3>2, <3>4 DEF ComponentEntry, RendererInv, RendererOK, Writing
  <2>2. UNCHANGED <<files, admission, history, edits>>
    BY <1>6, Zenon DEF ComponentEntry
  <2> QED
    BY <2>1, <2>2, Unmoved
<1>7. CASE Report
  <2>1. FilesOK'
    <3>1. Done = Components
      BY <1>7, Orders DEF Report, Done
    <3>2. metadata' \in Entries(Components)
      BY <1>7, <3>1, Zenon DEF Report, Publish, RendererInv, RendererOK
    <3> QED
      BY <1>7, <3>2, Zenon DEF Report, Publish, FilesOK
  <2>2. RendererInv'
    BY <1>7, Orders, SourcesAreContents, RenderAssumption DEF Report, Publish,
       EndRender, RendererInv, RendererOK, Writing, Entries, Entry, Done
  <2>3. HistoryOK'
    BY <1>7, Zenon DEF Report, Publish, EndRender, HistoryOK, Mark, Evidence
  <2>4. UNCHANGED <<admission, edits>>
    BY <1>7, Zenon DEF Report, Publish, EndRender
  <2> QED
    BY <2>1, <2>2, <2>3, <2>4, Unmoved
<1>8. CASE VerifyContract
  <2>1. RendererInv'
    BY <1>8, Orders, SourcesAreContents, RenderAssumption DEF VerifyContract,
       EndRender, RendererInv, RendererOK, Writing, Entries, Entry, Done
  <2>2. HistoryOK'
    BY <1>8, Zenon DEF VerifyContract, EndRender, HistoryOK, Mark, Evidence
  <2>3. UNCHANGED <<files, admission, edits>>
    BY <1>8, Zenon DEF VerifyContract, EndRender
  <2> QED
    BY <2>1, <2>2, <2>3, Unmoved
<1>9. CASE RenderFails
  <2>1. RendererInv'
    BY <1>9, Orders, SourcesAreContents, RenderAssumption DEF RenderFails,
       EndRender, RendererInv, RendererOK, Writing, Entries, Entry, Done
  <2>2. HistoryOK'
    BY <1>9, Zenon DEF RenderFails, EndRender, HistoryOK, Mark, Evidence
  <2>3. UNCHANGED <<files, admission, edits>>
    BY <1>9, Zenon DEF RenderFails, EndRender
  <2> QED
    BY <2>1, <2>2, <2>3, Unmoved
<1>10. CASE StartAdmission
  <2>1. AdmissionInv'
    <3>1. held' \in Contract
      BY <1>10, Zenon DEF StartAdmission, FilesOK
    <3>2. anext' \in 1..(Count + 2) /\ anext' \in 1..2
      BY <1>10, Orders DEF StartAdmission
    <3> QED
      BY <1>10, <3>1, <3>2 DEF StartAdmission, AdmissionInv, AdmissionOK
  <2>2. HistoryOK'
    BY <1>10, Zenon DEF StartAdmission, HistoryOK, Mark, Evidence
  <2>3. UNCHANGED <<files, renderer, edits>>
    BY <1>10, Zenon DEF StartAdmission
  <2> QED
    BY <2>1, <2>2, <2>3, Unmoved
<1>11. CASE HashEvidence
  <2>1. AdmissionInv'
    BY <1>11, Orders, SourcesAreContents DEF HashEvidence, AdmissionInv,
       AdmissionOK, Evidence
  <2>2. UNCHANGED <<files, renderer, history, edits>>
    BY <1>11, Zenon DEF HashEvidence
  <2> QED
    BY <2>1, <2>2, Unmoved
<1>12. CASE RefuseEvidence
  <2>1. AdmissionInv'
    BY <1>12, EndKeeps DEF RefuseEvidence, Refuse
  <2>2. HistoryOK'
    BY <1>12, Zenon DEF RefuseEvidence, EndAdmission, Refuse, HistoryOK, Mark,
       Evidence
  <2>3. UNCHANGED <<files, renderer, edits>>
    BY <1>12, Zenon DEF RefuseEvidence, EndAdmission, Refuse
  <2> QED
    BY <2>1, <2>2, <2>3, Unmoved
<1>13. CASE LoadEvidence
  <2>1. AdmissionInv'
    <3>1. Item \in Evidence /\ tree[Item] \in Versions
      BY <1>13, ItemIsEvidence, RenderAssumption DEF LoadEvidence, FilesOK, RenderAssumption
    <3>2. loaded' \in [Evidence -> Versions \cup {None}]
      BY <1>13, <3>1 DEF LoadEvidence, AdmissionInv, AdmissionOK
    <3>3. \/ apc' = "lock" /\ anext' = 1
          \/ apc' = "evidence" /\ anext' = 2
      BY <1>13, Orders DEF LoadEvidence, AdmissionInv
    <3>4. UNCHANGED <<held, apins, seen, used>> /\ apc = "load"
      BY <1>13, Zenon DEF LoadEvidence
    <3> QED
      BY <3>2, <3>3, <3>4, Orders DEF AdmissionInv, AdmissionOK
  <2>2. UNCHANGED <<files, renderer, history, edits>>
    BY <1>13, Zenon DEF LoadEvidence
  <2> QED
    BY <2>1, <2>2, Unmoved
<1>14. CASE RefuseBaseline
  <2>1. AdmissionInv'
    BY <1>14, EndKeeps DEF RefuseBaseline, Refuse
  <2>2. HistoryOK'
    BY <1>14, Zenon DEF RefuseBaseline, EndAdmission, Refuse, HistoryOK, Mark,
       Evidence
  <2>3. UNCHANGED <<files, renderer, edits>>
    BY <1>14, Zenon DEF RefuseBaseline, EndAdmission, Refuse
  <2> QED
    BY <2>1, <2>2, <2>3, Unmoved
<1>15. CASE ReadLock
  <2>1. AdmissionInv'
    <3>1. apins' \in Versions
      BY <1>15, RenderAssumption DEF ReadLock, FilesOK, RenderAssumption
    <3>2. anext' \in 1..Count /\ anext' \in 1..(Count + 2)
      BY <1>15, Orders DEF ReadLock, AdmissionInv
    <3> QED
      BY <1>15, <3>1, <3>2 DEF ReadLock, AdmissionInv, AdmissionOK
  <2>2. UNCHANGED <<files, renderer, history, edits>>
    BY <1>15, Zenon DEF ReadLock
  <2> QED
    BY <2>1, <2>2, Unmoved
<1>16. CASE CheckSources
  <2>1. AdmissionInv'
    BY <1>16, Orders, SourcesAreContents DEF CheckSources, AdmissionInv,
       AdmissionOK, Evidence, This
  <2>2. UNCHANGED <<files, renderer, history, edits>>
    BY <1>16, Zenon DEF CheckSources
  <2> QED
    BY <2>1, <2>2, Unmoved
<1>17. CASE RefuseSources
  <2>1. AdmissionInv'
    BY <1>17, EndKeeps DEF RefuseSources, Refuse
  <2>2. HistoryOK'
    BY <1>17, Zenon DEF RefuseSources, EndAdmission, Refuse, HistoryOK, Mark,
       Evidence
  <2>3. UNCHANGED <<files, renderer, edits>>
    BY <1>17, Zenon DEF RefuseSources, EndAdmission, Refuse
  <2> QED
    BY <2>1, <2>2, <2>3, Unmoved
<1>18. CASE CheckRender
  <2>1. AdmissionInv'
    <3>1. This \in Components /\ anext \in 1..Count
      BY <1>18, Orders, Zenon DEF CheckRender, AdmissionInv, This
    <3>2. render[This] \in Contents
      BY <1>18, <3>1 DEF CheckRender, RenderMatches, AdmissionInv, Contract, Entries, Entry
    <3>3. used' \in [Components -> Contents \cup {None}]
      BY <1>18, <3>1, <3>2 DEF CheckRender, AdmissionInv, AdmissionOK
    <3>4. /\ anext' \in 1..(Count + 2)
          /\ apc' = "projection" \/ (apc' = "sources" /\ anext' \in 1..Count)
      BY <1>18, <3>1, Orders DEF CheckRender
    <3>5. UNCHANGED <<held, apins, loaded, seen>> /\ apc = "render"
      BY <1>18, Zenon DEF CheckRender
    <3> QED
      BY <3>3, <3>4, <3>5 DEF AdmissionInv, AdmissionOK
  <2>2. UNCHANGED <<files, renderer, history, edits>>
    BY <1>18, Zenon DEF CheckRender
  <2> QED
    BY <2>1, <2>2, Unmoved
<1>19. CASE RefuseRender
  <2>1. AdmissionInv'
    BY <1>19, EndKeeps DEF RefuseRender, Refuse
  <2>2. HistoryOK'
    BY <1>19, Zenon DEF RefuseRender, EndAdmission, Refuse, HistoryOK, Mark,
       Evidence
  <2>3. UNCHANGED <<files, renderer, edits>>
    BY <1>19, Zenon DEF RefuseRender, EndAdmission, Refuse
  <2> QED
    BY <2>1, <2>2, <2>3, Unmoved
<1>20. CASE Reject
  <2>1. AdmissionInv'
    BY <1>20, EndKeeps DEF Reject, Refuse
  <2>2. HistoryOK'
    BY <1>20, Zenon DEF Reject, EndAdmission, Refuse, HistoryOK, Mark,
       Evidence
  <2>3. UNCHANGED <<files, renderer, edits>>
    BY <1>20, Zenon DEF Reject, EndAdmission, Refuse
  <2> QED
    BY <2>1, <2>2, <2>3, Unmoved
<1>22. CASE CheckProjection
  <2>1. AdmissionInv'
    BY <1>22, Zenon DEF CheckProjection, AdmissionInv, AdmissionOK
  <2>2. UNCHANGED <<files, renderer, history, edits>>
    BY <1>22, Zenon DEF CheckProjection
  <2> QED
    BY <2>1, <2>2, Unmoved
<1>23. CASE RefuseProjection
  <2>1. AdmissionInv'
    BY <1>23, EndKeeps DEF RefuseProjection, Refuse
  <2>2. HistoryOK'
    BY <1>23, Zenon DEF RefuseProjection, EndAdmission, Refuse, HistoryOK, Mark,
       Evidence
  <2>3. UNCHANGED <<files, renderer, edits>>
    BY <1>23, Zenon DEF RefuseProjection, EndAdmission, Refuse
  <2> QED
    BY <2>1, <2>2, <2>3, Unmoved
<1>21. CASE Admitted
  <2>1. AdmissionInv'
    BY <1>21, EndKeeps DEF Admitted
  <2>2. HistoryOK'
    BY <1>21, Zenon DEF Admitted, EndAdmission, HistoryOK, Mark, Evidence
  <2>3. UNCHANGED <<files, renderer, edits>>
    BY <1>21, Zenon DEF Admitted, EndAdmission
  <2> QED
    BY <2>1, <2>2, <2>3, Unmoved
<1>24. CASE \E f \in Files : \E v \in Variants[f] : Edit(f, v)
  <2>1. FilesOK'
    <3> PICK f \in Files : \E v \in Variants[f] : Edit(f, v)
      BY <1>24
    <3> PICK v \in Variants[f] : Edit(f, v)
      OBVIOUS
    <3>1. v \in Versions
      BY RenderAssumption DEF RenderAssumption
    <3>2. tree' = [tree EXCEPT ![f] = v] /\ UNCHANGED <<archives, render, metadata, contract>>
      BY Zenon DEF Edit
    <3>3. tree' \in [Files -> Versions]
      BY <3>1, <3>2 DEF FilesOK
    <3> QED
      BY <3>2, <3>3, Zenon DEF FilesOK
  <2>2. HistoryOK'
    <3>1. swapped' \subseteq Evidence
      BY <1>24, ItemIsEvidence DEF Edit, HistoryOK
    <3>2. edited' \in BOOLEAN
      BY <1>24, Zenon DEF Edit
    <3>3. UNCHANGED <<calm, verified>>
      BY <1>24, Zenon DEF Edit
    <3> QED
      BY <3>1, <3>2, <3>3, Zenon DEF HistoryOK
  <2>3. edits' \in 0..MaxEdits
    BY <1>24, RenderAssumption DEF Edit
  <2>4. UNCHANGED <<renderer, admission>>
    BY <1>24, Zenon DEF Edit
  <2> QED
    BY <2>1, <2>2, <2>3, <2>4, Unmoved
<1>25. CASE BootstrapCharts
  <2>1. FilesOK'
    <3>1. tree[Lock] \in Versions
      BY RenderAssumption DEF RenderAssumption, FilesOK
    <3> QED
      BY <1>25, <3>1 DEF BootstrapCharts, FilesOK
  <2>2. UNCHANGED <<renderer, admission, history, edits>>
    BY <1>25, Zenon DEF BootstrapCharts
  <2> QED
    BY <2>1, <2>2, Unmoved
<1>26. CASE RecordContract
  <2>1. FilesOK'
    <3>1. metadata \in Entries(Components)
      BY <1>26, Zenon DEF RecordContract, FilesOK
    <3>2. /\ Of(Evidence) \in [Evidence -> Versions]
          /\ [e \in Evidence |-> Figures[tree[e]]] \in [Evidence -> Versions]
      BY RenderAssumption DEF RenderAssumption, FilesOK, Of
    <3>3. contract' \in Contract
      BY <1>26, <3>1, <3>2 DEF RecordContract, Contract
    <3> QED
      BY <1>26, <3>3, Zenon DEF RecordContract, FilesOK
  <2>2. HistoryOK'
    BY <1>26, Zenon DEF RecordContract, HistoryOK, Mark, Evidence
  <2>3. UNCHANGED <<renderer, admission, edits>>
    BY <1>26, Zenon DEF RecordContract
  <2> QED
    BY <2>1, <2>2, <2>3, Unmoved
<1>27. CASE UNCHANGED vars
  BY <1>27, Unmoved DEF vars
<1> QED
  BY <1>1, <1>2, <1>3, <1>4, <1>5, <1>6, <1>7, <1>8, <1>9, <1>10, <1>11, <1>12,
     <1>13, <1>14, <1>15, <1>16, <1>17, <1>18, <1>19, <1>20, <1>21, <1>22,
     <1>23, <1>24, <1>25, <1>26, <1>27
     DEF Next, Renderer, Admission, Operator

(***************************************************************************)
(* The types, and what the runs hold, are kept from Init on.               *)
(***************************************************************************)
LEMMA TypeInvariant == Spec => []TypeInv
<1>1. Init => TypeInv
  <2> SUFFICES ASSUME Init PROVE TypeInv
    OBVIOUS
  <2>1. FilesOK
    BY RenderAssumption DEF RenderAssumption, Init, FilesOK
  <2>2. RendererInv
    BY Orders DEF Init, RendererInv, RendererOK, Writing, Entries, Done
  <2>3. AdmissionInv
    BY Orders DEF Init, AdmissionInv, AdmissionOK
  <2>4. HistoryOK
    BY Zenon DEF Init, HistoryOK
  <2>5. edits \in 0..MaxEdits
    BY RenderAssumption DEF RenderAssumption, Init
  <2> QED
    BY <2>1, <2>2, <2>3, <2>4, <2>5 DEF TypeInv
<1> QED
  BY <1>1, TypeStep, PTL DEF Spec

(***************************************************************************)
(* The variables of CapacityRender have their types: reports and contracts *)
(* have an entry of every component, a run only holds what it read.        *)
(***************************************************************************)
THEOREM TypeCorrect == Spec => []TypeOK
<1>1. TypeInv => TypeOK
  BY DEF TypeInv, TypeOK, RendererInv, AdmissionInv
<1> QED
  BY <1>1, TypeInvariant, PTL

(***************************************************************************)
(* What an entry of component_entry binds is what its render was made of.  *)
(***************************************************************************)
Coherent(entry, c) ==
  entry.render = entry.source /\ (Lock \in Reads[c] => entry.source[Lock] = entry.chart)

AllCoherent(record) == \A c \in Components : Coherent(record[c], c)

(***************************************************************************)
(* While no file changed, a render run read everything as it is: the lock, *)
(* the sources of the render at hand and of the entries made.  What it     *)
(* reports then, the contract copied from it, the contract an admission    *)
(* read and one that passed --verify-contract are coherent.                *)
(***************************************************************************)
RenderInv ==
  /\ rpc # "idle" /\ ~edited =>
       /\ pins = tree[Lock]
       /\ rpc \in Writing => content = Of(Reads[At])
       /\ \A c \in Done : Coherent(entries[c], c)
  /\ "metadata" \in calm => AllCoherent(metadata)
  /\ "contract" \in calm => AllCoherent(contract.entries)
  /\ "held" \in calm => AllCoherent(held.entries)
  /\ verified => AllCoherent(contract.entries)

(***************************************************************************)
(* What an admission accepted is what its contract states: the evidence it *)
(* loaded, unless that was replaced after the checksum, the figures it     *)
(* compared, the sources and the renders of the components so far.         *)
(***************************************************************************)
Judging == {"lock", "sources", "render", "projection", "pass"}

AsHashed(e) == loaded[e] = held.evidence[e] \/ e \in swapped

Took(c) == seen[c] = held.entries[c].source /\ used[c] = held.entries[c].render

Before == {AdmitOrder[i] : i \in 1..(anext - 1)}

AcceptInv ==
  /\ apc = "load" => tree[Item] = held.evidence[Item] \/ Item \in swapped
  /\ apc \in {"evidence", "load"} /\ anext = 2 => AsHashed(Baseline)
  /\ apc \in Judging => \A e \in Evidence : AsHashed(e)
  /\ apc \in Judging \ {"lock"} => Stated(Baseline)
  /\ apc = "pass" => Stated(Candidate)
  /\ apc \in {"sources", "render"} => \A c \in Before : Took(c)
  /\ apc = "render" => seen[This] = held.entries[This].source
  /\ apc \in {"projection", "pass"} => \A c \in Components : Took(c)

(***************************************************************************)
(* A step that leaves what RenderInv speaks of alone keeps it.             *)
(***************************************************************************)
LEMMA RendersUnmoved ==
  ASSUME RenderInv,
         UNCHANGED <<tree, metadata, contract, renderer, held, edited, calm, verified>>
  PROVE  RenderInv'
BY Zenon DEF RenderInv, Writing, Done, At, Of, AllCoherent, Coherent, renderer

(***************************************************************************)
(* An admission that ends drops the contract it held.                      *)
(***************************************************************************)
LEMMA EndRenders ==
  ASSUME RenderInv, EndAdmission
  PROVE  RenderInv'
<1>1. UNCHANGED <<files, renderer, edited, verified>> /\ calm' = calm \ {"held"}
  BY Zenon DEF EndAdmission
<1> QED
  BY <1>1 DEF RenderInv, Writing, Done, At, Of, files, renderer

(***************************************************************************)
(* Every step keeps RenderInv.                                             *)
(***************************************************************************)
LEMMA RenderStep ==
  ASSUME TypeInv, RenderInv, [Next]_vars
  PROVE  RenderInv'
<1> USE DEF TypeInv
<1>1. CASE \E mode \in {"report", "verify"} : StartRender(mode)
  BY <1>1, Orders DEF StartRender, RenderInv, Writing, Done, files, admission
<1>2. CASE RenderComponent
  <2>1. ~edited /\ pins = tree[Lock] => content' = Of(Reads[At])
    BY <1>2, Zenon DEF RenderComponent, Rendered, Of
  <2> QED
    BY <1>2, <2>1 DEF RenderComponent, RenderInv, Writing, Done, At, Of, files, history, admission
<1>3. CASE RenderError
  BY <1>3, Zenon DEF RenderError, EndRender, RenderInv, files, admission
<1>4. CASE Truncate
  BY <1>4 DEF Truncate, RenderInv, Writing, Done, At, Of, history, admission
<1>5. CASE CanonicalWrite
  BY <1>5 DEF CanonicalWrite, RenderInv, Writing, Done, At, Of, history, admission
<1>6. CASE ComponentEntry
  <2>1. rnext \in 1..Count /\ At \in Components
    BY <1>6, Orders DEF ComponentEntry, RendererInv, Writing, At
  <2>2. Done' = Done \cup {At}
    BY <1>6, <2>1 DEF ComponentEntry, RendererInv, Done, At
  <2>3. /\ \A c \in Done \ {At} : entries'[c] = entries[c]
        /\ entries'[At] = [render |-> content, source |-> Of(Reads[At]), chart |-> pins]
    BY <1>6 DEF ComponentEntry
  <2>4. pins = tree[Lock] /\ content = Of(Reads[At]) => Coherent(entries'[At], At)
    BY <2>3 DEF Coherent, Of
  <2>5. UNCHANGED <<tree, metadata, contract, held, history, pins>> /\ rpc = "hash" /\ rpc' = "next"
    BY <1>6, Zenon DEF ComponentEntry, files, admission
  <2> QED
    BY <2>2, <2>3, <2>4, <2>5 DEF RenderInv, Writing, history
<1>7. CASE Report
  <2>1. Done = Components
    BY <1>7, Orders DEF Report, Done
  <2>2. metadata' = entries /\ entries \in Entries(Components)
    BY <1>7, <2>1, Zenon DEF Report, Publish, RendererInv, RendererOK
  <2>4. rpc = "next" /\ rpc' = "idle" /\ UNCHANGED <<contract, held, verified>>
    BY <1>7, Zenon DEF Report, Publish, EndRender, admission
  <2>5. calm' = IF ~edited THEN calm \cup {"metadata"} ELSE calm \ {"metadata"}
    BY <1>7, Zenon DEF Report, Publish, Mark
  <2> QED
    BY <2>1, <2>2, <2>4, <2>5 DEF RenderInv, AllCoherent
<1>8. CASE VerifyContract
  <2>1. Done = Components
    BY <1>8, Orders DEF VerifyContract, Done
  <2>2. rpc = "next" /\ rpc' = "idle" /\ UNCHANGED <<metadata, contract, held, calm>>
    BY <1>8, Zenon DEF VerifyContract, EndRender, files, admission
  <2>3. verified' => contract # None /\ entries = contract.entries /\ (verified \/ ~edited)
    BY <1>8, Zenon DEF VerifyContract, SameEntries
  <2> QED
    BY <2>1, <2>2, <2>3 DEF RenderInv, AllCoherent
<1>9. CASE RenderFails
  BY <1>9, Zenon DEF RenderFails, EndRender, RenderInv, files, admission
<1>10. CASE StartAdmission
  <2>1. held' = contract /\ contract # None /\ UNCHANGED <<files, renderer, edited, verified>>
    BY <1>10, Zenon DEF StartAdmission
  <2>2. calm' = IF "contract" \in calm \/ verified THEN calm \cup {"held"} ELSE calm \ {"held"}
    BY <1>10, Zenon DEF StartAdmission, Mark
  <2> QED
    BY <2>1, <2>2 DEF RenderInv, Writing, Done, At, Of, files, renderer
<1>11. CASE HashEvidence
  BY <1>11, RendersUnmoved, Zenon DEF HashEvidence, files, renderer, history, admission
<1>12. CASE RefuseEvidence
  BY <1>12, EndRenders DEF RefuseEvidence, Refuse
<1>13. CASE LoadEvidence
  BY <1>13, RendersUnmoved, Zenon DEF LoadEvidence, files, renderer, history, admission
<1>14. CASE RefuseBaseline
  BY <1>14, EndRenders DEF RefuseBaseline, Refuse
<1>15. CASE ReadLock
  BY <1>15, RendersUnmoved, Zenon DEF ReadLock, files, renderer, history, admission
<1>16. CASE CheckSources
  BY <1>16, RendersUnmoved, Zenon DEF CheckSources, files, renderer, history, admission
<1>17. CASE RefuseSources
  BY <1>17, EndRenders DEF RefuseSources, Refuse
<1>18. CASE CheckRender
  BY <1>18, RendersUnmoved, Zenon DEF CheckRender, files, renderer, history, admission
<1>19. CASE RefuseRender
  BY <1>19, EndRenders DEF RefuseRender, Refuse
<1>20. CASE Reject
  BY <1>20, EndRenders DEF Reject, Refuse
<1>22. CASE CheckProjection
  BY <1>22, RendersUnmoved, Zenon DEF CheckProjection, files, renderer, history, admission
<1>23. CASE RefuseProjection
  BY <1>23, EndRenders DEF RefuseProjection, Refuse
<1>21. CASE Admitted
  BY <1>21, EndRenders DEF Admitted
<1>24. CASE \E f \in Files : \E v \in Variants[f] : Edit(f, v)
  <2>1. UNCHANGED <<metadata, contract, renderer, held, calm, verified>> /\ edited' = (rpc # "idle")
    BY <1>24, Zenon DEF Edit, admission
  <2> QED
    BY <2>1 DEF RenderInv, renderer
<1>25. CASE BootstrapCharts
  BY <1>25, RendersUnmoved, Zenon DEF BootstrapCharts, files, renderer,
     history, admission
<1>26. CASE RecordContract
  <2>1. /\ metadata # None
        /\ contract' = [entries |-> metadata, evidence |-> Of(Evidence),
                        figures |-> [e \in Evidence |-> Figures[tree[e]]]]
    BY <1>26, Zenon DEF RecordContract
  <2>3. contract'.entries = metadata
    BY <2>1
  <2>4. calm' = IF "metadata" \in calm THEN calm \cup {"contract"} ELSE calm \ {"contract"}
    BY <1>26, Zenon DEF RecordContract, Mark
  <2>5. UNCHANGED <<tree, metadata, renderer, held, edited>> /\ ~verified'
    BY <1>26, Zenon DEF RecordContract, admission
  <2> QED
    BY <2>3, <2>4, <2>5 DEF RenderInv, Writing, Done, At, Of, renderer
<1>27. CASE UNCHANGED vars
  BY <1>27, RendersUnmoved, Zenon DEF vars, files, renderer, admission, history
<1> QED
  BY <1>1, <1>2, <1>3, <1>4, <1>5, <1>6, <1>7, <1>8, <1>9, <1>10, <1>11, <1>12,
     <1>13, <1>14, <1>15, <1>16, <1>17, <1>18, <1>19, <1>20, <1>21, <1>22,
     <1>23, <1>24, <1>25, <1>26, <1>27
     DEF Next, Renderer, Admission, Operator

(***************************************************************************)
(* A step of another program keeps what an admission accepted.             *)
(***************************************************************************)
LEMMA AcceptedUnmoved ==
  ASSUME AcceptInv, UNCHANGED <<tree, admission, swapped>>
  PROVE  AcceptInv'
BY Zenon DEF AcceptInv, Judging, AsHashed, Stated, Took, Before, Item, This, admission

(***************************************************************************)
(* An admission that ends holds nothing.                                   *)
(***************************************************************************)
LEMMA NothingAccepted == EndAdmission => AcceptInv'
BY DEF EndAdmission, AcceptInv, Judging

(***************************************************************************)
(* Every step keeps AcceptInv.                                             *)
(***************************************************************************)
LEMMA AcceptStep ==
  ASSUME TypeInv, AcceptInv, [Next]_vars
  PROVE  AcceptInv'
<1> USE DEF TypeInv
<1>1. CASE \E mode \in {"report", "verify"} : StartRender(mode)
  BY <1>1, AcceptedUnmoved, Zenon DEF StartRender, files, history
<1>2. CASE RenderComponent
  BY <1>2, AcceptedUnmoved, Zenon DEF RenderComponent, files, history
<1>3. CASE RenderError
  BY <1>3, AcceptedUnmoved, Zenon DEF RenderError, EndRender, files, history
<1>4. CASE Truncate
  BY <1>4, AcceptedUnmoved, Zenon DEF Truncate, files, history
<1>5. CASE CanonicalWrite
  BY <1>5, AcceptedUnmoved, Zenon DEF CanonicalWrite, files, history
<1>6. CASE ComponentEntry
  BY <1>6, AcceptedUnmoved, Zenon DEF ComponentEntry, files, history
<1>7. CASE Report
  BY <1>7, AcceptedUnmoved, Zenon DEF Report, Publish, EndRender, files,
     history
<1>8. CASE VerifyContract
  BY <1>8, AcceptedUnmoved, Zenon DEF VerifyContract, EndRender, files,
     history
<1>9. CASE RenderFails
  BY <1>9, AcceptedUnmoved, Zenon DEF RenderFails, EndRender, files, history
<1>10. CASE StartAdmission
  BY <1>10 DEF StartAdmission, AcceptInv, Judging
<1>11. CASE HashEvidence
  <2>1. /\ apc = "evidence" /\ apc' = "load" /\ tree[Item] = held.evidence[Item]
        /\ UNCHANGED <<tree, held, anext, loaded, swapped>>
    BY <1>11, Zenon DEF HashEvidence, files, history
  <2> QED
    BY <2>1 DEF AcceptInv, AsHashed, Judging, Item
<1>12. CASE RefuseEvidence
  BY <1>12, NothingAccepted DEF RefuseEvidence, Refuse
<1>13. CASE LoadEvidence
  <2>1. loaded' = [loaded EXCEPT ![Item] = tree[Item]] /\ loaded \in [Evidence -> Versions \cup {None}]
    BY <1>13, Zenon DEF LoadEvidence, AdmissionInv, AdmissionOK
  <2>2. UNCHANGED <<tree, held, seen, used, swapped>>
    BY <1>13, Zenon DEF LoadEvidence, files, history
  <2>4. tree[Item] = held.evidence[Item] \/ Item \in swapped
    BY <1>13, Zenon DEF LoadEvidence, AcceptInv
  <2>5. \/ anext = 1 /\ apc' = "evidence" /\ anext' = 2
        \/ anext = 2 /\ apc' = "lock" /\ anext' = 1
    BY <1>13, Orders DEF LoadEvidence, AdmissionInv
  <2>6. CASE anext = 1
    <3>1. Item = Baseline
      BY <1>13, <2>6, ItemIsEvidence DEF LoadEvidence
    <3>2. AsHashed(Baseline)'
      BY <2>1, <2>2, <2>4, <3>1 DEF Evidence, AsHashed
    <3> QED
      BY <2>2, <2>5, <2>6, <3>2 DEF AcceptInv, Judging
  <2>7. CASE anext = 2
    <3>1. Item = Candidate
      BY <1>13, <2>7, ItemIsEvidence DEF LoadEvidence
    <3>2. AsHashed(Baseline)
      BY <1>13, <2>7 DEF LoadEvidence, AcceptInv
    <3>3. \A e \in Evidence : AsHashed(e)'
      BY <2>1, <2>2, <2>4, <3>1, <3>2 DEF Evidence, AsHashed
    <3> QED
      BY <2>2, <2>5, <2>7, <3>3 DEF AcceptInv, Judging
  <2> QED
    BY <2>5, <2>6, <2>7
<1>14. CASE RefuseBaseline
  BY <1>14, NothingAccepted DEF RefuseBaseline, Refuse
<1>15. CASE ReadLock
  <2>1. Before' = {}
    BY <1>15 DEF ReadLock, AdmissionInv, Before
  <2>2. /\ UNCHANGED <<held, loaded, swapped>> /\ apc = "lock" /\ apc' = "sources"
        /\ Stated(Baseline)
    BY <1>15, Zenon DEF ReadLock, BaselineMatches, history
  <2> QED
    BY <2>1, <2>2 DEF AcceptInv, Judging, AsHashed, Stated
<1>16. CASE CheckSources
  <2>1. anext \in 1..Count /\ This \in Components
    BY <1>16, Orders DEF CheckSources, AdmissionInv, This
  <2>2. seen' = [seen EXCEPT ![This] = held.entries[This].source]
    BY <1>16, Zenon DEF CheckSources, SourcesMatch
  <2>3. UNCHANGED <<held, anext, loaded, used, swapped>> /\ apc = "sources" /\ apc' = "render"
    BY <1>16, Zenon DEF CheckSources, history
  <2>4. Before' = Before /\ This' = This
    BY <2>3 DEF Before, This
  <2>5. \A c \in Components : seen'[c] = IF c = This THEN held.entries[This].source ELSE seen[c]
    BY <2>2 DEF AdmissionInv, AdmissionOK
  <2>6. Before \subseteq Components
    BY <2>1, Orders DEF Before
  <2>7. \A c \in Before : Took(c)'
    BY <2>3, <2>5, <2>6 DEF AcceptInv, Took
  <2> QED
    BY <2>1, <2>3, <2>4, <2>5, <2>7 DEF AcceptInv, Judging, AsHashed, Stated
<1>17. CASE RefuseSources
  BY <1>17, NothingAccepted DEF RefuseSources, Refuse
<1>18. CASE CheckRender
  <2>1. anext \in 1..Count /\ This \in Components
    BY <1>18, Orders DEF CheckRender, AdmissionInv, This
  <2>2. used' = [used EXCEPT ![This] = held.entries[This].render]
    BY <1>18, Zenon DEF CheckRender, RenderMatches
  <2>3. UNCHANGED <<held, loaded, seen, swapped>> /\ apc = "render" /\ anext' = anext + 1
    BY <1>18, Zenon DEF CheckRender, history
  <2>4. Before' = Before \cup {This}
    BY <2>1, <2>3, Orders DEF Before, This
  <2>5. \A c \in Components : used'[c] = IF c = This THEN held.entries[This].render ELSE used[c]
    BY <2>2 DEF AdmissionInv, AdmissionOK
  <2>6. Before \subseteq Components
    BY <2>1, Orders DEF Before
  <2>7. \A c \in Before' : Took(c)'
    BY <2>1, <2>3, <2>4, <2>5, <2>6 DEF AcceptInv, Took
  <2>8. CASE anext = Count
    <3>1. apc' = "projection" /\ Before' = Components
      BY <1>18, <2>1, <2>3, <2>8, Orders DEF CheckRender, Before
    <3> QED
      BY <2>3, <2>7, <3>1 DEF AcceptInv, Judging, AsHashed, Stated
  <2>9. CASE anext # Count
    <3>1. apc' = "sources"
      BY <1>18, <2>9 DEF CheckRender
    <3> QED
      BY <2>3, <2>7, <3>1 DEF AcceptInv, Judging, AsHashed, Stated
  <2> QED
    BY <2>8, <2>9
<1>19. CASE RefuseRender
  BY <1>19, NothingAccepted DEF RefuseRender, Refuse
<1>20. CASE Reject
  BY <1>20, NothingAccepted DEF Reject, Refuse
<1>22. CASE CheckProjection
  <2>1. /\ apc = "projection" /\ apc' = "pass" /\ Stated(Candidate)
        /\ UNCHANGED <<held, loaded, seen, used, swapped>>
    BY <1>22, Zenon DEF CheckProjection, ProjectionMatches, history
  <2> QED
    BY <2>1 DEF AcceptInv, Judging, AsHashed, Stated, Took
<1>23. CASE RefuseProjection
  BY <1>23, NothingAccepted DEF RefuseProjection, Refuse
<1>21. CASE Admitted
  BY <1>21, NothingAccepted DEF Admitted
<1>24. CASE \E f \in Files : \E v \in Variants[f] : Edit(f, v)
  <2> PICK f \in Files : \E v \in Variants[f] : Edit(f, v)
    BY <1>24
  <2> PICK v \in Variants[f] : Edit(f, v)
    OBVIOUS
  <2>1. tree' = [tree EXCEPT ![f] = v] /\ UNCHANGED admission
    BY Zenon DEF Edit
  <2>2. swapped' = IF apc = "load" /\ f = Item THEN swapped \cup {f} ELSE swapped
    BY Zenon DEF Edit
  <2>3. Item' = Item /\ Before' = Before /\ This' = This
    BY <2>1, Zenon DEF Item, Before, This, admission
  <2>4. apc = "load" => tree'[Item] = held.evidence[Item] \/ Item \in swapped'
    BY <2>1, <2>2, ItemIsEvidence, RenderAssumption DEF RenderAssumption, FilesOK, AcceptInv
  <2>5. swapped \subseteq swapped'
    BY <2>2
  <2>6. \A c \in Components : Took(c)' <=> Took(c)
    BY <2>1, Zenon DEF Took, admission
  <2>7. Before \subseteq Components \/ apc \notin {"sources", "render"}
    BY Orders DEF Before, AdmissionInv
  <2>8. \A e \in Evidence : (AsHashed(e) => AsHashed(e)') /\ (Stated(e)' <=> Stated(e))
    BY <2>1, <2>5, Zenon DEF AsHashed, Stated, admission
  <2>9. Baseline \in Evidence /\ Candidate \in Evidence
    BY DEF Evidence
  <2>10. UNCHANGED <<apc, held, anext, seen>>
    BY <2>1, Zenon DEF admission
  <2> QED
    BY <2>3, <2>4, <2>6, <2>7, <2>8, <2>9, <2>10 DEF AcceptInv, Judging
<1>25. CASE BootstrapCharts
  BY <1>25, AcceptedUnmoved, Zenon DEF BootstrapCharts, files, history
<1>26. CASE RecordContract
  BY <1>26, AcceptedUnmoved, Zenon DEF RecordContract, files, history
<1>27. CASE UNCHANGED vars
  BY <1>27, AcceptedUnmoved, Zenon DEF vars, files, renderer, admission, history
<1> QED
  BY <1>1, <1>2, <1>3, <1>4, <1>5, <1>6, <1>7, <1>8, <1>9, <1>10, <1>11, <1>12,
     <1>13, <1>14, <1>15, <1>16, <1>17, <1>18, <1>19, <1>20, <1>21, <1>22,
     <1>23, <1>24, <1>25, <1>26, <1>27
     DEF Next, Renderer, Admission, Operator

(***************************************************************************)
(* All of it holds from Init on: no run is under way, nothing is reported. *)
(***************************************************************************)
LEMMA RenderInvariant == Spec => [](TypeInv /\ RenderInv /\ AcceptInv)
<1>1. Init => RenderInv /\ AcceptInv
  BY DEF Init, RenderInv, AcceptInv, Judging
<1>2. TypeInv /\ RenderInv /\ AcceptInv /\ [Next]_vars => RenderInv' /\ AcceptInv'
  BY RenderStep, AcceptStep, Zenon
<1> QED
  BY <1>1, <1>2, TypeInvariant, PTL DEF Spec

(***************************************************************************)
(* Whatever is edited and rendered while it runs, an admission that ends well *)
(* used renders made of the sources it compared (_load_render after the source *)
(* checks of evaluate), if its contract came of a report no edit fell into or *)
(* passed --verify-contract: it accepted what the contract states (AcceptInv), *)
(* and such a contract is coherent (RenderInv).                            *)
(***************************************************************************)
THEOREM AdmissionCurrent == Spec => []AdmissionIsCurrent
<1>1. TypeInv /\ RenderInv /\ AcceptInv => AdmissionIsCurrent
  <2> SUFFICES ASSUME TypeInv, RenderInv, AcceptInv, apc = "pass", "held" \in calm,
                      NEW c \in Components
               PROVE  seen[c] # None /\ used[c] = seen[c]
    BY DEF AdmissionIsCurrent
  <2>1. Took(c)
    BY Zenon DEF AcceptInv
  <2>2. held.entries[c].render = held.entries[c].source
    BY Zenon DEF RenderInv, AllCoherent, Coherent
  <2>3. held.entries[c].source \in Contents
    BY DEF TypeInv, AdmissionInv, Contract, Entries, Entry
  <2>4. None \notin Contents
    <3>1. \A d \in Components : None \notin Inputs(d)
      BY RenderAssumption DEF RenderAssumption, Inputs
    <3> QED
      BY <3>1 DEF Contents
  <2> QED
    BY <2>1, <2>2, <2>3, <2>4 DEF Took
<1> QED
  BY <1>1, RenderInvariant, PTL

(***************************************************************************)
(* A contract that passed --verify-contract (476-499) with no edit during the *)
(* run binds every render to the sources and the chart it was made of: the *)
(* entries it was compared with are coherent (RenderInv), and it is not edited *)
(* after (RecordContract replaces it whole).                               *)
(***************************************************************************)
THEOREM VerifyCurrent == Spec => []VerifyReproduces
<1>1. RenderInv => VerifyReproduces
  BY Zenon DEF RenderInv, VerifyReproduces, AllCoherent, Coherent
<1> QED
  BY <1>1, RenderInvariant, PTL

(***************************************************************************)
(* Although _bound_input reads each file twice (223, 226), what an admission *)
(* computed with has the figures its contract states, of baseline (768-785) *)
(* and candidate (974), and is the content of the contract except for a file *)
(* replaced between its two reads.                                         *)
(***************************************************************************)
THEOREM EvidenceBound == Spec => []EvidenceIsBound
<1>1. AcceptInv => EvidenceIsBound
  BY Zenon DEF AcceptInv, EvidenceIsBound, Evidence, Judging, AsHashed, Stated
<1> QED
  BY <1>1, RenderInvariant, PTL
=================================================================================
