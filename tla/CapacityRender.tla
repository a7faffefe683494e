----------------------------- MODULE CapacityRender -----------------------------
(***************************************************************************)
(* How the capacity gate knows what it admits.                             *)
(* scripts/phase6/render-capacity-inputs.py renders every component from   *)
(* tracked files and pinned chart archives, writes the renders below       *)
(* .local and reports checksums; an operator copies them into the tracked  *)
(* contract; capacity-admission.py admits renders only while contract,     *)
(* files and evidence agree.  Neither program holds a lock: files change   *)
(* while they run, a render may be cut off, and both may run at once.      *)
(* A checksum is the content it was taken of; a render is the function of  *)
(* the inputs it was made from.  What the admission computes from the      *)
(* renders is module CapacityAdmission; here it may accept or reject.      *)
(***************************************************************************)
EXTENDS Naturals, Sequences

CONSTANTS
  Components,          \* REQUIRED_COMPONENTS
  RenderOrder,         \* the components as render_all takes them
  AdmitOrder,          \* and as evaluate does: sorted(REQUIRED_COMPONENTS)
  Files,               \* tracked files and the protected evidence
  Versions,            \* contents of files
  Variants,            \* those each file may get
  Reads,               \* the files each component is rendered from
  Lock,                \* versions.lock.yaml, read by the components with a chart
  Limit,               \* cattle-system-limit-range.yaml
  Exact,               \* its contents that state the limits the program knows
  Crs, Projection,     \* the operator's resources and their projected workloads
  Baseline, Candidate, \* the protected evidence
  Figures,             \* what is computed from evidence: sums, provenance; contents that
                       \* differ in labels, taints or distribution over nodes can share it
  None,
  Torn,                \* a file cut off while it was written
  MaxEdits             \* bound on changes of files

Count == Len(RenderOrder)
Evidence == {Baseline, Candidate}

ASSUME RenderAssumption ==
  /\ Components # {}
  /\ RenderOrder \in Seq(Components) /\ AdmitOrder \in Seq(Components)
  /\ Len(AdmitOrder) = Count
  /\ \A c \in Components : \E i, j \in 1..Count : RenderOrder[i] = c /\ AdmitOrder[j] = c
  /\ \A i, j \in 1..Count : i # j => RenderOrder[i] # RenderOrder[j]
  /\ Reads \in [Components -> SUBSET (Files \ Evidence)]
  /\ Evidence \subseteq Files /\ Lock \in Files
  /\ Exact \subseteq Versions /\ MaxEdits \in Nat
  /\ Figures \in [Versions -> Versions] /\ Variants \in [Files -> SUBSET Versions]
  /\ \A c \in Components : None \notin [Reads[c] -> Versions]

VARIABLES
  tree,     \* content of every file
  archives, \* lock contents whose charts are in the cache
  render,   \* .local/phase6/renders
  metadata, \* the last complete report of a render run
  contract, \* config/platform-capacity-admission.yaml
  \* a render run: step, report or --verify-contract, the component it is at, the
  \* lock it read, the render in memory, the entries made
  rpc, rmode, rnext, pins, content, entries,
  \* an admission run: step, the contract it read, what it is at,
  \* the lock it read, the evidence, sources and renders it accepted
  apc, held, anext, apins, loaded, seen, used,
  edited,   \* history: a file changed since the render run began
  swapped,  \* history: evidence changed between its two reads
  calm,     \* history: reports and contracts of runs with no change during them
  verified, \* history: the contract passed --verify-contract with no change during it
  edits

files == <<tree, archives, render, metadata, contract>>
renderer == <<rpc, rmode, rnext, pins, content, entries>>
admission == <<apc, held, anext, apins, loaded, seen, used>>
history == <<edited, swapped, calm, verified>>
vars == <<files, renderer, admission, history, edits>>

Inputs(c) == [Reads[c] -> Versions]
Contents == UNION {Inputs(c) : c \in Components}
Of(S) == [f \in S |-> tree[f]]

\* component_entry: render_sha256, source_inputs, chart_archive_sha256
Entry == [render: Contents, source: Contents, chart: Versions]
Entries(S) == [S -> Entry]
Contract ==
  [entries: Entries(Components), evidence: [Evidence -> Versions],
   figures: [Evidence -> Versions]]
Done == {RenderOrder[i] : i \in 1..(rnext - 1)}

FilesOK ==
  /\ tree \in [Files -> Versions] /\ archives \subseteq Versions
  /\ render \in [Components -> Contents \cup {None, Torn}]
  /\ metadata \in Entries(Components) \cup {None} /\ contract \in Contract \cup {None}

RendererOK ==
  /\ rpc \in {"idle", "next", "write", "writing", "hash"}
  /\ rmode \in {"report", "verify"} /\ rnext \in 1..(Count + 1)
  /\ pins \in Versions \cup {None} /\ content \in Contents \cup {None}
  /\ entries \in Entries(Done)

AdmissionOK ==
  /\ apc \in {"idle", "evidence", "load", "lock", "sources", "render", "projection", "pass"}
  /\ held \in Contract \cup {None} /\ anext \in 1..(Count + 2)
  /\ apins \in Versions \cup {None} /\ loaded \in [Evidence -> Versions \cup {None}]
  /\ seen \in [Components -> Contents \cup {None}]
  /\ used \in [Components -> Contents \cup {None}]

HistoryOK ==
  /\ edited \in BOOLEAN /\ verified \in BOOLEAN /\ swapped \subseteq Evidence
  /\ calm \subseteq {"metadata", "contract", "held"}

TypeOK == FilesOK /\ RendererOK /\ AdmissionOK /\ HistoryOK /\ edits \in 0..MaxEdits

Init ==
  /\ \E v \in Exact : tree = [f \in Files |-> v] /\ archives = {v}
  /\ render = [c \in Components |-> None] /\ metadata = None /\ contract = None
  /\ rpc = "idle" /\ rmode = "report" /\ rnext = 1 /\ pins = None /\ content = None
  /\ entries = [c \in {} |-> None]
  /\ apc = "idle" /\ held = None /\ anext = 1 /\ apins = None
  /\ loaded = [e \in Evidence |-> None]
  /\ seen = [c \in Components |-> None] /\ used = [c \in Components |-> None]
  /\ edited = FALSE /\ swapped = {} /\ calm = {} /\ verified = FALSE
  /\ edits = 0

Mark(what, when) == calm' = IF when THEN calm \cup {what} ELSE calm \ {what}

------------------------------------------------------------------------------
\* render-capacity-inputs.py

\* render_all loads the lock once; the files of a component when it is its turn.
StartRender(mode) ==
  /\ rpc = "idle" /\ rpc' = "next" /\ rmode' = mode
  /\ rnext' = 1 /\ entries' = [c \in {} |-> None]
  /\ pins' = tree[Lock] /\ content' = None
  /\ edited' = FALSE
  /\ UNCHANGED <<files, admission, swapped, calm, verified, edits>>

At == RenderOrder[rnext]

\* The process ends; what it held is gone.
EndRender ==
  /\ rpc' = "idle" /\ rmode' = "report" /\ rnext' = 1 /\ entries' = [c \in {} |-> None]
  /\ pins' = None /\ content' = None /\ edited' = FALSE

\* inject_rancher_hook_limit: the LimitRange states the expected resources.
HookLimit(inputs) == Limit \in DOMAIN inputs => inputs[Limit] \in Exact

\* verify_operator_projections: replicas, resources and claims of the projected
\* StatefulSets are those of the operator's resources.
OperatorProjections(inputs) ==
  {Crs, Projection} \subseteq DOMAIN inputs => inputs[Crs] = inputs[Projection]

\* chart_path: the archive is there and has the checksum of the lock.
ChartPath(c) == Lock \in Reads[c] => pins \in archives

Rendered(c) == [f \in Reads[c] |-> IF f = Lock THEN pins ELSE tree[f]]

Renderable(c) ==
  ChartPath(c) /\ HookLimit(Rendered(c)) /\ OperatorProjections(Rendered(c))

RenderComponent ==
  /\ rpc = "next" /\ rnext <= Count /\ Renderable(At)
  /\ rpc' = "write"
  /\ content' = Rendered(At)
  /\ UNCHANGED <<files, rmode, rnext, pins, entries, admission, history, edits>>

RenderError ==
  /\ rpc = "next" /\ rnext <= Count /\ ~Renderable(At)
  /\ EndRender
  /\ UNCHANGED <<files, admission, swapped, calm, verified, edits>>

\* canonical_write writes in place: the old render goes before the new one is there.
Truncate ==
  /\ rpc = "write" /\ rpc' = "writing"
  /\ render' = [render EXCEPT ![At] = Torn]
  /\ UNCHANGED <<tree, archives, metadata, contract, rmode, rnext, pins, content, entries,
                 admission, history, edits>>

CanonicalWrite ==
  /\ rpc = "writing" /\ rpc' = "hash"
  /\ render' = [render EXCEPT ![At] = content]
  /\ UNCHANGED <<tree, archives, metadata, contract, rmode, rnext, pins, content, entries,
                 admission, history, edits>>

\* tracked_source and tracked_tree read the files again, after the render.
ComponentEntry ==
  /\ rpc = "hash" /\ rpc' = "next"
  /\ rnext' = rnext + 1
  /\ entries' = [c \in Done \cup {At} |->
       IF c = At THEN [render |-> content, source |-> Of(Reads[c]), chart |-> pins]
                 ELSE entries[c]]
  /\ content' = None
  /\ UNCHANGED <<files, rmode, pins, admission, history, edits>>

Publish ==
  /\ EndRender
  /\ metadata' = entries /\ Mark("metadata", ~edited)
  /\ UNCHANGED <<tree, archives, render, contract, admission, swapped, verified, edits>>

Report == rpc = "next" /\ rnext = Count + 1 /\ rmode = "report" /\ Publish

\* Mutant: source_inputs is not among the compared fields.
SameRenders ==
  contract # None /\ \A c \in Components : entries[c].render = contract.entries[c].render

\* exact_fields of every component
SameEntries == contract # None /\ entries = contract.entries

VerifyContract ==
  /\ rpc = "next" /\ rnext = Count + 1 /\ rmode = "verify"
  /\ EndRender
  /\ verified' = (SameEntries /\ (verified \/ ~edited))
  /\ UNCHANGED <<files, admission, swapped, calm, edits>>

\* The program or helm is killed, or the disk is full, at any step.
RenderFails ==
  /\ rpc # "idle" /\ EndRender
  /\ UNCHANGED <<files, admission, swapped, calm, verified, edits>>

Renderer ==
  \/ \E mode \in {"report", "verify"} : StartRender(mode)
  \/ RenderComponent \/ RenderError \/ Truncate \/ CanonicalWrite \/ ComponentEntry
  \/ Report \/ VerifyContract \/ RenderFails

------------------------------------------------------------------------------
\* capacity-admission.py

\* main and the head of evaluate, over a contract that is ready; --projection-only
\* does the same without the candidate evidence.
StartAdmission ==
  /\ apc = "idle" /\ contract # None
  /\ apc' = "evidence"
  /\ held' = contract /\ anext' = 1
  /\ Mark("held", "contract" \in calm \/ verified)
  /\ UNCHANGED <<files, renderer, apins, loaded, seen, used, edited, swapped, verified, edits>>

EvidenceOrder == <<Baseline, Candidate>>
Item == EvidenceOrder[anext]

\* The process ends; what it held is gone.
EndAdmission ==
  /\ apc' = "idle" /\ anext' = 1 /\ held' = None /\ apins' = None
  /\ loaded' = [e \in Evidence |-> None] /\ swapped' = {} /\ calm' = calm \ {"held"}
  /\ seen' = [c \in Components |-> None] /\ used' = [c \in Components |-> None]
  /\ UNCHANGED <<files, renderer, edited, verified, edits>>

Refuse(step) == apc = step /\ EndAdmission

\* _bound_input takes the checksum of the file ...
HashEvidence ==
  /\ apc = "evidence" /\ tree[Item] = held.evidence[Item]
  /\ apc' = "load"
  /\ UNCHANGED <<files, renderer, held, anext, apins, loaded, seen, used, history, edits>>

RefuseEvidence == Refuse("evidence") /\ tree[Item] # held.evidence[Item]

\* ... and _load_one reads it again.
LoadEvidence ==
  /\ apc = "load"
  /\ loaded' = [loaded EXCEPT ![Item] = tree[Item]]
  /\ IF anext = Len(EvidenceOrder) THEN apc' = "lock" /\ anext' = 1
                                   ELSE apc' = "evidence" /\ anext' = anext + 1
  /\ UNCHANGED <<files, renderer, held, apins, seen, used, history, edits>>

\* The contract states the figures of the evidence e that was read.
Stated(e) == held.figures[e] = Figures[loaded[e]]

\* Mutant: the baseline and provenance of the contract are not compared.
BaselineUncompared == TRUE

\* baseline and baseline_provenance, once both pieces of evidence are there
BaselineMatches == Stated(Baseline)

RefuseBaseline == Refuse("lock") /\ ~BaselineMatches

\* evaluate loads the lock once.
ReadLock ==
  /\ apc = "lock" /\ BaselineMatches
  /\ apc' = "sources" /\ apins' = tree[Lock]
  /\ UNCHANGED <<files, renderer, held, anext, loaded, seen, used, history, edits>>

This == AdmitOrder[anext]
ChartLocked(c) == Lock \in Reads[c] => held.entries[c].chart = apins

\* Mutant: only the chart of a component is compared.
SourcesUnread(c) == ChartLocked(c)

\* The chart checksum is the lock's and every source file has its checksum.
SourcesMatch(c) == ChartLocked(c) /\ held.entries[c].source = Of(Reads[c])

CheckSources ==
  /\ apc = "sources" /\ SourcesMatch(This)
  /\ apc' = "render"
  /\ seen' = [seen EXCEPT ![This] = Of(Reads[This])]
  /\ UNCHANGED <<files, renderer, held, anext, apins, loaded, used, history, edits>>

RefuseSources == Refuse("sources") /\ ~SourcesMatch(This)

\* _load_render: one read, whose checksum is the contract's.
RenderMatches(c) == render[c] = held.entries[c].render

CheckRender ==
  /\ apc = "render" /\ RenderMatches(This)
  /\ used' = [used EXCEPT ![This] = render[This]]
  /\ anext' = anext + 1
  /\ apc' = IF anext = Count THEN "projection" ELSE "sources"
  /\ UNCHANGED <<files, renderer, held, apins, loaded, seen, history, edits>>

RefuseRender == Refuse("render") /\ ~RenderMatches(This)

\* projection_result: its candidate_ figures are those of the evidence that was read.
ProjectionMatches == Stated(Candidate)

CheckProjection ==
  /\ apc = "projection" /\ ProjectionMatches
  /\ apc' = "pass"
  /\ UNCHANGED <<files, renderer, held, anext, apins, loaded, seen, used, history, edits>>

RefuseProjection == Refuse("projection") /\ ~ProjectionMatches

\* The capacity of the component, or of all of them, is not enough, or the rest of
\* projection_result, a function of the renders and of the evidence, is another.
Reject ==
  \/ Refuse("render") /\ RenderMatches(This)
  \/ Refuse("projection") /\ ProjectionMatches

\* The report is printed.
Admitted == apc = "pass" /\ EndAdmission

Admission ==
  \/ StartAdmission
  \/ HashEvidence \/ RefuseEvidence \/ LoadEvidence \/ RefuseBaseline
  \/ ReadLock \/ CheckSources \/ RefuseSources \/ CheckRender \/ RefuseRender
  \/ CheckProjection \/ RefuseProjection \/ Reject \/ Admitted

------------------------------------------------------------------------------
\* The operator and other programs

\* A tracked file or an evidence file gets another content.
Edit(f, v) ==
  /\ edits < MaxEdits /\ tree[f] # v
  /\ tree' = [tree EXCEPT ![f] = v]
  /\ edited' = (rpc # "idle")
  /\ swapped' = IF apc = "load" /\ f = Item THEN swapped \cup {f} ELSE swapped
  /\ edits' = edits + 1
  /\ UNCHANGED <<archives, render, metadata, contract, renderer, admission, calm, verified>>

\* bootstrap_charts.py fetches the charts of the present lock.
BootstrapCharts ==
  /\ tree[Lock] \notin archives
  /\ archives' = archives \cup {tree[Lock]}
  /\ UNCHANGED <<tree, render, metadata, contract, renderer, admission, history, edits>>

\* The operator copies a report, and the checksums and figures of the evidence, into
\* the contract.  With null for the candidate's, as --projection-only wants it, a
\* contract admits nothing.
RecordContract ==
  /\ metadata # None
  /\ contract' = [entries |-> metadata, evidence |-> Of(Evidence),
                  figures |-> [e \in Evidence |-> Figures[tree[e]]]]
  /\ Mark("contract", "metadata" \in calm)
  /\ verified' = FALSE
  /\ UNCHANGED <<tree, archives, render, metadata, renderer, admission, edited, swapped, edits>>

Operator ==
  \/ \E f \in Files : \E v \in Variants[f] : Edit(f, v)
  \/ BootstrapCharts
  \/ RecordContract

Next == Renderer \/ Admission \/ Operator

Spec == Init /\ [][Next]_vars

------------------------------------------------------------------------------
\* Properties

(***************************************************************************)
(* An admission that ends well used, for every component, a render of the  *)
(* very sources and chart it compared, whatever happened to files and      *)
(* renders while it ran, and whether or not a render run was half done:    *)
(* provided the contract came from a report no edit fell into, or passed   *)
(* --verify-contract in such a run.  tracked_source (105) hashes a file    *)
(* after the render was made of an earlier read, so without that an entry  *)
(* may bind a render to sources it was not made from.                      *)
(***************************************************************************)
AdmissionIsCurrent ==
  apc = "pass" /\ "held" \in calm =>
    \A c \in Components : seen[c] # None /\ used[c] = seen[c]

(***************************************************************************)
(* --verify-contract (476-499) finds such an entry: a contract that passed *)
(* it, with no edit during the run, binds every render to its own sources, *)
(* though the report it was copied from may not have.                      *)
(***************************************************************************)
VerifyReproduces ==
  verified => \A c \in Components :
    /\ contract.entries[c].render = contract.entries[c].source
    /\ Lock \in Reads[c] => contract.entries[c].source[Lock] = contract.entries[c].chart

(***************************************************************************)
(* _bound_input (223, 226) reads evidence once for the checksum and again  *)
(* for its content.  What an admission computed with has the figures its   *)
(* contract states, of both pieces, whatever was replaced and when: the    *)
(* baseline's are compared at 768-785, the candidate's in projection_result*)
(* (974).  It is the very content of the contract unless it was replaced   *)
(* between its two reads; then labels, taints and the distribution over    *)
(* the nodes, which decide placement, may be others.                       *)
(***************************************************************************)
EvidenceIsBound ==
  apc = "pass" => \A e \in Evidence :
    /\ Figures[loaded[e]] = held.figures[e]
    /\ loaded[e] = held.evidence[e] \/ e \in swapped
================================================================================
