------------------------ MODULE RknnNanoTrackProofs ------------------------
(***************************************************************************)
(* rknnnanotrack for every set of frame sizes, ROI strings, directories    *)
(* and setting strings.  First the element that takes a frame in one step: *)
(* its type, its inductive invariant, and that loading its models late it  *)
(* implements the same contract.  Then the inside of a frame: it implements *)
(* that element, and so inherits all that is proved of it; contexts,       *)
(* memories, image buffers and features are as the networks need them.     *)
(***************************************************************************)
EXTENDS RknnTracker, TLAPS

\* Every report a handler can make is one of Reports.
LEMMA ReportTypes ==
  /\ Nothing \in Reports /\ Disturbed \in Reports
  /\ \A d \in BOOLEAN : Passed(d) \in Reports /\ Error(d) \in Reports
  /\ \A t \in Template \cup {NoTemplate}, d \in BOOLEAN :
        Initialized(t, d) \in Reports /\ Tracked(t, d) \in Reports
BY DEF Reports, Report, Nothing, Disturbed, Passed, Error, Initialized, Tracked

\* A Tracker made by the first frame that needs one is that of the settings.
LEMMA LoadedTracker ==
  ASSUME TypeOK, LoadTracker
  PROVE  /\ tracker' \in Trackers
         /\ tracker' # NoTracker
         /\ tracker # NoTracker => tracker' = tracker
         /\ tracker = NoTracker => tracker' = Wanted
<1>1. CASE tracker # NoTracker
  BY <1>1 DEF LoadTracker, TypeOK
<1>2. CASE tracker = NoTracker
  <2>1. tracker' = Wanted /\ models_dir \in Dirs
    BY <1>2 DEF LoadTracker, TypeOK
  <2>2. Wanted \in Trackers
    BY <2>1 DEF Wanted, Trackers, TypeOK
  <2>3. Wanted.dir # NoTracker.dir
    BY <2>1, SettingsAssumption DEF Wanted, NoTracker
  <2>4. QED
    BY <1>2, <2>1, <2>2, <2>3
<1>3. QED
  BY <1>1, <1>2

\* The same, or no Tracker was needed.
LEMMA KeptTracker ==
  ASSUME TypeOK, UNCHANGED tracker \/ LoadTracker
  PROVE  tracker' \in Trackers \cup {NoTracker}
BY LoadedTracker DEF TypeOK

\* The handlers only ever store values of the right kind.
THEOREM TypeCorrect == Spec => []TypeOK
<1> USE PadAssumption, SettingsAssumption, ReportTypes
<1>1. Init => TypeOK
  BY DEF Init, PadInit, TypeOK, PadTypeOK, Stages
<1>2. ASSUME TypeOK, [Next]_vars
      PROVE  TypeOK'
  <2> USE DEF TypeOK, PadTypeOK, Stages, settings
  <2>1. ASSUME NEW b \in BOOLEAN, SetEnabled(b) PROVE TypeOK'
    BY <1>2, <2>1 DEF SetEnabled, padVars
  <2>2. ASSUME NEW r \in Rois, SetRoi(r) PROVE TypeOK'
    BY <1>2, <2>2 DEF SetRoi, padVars
  <2>3. ASSUME NEW d \in Dirs \cup {NoDir}, NEW p \in Precisions, NEW z \in Resizes,
               SetSetting(d, p, z)
        PROVE  TypeOK'
    BY <1>2, <2>3 DEF SetSetting, padVars
  <2>4. CASE Start
    BY <1>2, <2>4 DEF Start, PadActivate
  <2>5. CASE StartFails
    BY <1>2, <2>5 DEF StartFails, PadActivateFails, padVars, elementVars
  <2>6. CASE Stop
    BY <1>2, <2>6 DEF Stop, PadDeactivate
  <2>7. ASSUME NEW s \in Sizes, SetCaps(s) PROVE TypeOK'
    BY <1>2, <2>7 DEF SetCaps, PadCaps
  <2>8. CASE RefuseCaps
    BY <1>2, <2>8 DEF RefuseCaps, PadCaps, elementVars
  <2>9. ASSUME NEW event \in Events, SinkEvent(event) PROVE TypeOK'
    BY <1>2, <2>9 DEF SinkEvent, PadEvent, Events
  <2>10. ASSUME NEW discont \in BOOLEAN, TransformIp(discont) PROVE TypeOK'
    <3>1. tracker' \in Trackers \cup {NoTracker}
      BY <1>2, <2>10, KeptTracker
         DEF TransformIp, Bypass, Capture, Track, FrameFails
    <3>2. template' \in Template \cup {NoTemplate}
      BY <1>2, <2>10 DEF TransformIp, Bypass, Capture, Track, FrameFails, Template
    <3>3. out' \in Reports
      BY <1>2, <2>10, <3>2 DEF TransformIp, Bypass, Capture, Track, FrameFails
    <3>4. reset' \in BOOLEAN
      BY <1>2, <2>10 DEF TransformIp, Bypass, Capture, Track, FrameFails
    <3>5. QED
      BY <1>2, <2>10, <3>1, <3>2, <3>3, <3>4 DEF TransformIp, PadBuffer, padVars
  <2>11. CASE UNCHANGED vars
    BY <1>2, <2>11 DEF vars, padVars, elementVars
  <2>12. QED
    BY <1>2, <2>1, <2>2, <2>3, <2>4, <2>5, <2>6, <2>7, <2>8, <2>9, <2>10, <2>11
       DEF Next, OneSetting
<1>3. QED
  BY <1>1, <1>2, PTL DEF Spec

-----------------------------------------------------------------------------
\* The initial state satisfies the inductive invariant.
LEMMA InitIInv == Init => IInv
BY DEF Init, PadInit, IInv, StartedWithPad, RunsWithValidSettings,
       TrackerMatchesSettings, TemplateFresh

\* Every step preserves it.  That a late Tracker is the wanted one needs that
\* settings cannot change while started, and that a frame finds the element
\* started needs that the pad and the element agree.
LEMMA StepIInv == TypeOK /\ IInv /\ [Next]_vars => IInv'
<1> SUFFICES ASSUME TypeOK, IInv, [Next]_vars
             PROVE  IInv'
  OBVIOUS
<1> USE DEF IInv, StartedWithPad, RunsWithValidSettings, TrackerMatchesSettings,
            TemplateFresh, SettingsValid, Wanted, settings
<1>1. ASSUME NEW b \in BOOLEAN, SetEnabled(b) PROVE IInv'
  BY <1>1 DEF SetEnabled, padVars
<1>2. ASSUME NEW r \in Rois, SetRoi(r) PROVE IInv'
  BY <1>2 DEF SetRoi, padVars
<1>3. ASSUME NEW d \in Dirs \cup {NoDir}, NEW p \in Precisions, NEW z \in Resizes,
             SetSetting(d, p, z)
      PROVE  IInv'
  BY <1>3 DEF SetSetting, padVars
<1>4. CASE Start
  BY <1>4 DEF Start, PadActivate
<1>5. CASE StartFails
  BY <1>5 DEF StartFails, PadActivateFails, padVars, elementVars
<1>6. CASE Stop
  BY <1>6 DEF Stop, PadDeactivate
<1>7. ASSUME NEW s \in Sizes, SetCaps(s) PROVE IInv'
  BY <1>7 DEF SetCaps, PadCaps, TypeOK
<1>8. CASE RefuseCaps
  BY <1>8 DEF RefuseCaps, PadCaps, elementVars
<1>9. ASSUME NEW event \in Events, SinkEvent(event) PROVE IInv'
  BY <1>9 DEF SinkEvent, PadEvent, Events
<1>10. ASSUME NEW discont \in BOOLEAN, TransformIp(discont) PROVE IInv'
  <2> USE <1>10 DEF TransformIp, PadBuffer, padVars
  <2>1. CASE Bypass(discont)
    BY <2>1 DEF Bypass, TypeOK
  <2>2. CASE Capture(discont)
    BY <2>2, LoadedTracker DEF Capture
  <2>3. CASE Track(discont)
    BY <2>3, LoadedTracker DEF Track
  <2>4. CASE FrameFails(discont)
    BY <2>4, LoadedTracker DEF FrameFails, TypeOK
  <2>5. QED
    BY <2>1, <2>2, <2>3, <2>4
<1>11. CASE UNCHANGED vars
  BY <1>11 DEF vars, padVars, elementVars
<1>12. QED
  BY <1>1, <1>2, <1>3, <1>4, <1>5, <1>6, <1>7, <1>8, <1>9, <1>10, <1>11
     DEF Next, OneSetting, TypeOK

\* The inductive invariant holds in every reachable state.
THEOREM Invariance == Spec => []IInv
BY InitIInv, StepIInv, TypeCorrect, PTL DEF Spec

\* A Tracker in memory is the one the accepted settings ask for.
THEOREM SettingsLoadedLate == Spec => []TrackerMatchesSettings
<1>1. IInv => TrackerMatchesSettings
  BY DEF IInv
<1>2. QED
  BY <1>1, Invariance, PTL

\* A running element has settings that start() accepts.
THEOREM SettingsStayValid == Spec => []RunsWithValidSettings
<1>1. IInv => RunsWithValidSettings
  BY DEF IInv
<1>2. QED
  BY <1>1, Invariance, PTL

\* While reset is down the template matches the stored ROI and the frame size.
THEOREM FreshTemplate == Spec => []TemplateFresh
<1>1. IInv => TemplateFresh
  BY DEF IInv
<1>2. QED
  BY <1>1, Invariance, PTL

-----------------------------------------------------------------------------
\* The initial state is an initial state of the contract.
LEMMA InitContract == Init => Contract!Init
BY DEF Init, PadInit, Contract!Init, Contract!None, Contract!Silent,
       Contract!Report, Stale, NoTemplate, Nothing, Report

\* Every step of the element is a step of the contract, or leaves what the
\* contract speaks of unchanged.
LEMMA StepContract ==
  IInv /\ [Next]_vars => [Contract!Next]_(Contract!contractVars)
<1> SUFFICES ASSUME IInv, [Next]_vars
             PROVE  Contract!Next \/ UNCHANGED Contract!contractVars
  BY DEF Contract!contractVars
<1> USE DEF Contract!None, Contract!Silent, Contract!Disturbed, Contract!Report,
            NoTemplate, Nothing, Disturbed, Report, Stale
<1>1. ASSUME NEW b \in BOOLEAN, SetEnabled(b) PROVE Contract!Next
  BY <1>1 DEF SetEnabled, padVars, Contract!Next, Contract!SetEnabled
<1>2. ASSUME NEW r \in Rois, SetRoi(r) PROVE Contract!Next
  BY <1>2 DEF SetRoi, padVars, Contract!Next, Contract!AssignRoi
<1>3. CASE OneSetting
  BY <1>3 DEF OneSetting, SetSetting, padVars, Contract!Next, Contract!Idle
<1>4. CASE Start
  BY <1>4 DEF Start, PadActivate, Contract!Next, Contract!Interrupt
<1>5. CASE StartFails
  BY <1>5 DEF StartFails, PadActivateFails, padVars, elementVars, Contract!Next,
              Contract!Idle
<1>6. CASE Stop
  BY <1>6 DEF Stop, PadDeactivate, Contract!Next, Contract!Interrupt
<1>7. ASSUME NEW s \in Sizes, SetCaps(s) PROVE Contract!Next
  BY <1>7 DEF SetCaps, PadCaps, Contract!Next, Contract!Negotiate
<1>8. CASE RefuseCaps
  BY <1>8 DEF RefuseCaps, PadCaps, elementVars, Contract!Next, Contract!Idle
<1>9. ASSUME NEW event \in Events, SinkEvent(event) PROVE Contract!Next
  BY <1>9 DEF SinkEvent, PadEvent, Events, Contract!Next, Contract!Interrupt
<1>10. ASSUME NEW discont \in BOOLEAN, TransformIp(discont) PROVE Contract!Next
  <2> USE <1>10 DEF TransformIp, PadBuffer, padVars
  <2>1. CASE Bypass(discont)
    BY <2>1 DEF Bypass, Passed, Contract!Next, Contract!Bypass
  <2>2. CASE Capture(discont)
    <3>1. Contract!Capture(discont)
      BY <2>2 DEF Capture, Initialized, Error, Contract!Capture, Contract!Failed
    <3>2. QED
      BY <3>1 DEF Contract!Next
  <2>3. CASE Track(discont)
    <3>1. Contract!Follow
      BY <2>3 DEF Track, Tracked, Error, Contract!Follow, Contract!Failed
    <3>2. QED
      BY <3>1 DEF Contract!Next
  <2>4. CASE FrameFails(discont)
    <3>1. Contract!Fail(discont)
      BY <2>4 DEF FrameFails, Error, Contract!Fail, Contract!Failed
    <3>2. QED
      BY <3>1 DEF Contract!Next
  <2>5. QED
    BY <2>1, <2>2, <2>3, <2>4
<1>11. CASE UNCHANGED vars
  BY <1>11 DEF vars, padVars, elementVars, Contract!contractVars
<1>12. QED
  BY <1>1, <1>2, <1>3, <1>4, <1>5, <1>6, <1>7, <1>8, <1>9, <1>10, <1>11 DEF Next

\* rknnnanotrack implements the single-ROI contract.
THEOREM Implements == Spec => ImplementsContract
BY InitContract, StepContract, Invariance, PTL DEF Spec, ImplementsContract, Contract!Spec

-----------------------------------------------------------------------------
\* Every step of the frame keeps its flag boolean.
LEMMA GapStep == gap \in BOOLEAN /\ [TrackerNext]_allVars => (gap \in BOOLEAN)'
<1> SUFFICES ASSUME gap \in BOOLEAN, [TrackerNext]_allVars
             PROVE  gap' \in BOOLEAN
  OBVIOUS
<1>1. ASSUME NEW discont \in BOOLEAN, FrameBegins(discont) PROVE gap' \in BOOLEAN
  BY <1>1 DEF FrameBegins
<1>2. CASE ShortHandler \/ Construct \/ ConstructFails \/ Constructed \/ Destruct
           \/ StopBegins \/ Stopped
  BY <1>2 DEF ShortHandler, Construct, ConstructFails, Constructed, Destruct,
              StopBegins, Stopped, frameVars
<1>3. CASE CropBegins \/ Resize \/ CpuCrop \/ Run \/ RunHead \/ FrameEnds \/ CallFails
           \/ BuildFailed \/ CacheWritesBack
  BY <1>3 DEF CropBegins, Resize, CpuCrop, Run, RunHead, FrameEnds, CallFails,
              BuildFailed, CacheWritesBack
<1>4. CASE UNCHANGED allVars
  BY <1>4 DEF allVars, frameVars
<1>5. QED
  BY <1>1, <1>2, <1>3, <1>4 DEF TrackerNext

\* A step inside a frame or a stop is a stutter of the element, the last one
\* is its transform_ip or stop, and the other handlers are its own.
LEMMA StepElement == gap \in BOOLEAN /\ [TrackerNext]_allVars => [Next]_vars
<1> SUFFICES ASSUME gap \in BOOLEAN, [TrackerNext]_allVars
             PROVE  Next \/ UNCHANGED vars
  OBVIOUS
<1>1. CASE ShortHandler
  <2>1. CASE \E discont \in BOOLEAN : TransformIp(discont)
    BY <2>1 DEF Next
  <2>2. CASE /\ PadBuffer
             /\ \E discont \in BOOLEAN : Bypass(discont) \/ FrameRefused(discont)
             /\ UNCHANGED <<enabled, started, roi, settings, info>>
    BY <2>2 DEF Next, TransformIp, FrameRefused
  <2>3. QED
    BY <1>1, <2>2 DEF ShortHandler, Next
<1>2. ASSUME NEW discont \in BOOLEAN, FrameBegins(discont) PROVE UNCHANGED vars
  BY <1>2 DEF FrameBegins, PadBuffer, vars
<1>3. CASE Construct \/ ConstructFails \/ Constructed \/ Destruct \/ StopBegins
  BY <1>3 DEF Construct, ConstructFails, Constructed, Destruct, StopBegins, handlerVars, vars
<1>4. CASE Stopped
  BY <1>4 DEF Stopped, Next
<1>5. CASE CropBegins \/ Resize \/ CpuCrop \/ Run \/ RunHead \/ CacheWritesBack
  BY <1>5 DEF CropBegins, Resize, CpuCrop, Run, RunHead, CacheWritesBack, handlerVars, vars
<1>6. CASE FrameEnds
  <2>1. TransformIp(gap)
    BY <1>6 DEF FrameEnds, TransformIp
  <2>2. QED
    BY <2>1 DEF Next
<1>7. CASE CallFails
  <2>1. TransformIp(gap)
    BY <1>7 DEF CallFails, TransformIp
  <2>2. QED
    BY <2>1 DEF Next
<1>8. CASE BuildFailed
  <2>1. TransformIp(gap)
    BY <1>8 DEF BuildFailed, FrameRefused, TransformIp
  <2>2. QED
    BY <2>1 DEF Next
<1>9. CASE UNCHANGED allVars
  BY <1>9 DEF allVars, handlerVars, vars
<1>10. QED
  BY <1>1, <1>2, <1>3, <1>4, <1>5, <1>6, <1>7, <1>8, <1>9 DEF TrackerNext

\* However many calls a frame or a stop takes, from outside it is one step of
\* the element.
LEMMA TrackerImplementsElement == TrackerSpec => Spec
<1>1. TrackerInit => Init /\ gap \in BOOLEAN
  BY DEF TrackerInit
<1>2. QED
  BY <1>1, GapStep, StepElement, PTL DEF TrackerSpec, Spec

\* So the element with the inside of its frames implements the single-ROI
\* contract as well.
THEOREM TrackerImplementsContract == TrackerSpec => ImplementsContract
BY TrackerImplementsElement, Implements, PTL

\* What is proved of the element holds of it.
LEMMA ElementInvariants == TrackerSpec => [](TypeOK /\ IInv)
BY TrackerImplementsElement, TypeCorrect, Invariance, PTL

\* A Tracker that is made call by call is still that of the accepted settings,
\* and its template that of the ROI and the frame size.
THEOREM TrackerKeepsInvariants ==
  TrackerSpec => [](TrackerMatchesSettings /\ RunsWithValidSettings /\ TemplateFresh)
<1>1. IInv => TrackerMatchesSettings /\ RunsWithValidSettings /\ TemplateFresh
  BY DEF IInv
<1>2. QED
  BY <1>1, ElementInvariants, PTL

-----------------------------------------------------------------------------
\* The models are made first, in the order of their declaration.
LEMMA Ranks ==
  /\ \A m \in Models : Creation[m] \in 1..3 /\ Declared[m] = Creation[m]
  /\ \A o \in Memories : Creation[o] \in 4..11
  /\ \A o, p \in Objects : Creation[o] = Creation[p] => o = p
  /\ Declared["head"] = 3
BY DEF Objects, Models, Memories, Owner, Creation, Declared

\* A memory is made after its context and after the memory it is imported
\* from; only the head imports.
LEMMA Origins ==
  /\ \A o \in Memories : Owner[o] \in Models /\ Creation[Owner[o]] < Creation[o]
  /\ \A o \in DOMAIN Source : /\ o \in Memories
                              /\ Owner[o] = "head"
                              /\ Source[o] \in Memories
                              /\ Owner[Source[o]] # "head"
                              /\ Creation[Source[o]] < Creation[o]
BY DEF Memories, Models, Source, Owner, Creation, Declared

\* A context, a memory and no memory are different things.
LEMMA Apart == Models \cap Memories = {} /\ NoMemory \notin Objects /\ "head" \in Models
BY DEF Models, Memories, Owner, Objects, NoMemory

\* What the program knows of is what exists.
Known == live = ctx \cup owned \cup ({held} \ {NoMemory})

\* Each call of the constructor leaves what was made in order.
LEMMA BuildingKept ==
  ASSUME MemoryTypeOK, Known, Building,
         \/ \E m \in Models : Load(m) \/ Query(m)
         \/ \E o \in Memories : CreateMemory(o) \/ Bind(o)
         \/ Own
  PROVE  Known' /\ Building'
<1> USE Apart DEF MemoryTypeOK, Known, Building, Objects
<1>0. /\ made \in Nat
      /\ \A o \in Objects : Creation[o] \in Nat
  BY Ranks
<1>1. ASSUME NEW m \in Models, Load(m) PROVE Known' /\ Building'
  <2>1. m \notin built /\ held = NoMemory
    BY <1>0, <1>1, Ranks DEF Load, Due
  <2>2. QED
    BY <1>1, <2>1 DEF Load, Due
<1>2. ASSUME NEW m \in Models, Query(m) PROVE Known' /\ Building'
  <2>1. m \notin built /\ held = NoMemory
    BY <1>0, <1>2, Ranks DEF Query, Due
  <2>2. Known' /\ held' = NoMemory
    BY <1>2, <2>1 DEF Query
  <2>3. built' = {n \in Models : Creation[n] <= made'}
    BY <1>0, <1>2, Ranks DEF Query, Due
  <2>4. ctx' = built'
    BY <1>0, <1>2, Ranks DEF Query, Due
  <2>5. \A o \in Memories : (Creation[o] <= made') = (Creation[o] <= made)
    BY <1>0, <1>2, Ranks DEF Query, Due
  <2>6. \A o \in owned : Creation[o] <= made'
    BY <1>0, <1>2, Ranks DEF Query, Due
  <2>7. QED
    BY <1>2, <2>2, <2>3, <2>4, <2>5, <2>6 DEF Query
<1>3. ASSUME NEW o \in Memories, CreateMemory(o) PROVE Known' /\ Building'
  <2>1. ctx = built
    BY <1>0, <1>3, Ranks DEF CreateMemory, Due
  <2>2. \A p \in owned : Creation[p] <= made
    BY <1>0, <1>3, Ranks DEF CreateMemory, Due
  <2>3. QED
    <3>1. /\ Due(o) /\ held = NoMemory /\ o \notin owned /\ o # NoMemory
          /\ live' = live \cup {o} /\ held' = o /\ UNCHANGED <<ctx, owned, built, made>>
      BY <1>3 DEF CreateMemory
    <3>2. Known'
      BY <3>1
    <3>3. Building'
      BY <2>1, <2>2, <3>1 DEF Due
    <3>4. QED
      BY <3>2, <3>3
<1>4. ASSUME NEW o \in Memories, Bind(o) PROVE Known' /\ Building'
  <2>1. Due(o) /\ o \in owned /\ made' = made + 1 /\ UNCHANGED <<live, ctx, owned, held, built>>
    BY <1>4 DEF Bind
  <2>2. held = NoMemory /\ ctx = built
    BY <1>0, <2>1, Ranks DEF Due
  <2>3. built = {n \in Models : Creation[n] <= made'}
    BY <1>0, <2>1, Ranks DEF Due
  <2>4. {p \in Memories : Creation[p] <= made'} \subseteq owned
    BY <1>0, <2>1, Ranks DEF Due
  <2>5. \A p \in owned : Creation[p] <= made'
    BY <1>0, <2>1, Ranks DEF Due
  <2>6. QED
    BY <2>1, <2>2, <2>3, <2>4, <2>5
<1>5. CASE Own
  <2>1. Due(held) /\ held \in Memories /\ owned' = owned \cup {held} /\ held' = NoMemory
        /\ UNCHANGED <<live, ctx, built, made>>
    BY <1>5 DEF Own
  <2>2. \A p \in owned : Creation[p] <= made
    BY <1>5 DEF Own
  <2>3. QED
    BY <2>1, <2>2 DEF Due
<1>6. QED
  BY <1>1, <1>2, <1>3, <1>4, <1>5

\* Wherever the constructor fails, the members that were built account for
\* all that is left.
LEMMA FailureAccounted ==
  ASSUME MemoryTypeOK, Known, Building,
         (\E m \in Models : QueryFails(m)) \/ OwnFails \/ ElseFails
  PROVE  Known' /\ Dismantling' /\ made' = 0
<1> USE Apart DEF MemoryTypeOK, Known, Objects
<1>0. /\ made \in Nat
      /\ \A o \in Objects : Creation[o] \in Nat
  BY Ranks
<1>1. /\ \A o \in owned : Owner[o] \in built
      /\ \A o \in owned \cap DOMAIN Source : Source[o] \in owned
  <2>1. \A o \in owned : Creation[o] <= made + 1
    BY <1>0 DEF Building, Due
  <2>2. QED
    BY <1>0, <2>1, Origins DEF Building
<1>2. ASSUME NEW m \in Models, QueryFails(m) PROVE Known' /\ Dismantling' /\ made' = 0
  <2>1. m \notin built /\ held = NoMemory /\ m \notin owned
    BY <1>0, <1>2, Ranks DEF QueryFails, Due, Building
  <2>2. ctx \ {m} = built
    BY <1>0, <1>2, <2>1, Ranks DEF QueryFails, Due, Building
  <2>3. QED
    BY <1>1, <1>2, <2>1, <2>2 DEF QueryFails, Dismantling
<1>3. CASE OwnFails
  <2>1. ctx = built /\ held \notin owned /\ held \notin ctx
    BY <1>3 DEF OwnFails, Building
  <2>2. QED
    BY <1>1, <1>3, <2>1 DEF OwnFails, Dismantling
<1>4. CASE ElseFails
  BY <1>1, <1>4 DEF ElseFails, Dismantling
<1>5. QED
  BY <1>2, <1>3, <1>4

\* A destructor takes away what nothing left depends on.
LEMMA DismantlingKept ==
  ASSUME MemoryTypeOK, Known, Dismantling,
         (\E o \in Memories : ReleaseMemory(o)) \/ (\E m \in Models : ReleaseContext(m))
  PROVE  Known' /\ Dismantling' /\ made' = made
<1> USE Apart DEF MemoryTypeOK, Known, Objects
<1>1. ASSUME NEW o \in Memories, ReleaseMemory(o) PROVE Known' /\ Dismantling' /\ made' = made
  <2>1. Known' /\ made' = made /\ owned' = owned \ {o} /\ UNCHANGED <<ctx, held, built>>
    BY <1>1 DEF ReleaseMemory, Dismantling
  <2>2. \A p \in owned' \cap DOMAIN Source : Source[p] # o
    BY <1>1, <2>1, Origins, Ranks DEF ReleaseMemory, Dying, Dismantling
  <2>3. QED
    BY <2>1, <2>2 DEF Dismantling
<1>2. ASSUME NEW m \in Models, ReleaseContext(m) PROVE Known' /\ Dismantling' /\ made' = made
  BY <1>2 DEF ReleaseContext, Dismantling
<1>3. QED
  BY <1>1, <1>2

\* Steps that touch no memory.
LEMMA MemoryStep ==
  ASSUME TrackerNext
  PROVE  UNCHANGED memoryVars \/ Construct \/ ConstructFails \/ Constructed \/ Destruct
BY DEF TrackerNext, ShortHandler, FrameBegins, StopBegins,
       Stopped, CropBegins, Resize, CpuCrop, Run, RunHead, FrameEnds, CallFails,
       BuildFailed, CacheWritesBack, frameVars

\* The fields and locals keep their types.
LEMMA StepMemoryType == MemoryTypeOK /\ [TrackerNext]_allVars => MemoryTypeOK'
<1> SUFFICES ASSUME MemoryTypeOK, [TrackerNext]_allVars
             PROVE  MemoryTypeOK'
  OBVIOUS
<1> USE DEF MemoryTypeOK, Objects
<1>1. CASE Construct
  BY <1>1, Ranks DEF Construct, Load, Query, CreateMemory, Own, Bind, Due
<1>2. CASE ConstructFails
  BY <1>2 DEF ConstructFails, QueryFails, OwnFails, ElseFails
<1>3. CASE Constructed
  BY <1>3 DEF Constructed
<1>4. CASE Destruct
  BY <1>4 DEF Destruct, ReleaseMemory, ReleaseContext
<1>5. CASE UNCHANGED memoryVars
  BY <1>5 DEF memoryVars
<1>6. CASE UNCHANGED allVars
  BY <1>5, <1>6 DEF allVars, frameVars
<1>7. QED
  BY <1>1, <1>2, <1>3, <1>4, <1>5, <1>6, MemoryStep

\* What the fields know of follows where the holder of the mutex is.
LEMMA StepHolding ==
  TypeOK /\ MemoryTypeOK /\ Holding /\ [TrackerNext]_allVars => Holding'
<1> SUFFICES ASSUME TypeOK, MemoryTypeOK, Holding, [TrackerNext]_allVars
             PROVE  Holding'
  OBVIOUS
<1> USE DEF Holding, FrameSteps, Goto
<1>0. ASSUME UNCHANGED memoryVars
      PROVE  /\ (live = ctx \cup owned \cup ({held} \ {NoMemory}))'
             /\ Building' = Building /\ Dismantling' = Dismantling
             /\ Complete' = Complete /\ Bare' = Bare
             /\ made' = made
  BY <1>0 DEF memoryVars, Building, Dismantling, Complete, Bare, Due
<1>1. CASE ShortHandler
  <2>1. step = "idle" /\ step' = "idle" /\ UNCHANGED memoryVars
    BY <1>1 DEF ShortHandler, frameVars
  <2>2. UNCHANGED tracker \/ (tracker = NoTracker /\ tracker' = NoTracker)
    BY <1>1 DEF ShortHandler, SetEnabled, SetRoi, OneSetting, SetSetting, Start, StartFails,
                Stop, SetCaps, RefuseCaps, SinkEvent, Bypass, FrameRefused, elementVars
  <2>3. QED
    BY <1>0, <2>1, <2>2
<1>2. ASSUME NEW discont \in BOOLEAN, FrameBegins(discont) PROVE Holding'
  <2>1. Bare => Building \/ made # 0
    BY Apart, Ranks DEF Bare, Building, Objects
  <2>2. QED
    BY <1>0, <1>2, <2>1 DEF FrameBegins, elementVars
<1>3. CASE Construct
  <2>1. Known' /\ Building'
    BY <1>3, BuildingKept DEF Construct, Known
  <2>2. QED
    BY <1>3, <2>1 DEF Construct, Known, handlerVars, elementVars
<1>4. CASE ConstructFails
  <2>1. Known' /\ Dismantling' /\ made' = 0
    BY <1>4, FailureAccounted DEF ConstructFails, Known
  <2>2. QED
    BY <1>4, <2>1 DEF ConstructFails, Known, handlerVars, elementVars
<1>5. CASE Constructed
  <2>1. step = "build" /\ made = 11 /\ made' = 0 /\ step' = "crop"
        /\ UNCHANGED <<live, ctx, owned, held, built>>
    BY <1>5 DEF Constructed, AllMade
  <2>2. Complete
    BY <2>1, Ranks, Apart DEF Building, Complete, Due, MemoryTypeOK, Objects
  <2>3. QED
    BY <2>1, <2>2 DEF Complete
<1>6. CASE Destruct
  <2>1. Known' /\ Dismantling' /\ made' = made
    BY <1>6, DismantlingKept DEF Destruct, Known
  <2>2. QED
    BY <1>6, <2>1 DEF Destruct, Known, handlerVars, elementVars
<1>7. CASE StopBegins
  <2>1. Complete => Dismantling
    BY Origins DEF Complete, Dismantling
  <2>2. QED
    BY <1>0, <1>7, <2>1 DEF StopBegins, handlerVars, elementVars
<1>8. CASE Stopped \/ BuildFailed
  <2>1. tracker' = NoTracker /\ step' = "idle" /\ built = {} /\ UNCHANGED memoryVars
    BY <1>8 DEF Stopped, Stop, BuildFailed, FrameRefused
  <2>2. Bare
    BY <1>8, <2>1 DEF Stopped, BuildFailed, Dismantling, Bare
  <2>3. QED
    BY <1>0, <1>8, <2>1, <2>2 DEF Stopped, BuildFailed
<1>9. CASE CropBegins \/ Resize \/ CpuCrop
  BY <1>0, <1>9 DEF CropBegins, Resize, CpuCrop, handlerVars, elementVars
<1>10. CASE Run \/ RunHead \/ CacheWritesBack
  BY <1>0, <1>10 DEF Run, RunHead, CacheWritesBack, handlerVars, elementVars
<1>11. CASE FrameEnds
  <2>1. LoadTracker
    BY <1>11 DEF FrameEnds, Capture, Track
  <2>2. tracker' # NoTracker
    BY <2>1, LoadedTracker
  <2>3. QED
    BY <1>0, <1>11, <2>2 DEF FrameEnds
<1>12. CASE CallFails
  BY <1>0, <1>12 DEF CallFails
<1>13. CASE UNCHANGED allVars
  BY <1>0, <1>13 DEF allVars, handlerVars, elementVars, frameVars
<1>14. QED
  BY <1>1, <1>2, <1>3, <1>4, <1>5, <1>6, <1>7, <1>8, <1>9, <1>10, <1>11, <1>12, <1>13
     DEF TrackerNext

LEMMA HoldingInvariant == TrackerSpec => [](MemoryTypeOK /\ Holding)
<1>1. TrackerInit => MemoryTypeOK /\ Holding
  BY DEF TrackerInit, MemoryInit, Init, MemoryTypeOK, Holding, FrameSteps, Bare
<1>2. QED
  BY <1>1, StepMemoryType, StepHolding, ElementInvariants, PTL DEF TrackerSpec

\* Between two handlers the contexts and memories are those of the Tracker,
\* all of them or none, whichever call of its constructor failed.
THEOREM NeverLeaking == TrackerSpec => []NothingLeaked
<1>1. Holding => NothingLeaked
  BY DEF Holding, NothingLeaked, Complete, Bare, Objects
<1>2. QED
  BY <1>1, HoldingInvariant, PTL

\* No memory outlives its context, and no import the memory it was made from,
\* however far the constructor of the Tracker came.
THEOREM NeverDangling == TrackerSpec => []NothingDangling
<1>1. step \in Steps /\ MemoryTypeOK /\ Holding => NothingDangling
  <2> SUFFICES ASSUME MemoryTypeOK, step \in Steps, Holding,
                      NEW o \in Memories, o \in live
               PROVE  /\ Owner[o] \in live
                      /\ o \in DOMAIN Source => Source[o] \in live
    BY DEF NothingDangling
  <2>0. (o \in owned \/ (o = held /\ held # NoMemory)) /\ ctx \cup owned \subseteq live
    <3>1. Known
      BY DEF Holding, Known
    <3>2. o \notin ctx /\ o # NoMemory
      BY Apart DEF MemoryTypeOK, Objects
    <3>3. QED
      BY <3>1, <3>2 DEF Known
  <2>1. CASE step = "build"
    <3>1. Creation[o] <= made + 1 /\ made \in Nat /\ Creation[o] \in Nat
      BY <2>0, <2>1, Ranks DEF Holding, Building, Due, MemoryTypeOK
    <3>2. \A p \in Objects : Creation[p] \in Nat
      BY Ranks DEF Objects
    <3>3. Owner[o] \in built
      BY <2>1, <3>1, <3>2, Origins DEF Holding, Building, Objects
    <3>4. o \in DOMAIN Source => Source[o] \in owned
      BY <2>1, <3>1, <3>2, Origins DEF Holding, Building, Objects
    <3>5. QED
      BY <2>0, <2>1, <3>3, <3>4 DEF Holding, Building
  <2>2. CASE step \in {"unwind", "stop"}
    BY <2>0, <2>2 DEF Holding, Dismantling
  <2>3. CASE Complete
    BY <2>0, <2>3, Origins DEF Complete
  <2>4. QED
    BY <2>0, <2>1, <2>2, <2>3 DEF Holding, Steps, FrameSteps, Bare
<1>2. TrackerInit => step \in Steps
  BY DEF TrackerInit, Steps
<1>3. step \in Steps /\ [TrackerNext]_allVars => (step \in Steps)'
  BY DEF TrackerNext, ShortHandler, FrameBegins, Construct, ConstructFails, Constructed,
     Destruct, StopBegins, Stopped, CropBegins, Resize, CpuCrop, Run, RunHead, FrameEnds,
     CallFails, BuildFailed, CacheWritesBack, Goto, allVars, frameVars, Steps, FrameSteps
<1>4. QED
  BY <1>1, <1>2, <1>3, HoldingInvariant, PTL DEF TrackerSpec

-----------------------------------------------------------------------------
\* The features are those of the template: only a network run of a capture
\* computes new ones, and only a frame that ends well clears reset.
LEMMA StepFeatures ==
  TypeOK /\ IInv /\ gap \in BOOLEAN /\ FeaturesFollow /\ [TrackerNext]_allVars
    => FeaturesFollow'
<1> SUFFICES ASSUME TypeOK, IInv, gap \in BOOLEAN, FeaturesFollow, [TrackerNext]_allVars
             PROVE  FeaturesFollow'
  OBVIOUS
<1>0. /\ reset \in BOOLEAN
      /\ ~reset => template = [roi |-> roi, size |-> info]
  BY DEF TypeOK, IInv, TemplateFresh
<1> USE <1>0 DEF FeaturesFollow, Capturing, Goto
<1>1. CASE ShortHandler
  <2>1. step' = "idle" /\ features' = features
    BY <1>1 DEF ShortHandler, frameVars
  <2>2. ~reset' => ~reset /\ UNCHANGED template
    BY <1>1 DEF ShortHandler, SetEnabled, SetRoi, OneSetting, SetSetting, Start, StartFails,
                Stop, SetCaps, RefuseCaps, SinkEvent, Bypass, FrameRefused, FrameFails,
                elementVars
  <2>3. QED
    BY <2>1, <2>2
<1>2. ASSUME NEW discont \in BOOLEAN, FrameBegins(discont) PROVE FeaturesFollow'
  BY <1>2 DEF FrameBegins, elementVars
<1>3. CASE Construct \/ ConstructFails \/ Constructed \/ Destruct \/ StopBegins
  BY <1>3 DEF Construct, ConstructFails, Constructed, Destruct, StopBegins,
              handlerVars, elementVars
<1>4. CASE Stopped
  BY <1>4 DEF Stopped, Stop
<1>5. CASE CropBegins \/ Resize \/ CpuCrop \/ RunHead \/ CacheWritesBack
  BY <1>5 DEF CropBegins, Resize, CpuCrop, RunHead, CacheWritesBack, handlerVars, elementVars
<1>6. CASE Run
  BY <1>6 DEF Run, handlerVars, elementVars
<1>7. CASE FrameEnds
  BY <1>7 DEF FrameEnds, Capture, Track
<1>8. CASE CallFails
  BY <1>8 DEF CallFails, FrameFails
<1>9. CASE BuildFailed
  BY <1>9 DEF BuildFailed, FrameRefused, FrameFails
<1>10. CASE UNCHANGED allVars
  BY <1>10 DEF allVars, handlerVars, elementVars, frameVars
<1>11. QED
  BY <1>1, <1>2, <1>3, <1>4, <1>5, <1>6, <1>7, <1>8, <1>9, <1>10 DEF TrackerNext

\* The head compares a frame with the features of the template it follows.
THEOREM HeadAndTemplate == TrackerSpec => []HeadMatchesTemplate
<1>1. TrackerInit => FeaturesFollow /\ gap \in BOOLEAN
  BY DEF TrackerInit, Init, FeaturesFollow
<1>2. TypeOK /\ IInv /\ FeaturesFollow => HeadMatchesTemplate
  BY DEF TypeOK, IInv, TemplateFresh, FeaturesFollow, Capturing, HeadMatchesTemplate
<1>3. QED
  BY <1>1, <1>2, GapStep, StepFeatures, ElementInvariants, PTL DEF TrackerSpec

-----------------------------------------------------------------------------
\* The image buffers keep their types.
LEMMA StepImages == CropTypeOK /\ [TrackerNext]_allVars => image' \in [Buffers -> Image]
<1> SUFFICES ASSUME image \in [Buffers -> Image], [TrackerNext]_allVars
             PROVE  image' \in [Buffers -> Image]
  BY DEF CropTypeOK
<1> USE DEF Image
<1>1. \A some \in [Buffers -> Image] : Aged(some) \in [Buffers -> Image]
  BY DEF Aged
<1>2. Buffer \in Buffers
  BY DEF Buffer, Buffers
<1>3. CASE ShortHandler \/ (\E discont \in BOOLEAN : FrameBegins(discont)) \/ Construct
           \/ ConstructFails \/ Destruct \/ StopBegins \/ Run \/ RunHead \/ BuildFailed
  BY <1>3 DEF ShortHandler, FrameBegins, Construct, ConstructFails, Destruct, StopBegins,
              Run, RunHead, BuildFailed, frameVars
<1>4. CASE Constructed \/ Stopped
  BY <1>4 DEF Constructed, Stopped, Cleared, NoImages
<1>5. CASE CropBegins
  BY <1>2, <1>5 DEF CropBegins, RgaImportFails, SyncBeforeRga, Flush
<1>6. CASE Resize
  BY <1>2, <1>6 DEF Resize, RgaWrites, RgaFails
<1>7. CASE CpuCrop
  BY <1>2, <1>7 DEF CpuCrop, SyncBeforeCpu, CpuWrites, SyncAfterCpu, Flush
<1>8. CASE FrameEnds
  BY <1>1, <1>8 DEF FrameEnds
<1>9. CASE CallFails
  <2>1. [image EXCEPT ![Buffer].dirty = "other"] \in [Buffers -> Image]
    BY <1>2
  <2>2. \/ image' = Aged(image)
        \/ image' = Aged([image EXCEPT ![Buffer].dirty = "other"])
    BY <1>9 DEF CallFails
  <2>3. QED
    BY <1>1, <2>1, <2>2
<1>10. CASE CacheWritesBack
  BY <1>10 DEF CacheWritesBack, WriteBack
<1>11. CASE UNCHANGED allVars
  BY <1>11 DEF allVars, frameVars
<1>12. QED
  BY <1>3, <1>4, <1>5, <1>6, <1>7, <1>8, <1>9, <1>10, <1>11 DEF TrackerNext

\* What a step of the crop does to the buffer it fills, and that the cache may
\* write back what it has, and nothing else.
LEMMA StepCrop ==
  ASSUME image \in [Buffers -> Image], ImageInTheMaking, [TrackerNext]_allVars,
         step # "idle", step' # "idle"
  PROVE  ImageInTheMaking'
<1> USE DEF ImageInTheMaking, ImageOfThisFrame, Goto, Image
<1>1. Buffer \in Buffers
  BY DEF Buffer, Buffers
<1>2. ~ShortHandler /\ ~Stopped /\ ~FrameEnds /\ ~CallFails /\ ~BuildFailed
  BY DEF ShortHandler, Stopped, FrameEnds, CallFails, BuildFailed, frameVars
<1>3. \A discont \in BOOLEAN : ~FrameBegins(discont)
  BY DEF FrameBegins
<1>4. UNCHANGED Buffer
  BY <1>2, <1>3 DEF TrackerNext, Construct, ConstructFails, Constructed, Destruct, StopBegins,
     CropBegins, Resize, CpuCrop, Run, RunHead, CacheWritesBack, allVars, handlerVars,
     elementVars, frameVars, Buffer, Capturing
<1>5. CASE Construct \/ ConstructFails \/ Constructed \/ Destruct \/ StopBegins
  BY <1>5 DEF Construct, ConstructFails, Constructed, Destruct, StopBegins
<1>6. CASE CropBegins
  BY <1>1, <1>4, <1>6 DEF CropBegins, RgaImportFails, SyncBeforeRga, Flush
<1>7. CASE Resize
  BY <1>1, <1>4, <1>7 DEF Resize, RgaWrites, RgaFails
<1>8. CASE CpuCrop
  BY <1>1, <1>4, <1>8 DEF CpuCrop, SyncBeforeCpu, CpuWrites, SyncAfterCpu, Flush
<1>9. CASE Run \/ RunHead
  BY <1>9 DEF Run, RunHead
<1>10. CASE CacheWritesBack
  <2>1. PICK b \in Buffers : WriteBack(b)
    BY <1>10 DEF CacheWritesBack
  <2>2. step' = step
    BY <1>10 DEF CacheWritesBack
  <2>3. CASE b = Buffer
    BY <1>1, <1>4, <2>1, <2>2, <2>3 DEF WriteBack
  <2>4. CASE b # Buffer
    BY <1>1, <1>4, <2>1, <2>2, <2>4 DEF WriteBack
  <2>5. QED
    BY <2>3, <2>4
<1>11. CASE UNCHANGED allVars
  BY <1>4, <1>11 DEF allVars, frameVars
<1>12. QED
  BY <1>2, <1>3, <1>5, <1>6, <1>7, <1>8, <1>9, <1>10, <1>11 DEF TrackerNext

\* A frame comes to its crop with whatever the buffers hold.
LEMMA StepImageInTheMaking ==
  image \in [Buffers -> Image] /\ ImageInTheMaking /\ [TrackerNext]_allVars
    => ImageInTheMaking'
<1> SUFFICES ASSUME image \in [Buffers -> Image], ImageInTheMaking, [TrackerNext]_allVars
             PROVE  ImageInTheMaking'
  OBVIOUS
<1>1. CASE step' = "idle"
  BY <1>1 DEF ImageInTheMaking, ImageOfThisFrame
<1>2. CASE step = "idle" /\ step' # "idle"
  <2>1. step' \in {"build", "crop", "stop"}
    BY <1>2 DEF TrackerNext, ShortHandler, FrameBegins, Construct, ConstructFails, Constructed,
       Destruct, StopBegins, Stopped, CropBegins, Resize, CpuCrop, Run, RunHead, FrameEnds,
       CallFails, BuildFailed, CacheWritesBack, Goto, allVars, frameVars
  <2>2. QED
    BY <2>1 DEF ImageInTheMaking, ImageOfThisFrame
<1>3. QED
  BY <1>1, <1>2, StepCrop

\* When a network runs, the NPU reads this frame's crop and no other pixel.
THEOREM NetworksReadThisFrame == TrackerSpec => []ImageOfThisFrame
<1>1. TrackerInit => CropTypeOK /\ ImageInTheMaking
  <2> SUFFICES ASSUME TrackerInit
               PROVE  CropTypeOK /\ ImageInTheMaking
    OBVIOUS
  <2>1. image \in [Buffers -> Image]
    BY DEF TrackerInit, NoImages, Image
  <2>2. use_rga \in BOOLEAN
    BY DEF TrackerInit
  <2>3. step = "idle"
    BY DEF TrackerInit
  <2>4. QED
    BY <2>1, <2>2, <2>3 DEF CropTypeOK, ImageInTheMaking, ImageOfThisFrame
<1>2. CropTypeOK /\ TypeOK /\ [TrackerNext]_allVars => CropTypeOK'
  <2> SUFFICES ASSUME CropTypeOK, TypeOK, [TrackerNext]_allVars
               PROVE  use_rga' \in BOOLEAN
    BY StepImages DEF CropTypeOK
  <2>1. use_rga' = use_rga \/ use_rga' = FALSE \/ use_rga' = (resize = "auto")
    BY DEF TrackerNext, ShortHandler, FrameBegins, Construct, ConstructFails, Constructed,
       Destruct, StopBegins, Stopped, CropBegins, RgaImportFails, SyncBeforeRga, Flush, Resize,
       RgaWrites, RgaFails, CpuCrop, SyncBeforeCpu, CpuWrites, SyncAfterCpu, Run, RunHead,
       FrameEnds, CallFails, BuildFailed, CacheWritesBack, WriteBack, allVars, frameVars
  <2>2. QED
    BY <2>1 DEF CropTypeOK
<1>3. CropTypeOK /\ ImageInTheMaking /\ [TrackerNext]_allVars => ImageInTheMaking'
  BY StepImageInTheMaking DEF CropTypeOK
<1>4. ImageInTheMaking => ImageOfThisFrame
  BY DEF ImageInTheMaking
<1>5. QED
  BY <1>1, <1>2, <1>3, <1>4, ElementInvariants, PTL DEF TrackerSpec
=============================================================================
