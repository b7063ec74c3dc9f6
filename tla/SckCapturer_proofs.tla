-------------------------- MODULE SckCapturer_proofs --------------------------
(***************************************************************************)
(* Proofs about SckCapturer, for any displays and any number of requests.  *)
(* Each variable's type and each part of the invariant is a fact of its    *)
(* own, so that a step has to show only the parts it can disturb.          *)
(***************************************************************************)
EXTENDS SckCapturer, TLAPS

Handled == [surface : Surfaces, dirty : BOOLEAN]
Returned == [surface : Surfaces, full : BOOLEAN]

StageType == /\ stage \in {"new", "started", "stopping", "dead"} /\ changed \in BOOLEAN
             /\ current \in Displays /\ permanent \in BOOLEAN
KitType == /\ stream \in Displays \cup {None}
           /\ making \in BOOLEAN /\ starting \in BOOLEAN /\ sending \in BOOLEAN
           /\ fresh \in BOOLEAN /\ sent \in Surfaces \cup {None}
           /\ pending \in 0 .. MaxPending
HandlersType == /\ holder \in {None, "content", "sample"}
                /\ chosen \in Displays \cup {None}
                /\ sample \in Handled \cup {None}
FramesType == /\ latest \in Surfaces \cup {None} /\ dirty \in BOOLEAN
              /\ frame \in Returned \cup {None}
              /\ view \in Surfaces \cup {None}
HistoryType == asked \in BOOLEAN /\ lost \in BOOLEAN /\ early \in BOOLEAN /\ touched \in BOOLEAN

Types == StageType /\ KitType /\ HandlersType /\ FramesType /\ HistoryType

\* What a handler may count on: without a stream, and while it is made, nothing was started
\* and nothing was sent, and who holds _capturer_lock for a sample has one.
KitInv == /\ sending \/ starting => stream # None /\ ~making
          /\ stream = None \/ making => latest = None /\ sent = None /\ holder # "sample"
          /\ making => holder = "content" /\ chosen # None /\ stream = chosen
          /\ stage = "new" => stream = None /\ pending = 0 /\ holder = None
          /\ stage = "stopping" => frame = None
          /\ stage = "dead" => holder = None /\ frame = None
          /\ holder = "sample" => sample \in Handled
          /\ chosen # None => holder = "content"

\* What the caller knows: an unmarked latest frame is the one that was delivered last,
\* or is about to be.
RegionInv == /\ frame = None /\ latest # None /\ ~dirty => view = latest
             /\ frame # None /\ ~dirty => latest = frame.surface
             /\ frame # None /\ ~frame.full => view = frame.surface

\* The sample being handled is the stream's last one, and is taken for clean only if
\* the latest frame shows it already or is behind since a surface was lost.
ShownInv == /\ sent = None => latest = None
            /\ holder = "sample" => /\ sent = sample.surface
                                    /\ ~sample.dirty => lost \/ latest = sent
            /\ LatestIsShown

\* Where a selection is that the stream does not follow yet.
FollowInv ==
  asked /\ ~permanent /\ stage # "dead" =>
    \/ stage = "new"
    \/ pending > 0
    \/ holder = "content" /\ (chosen = None \/ chosen \in {current, First})
    \/ holder # "content" /\ stream \in {current, First, None}

\* Unless the stream was due as the destructor began, nobody starts it any more.
EndInv == /\ stage \in {"stopping", "dead"} /\ ~early => ~starting /\ ~Due
          /\ stage = "dead" => holder = None
          /\ touched => stage = "dead" /\ early

-----------------------------------------------------------------------------
\* The parts together are the type invariant of the module.
LEMMA TypesAreTypeOK == Types <=> TypeOK
  BY DEF Types, TypeOK, StageType, KitType, HandlersType, FramesType,
         HistoryType, Handled, Returned

\* A step keeps the types of the variables it leaves alone.
LEMMA Kept ==
  ASSUME Types
  PROVE  /\ UNCHANGED kit => KitType'
         /\ UNCHANGED handlers => HandlersType'
         /\ UNCHANGED frames => FramesType'
         /\ UNCHANGED history => HistoryType'
<1>1. UNCHANGED kit => KitType'
  BY DEF Types, KitType, kit
<1>2. UNCHANGED handlers => HandlersType'
  BY DEF Types, HandlersType, handlers
<1>3. UNCHANGED frames => FramesType'
  BY DEF Types, FramesType, frames
<1>4. UNCHANGED history => HistoryType'
  BY DEF Types, HistoryType, history
<1> QED
  BY <1>1, <1>2, <1>3, <1>4

\* Every step is one of these.
LEMMA Steps ==
  ASSUME Next
  PROVE  \/ \E d \in Displays : SelectSource(d)
         \/ ChangeConfiguration \/ Start \/ CaptureFrame \/ Deliver \/ Stop \/ Release
         \/ ContentArrives \/ UpdateStream \/ MakeStream \/ AddOutputFails \/ StartStream
         \/ ContentFails \/ \E c \in Contents : ChooseDisplay(c)
         \/ \E b \in BOOLEAN : StartCompletes(b)
         \/ \E p \in Pictures, o, b \in BOOLEAN : SampleArrives(p, o, b)
         \/ DropSample \/ StoreSample
  BY DEF Next, Thread, Kit

\* A sample comes from a stream, and is handled unless the capturer is gone.
LEMMA Arrival ==
  ASSUME Types, KitInv, NEW p \in Pictures, NEW o \in BOOLEAN, NEW b \in BOOLEAN,
         SampleArrives(p, o, b)
  PROVE  LET s == Arriving(p, o) IN
         /\ s \in Surfaces
         /\ [surface |-> s, dirty |-> SizeDiffers(s) \/ b] \in Handled
         /\ holder = None /\ ~making /\ stream # None
         /\ o => fresh /\ sent # None
         /\ Attached(s, o, b)
         /\ sent' = s
         /\ fresh' \in BOOLEAN /\ lost' = (lost \/ Misled(s, o, b)) /\ lost' \in BOOLEAN
         /\ UNCHANGED <<changed, stage, current, permanent, stream, making, starting, sending,
                        pending, chosen, frames, asked, early, touched>>
         /\ \/ stage = "dead" /\ UNCHANGED <<holder, sample>>
            \/ /\ stage # "dead" /\ holder' = "sample"
               /\ sample' = [surface |-> s, dirty |-> SizeDiffers(s) \/ b]
<1> DEFINE s == Arriving(p, o)
<1>1. s \in Surfaces
  <2>1. CASE o
    BY <2>1 DEF SampleArrives, Arriving, Surfaces, Types, KitType
  <2>2. CASE ~o
    BY <2>2 DEF SampleArrives, Arriving, Surfaces, KitInv, Types, KitType
  <2> QED
    BY <2>1, <2>2
<1>2. SizeDiffers(s) \/ b \in BOOLEAN
  BY Zenon DEF SizeDiffers
<1>3. [surface |-> s, dirty |-> SizeDiffers(s) \/ b] \in Handled
  BY <1>1, <1>2, Zenon DEF Handled
<1>4. /\ holder = None /\ (o => fresh /\ sent # None) /\ Attached(s, o, b) /\ sent' = s
      /\ fresh' = (fresh /\ o) /\ lost' = (lost \/ Misled(s, o, b))
  BY Zenon DEF SampleArrives
<1>5. fresh' \in BOOLEAN /\ lost' \in BOOLEAN
  BY <1>4, Zenon
<1>6. ~making /\ stream # None
  BY DEF SampleArrives, KitInv
<1>7. UNCHANGED <<changed, stage, current, permanent, stream, making, starting, sending,
                  pending, chosen, frames, asked, early, touched>>
  BY DEF SampleArrives
<1>8. \/ stage = "dead" /\ UNCHANGED <<holder, sample>>
      \/ /\ stage # "dead" /\ holder' = "sample"
         /\ sample' = [surface |-> s, dirty |-> SizeDiffers(s) \/ b]
  BY Zenon DEF SampleArrives
<1> HIDE DEF s
<1> QED
  BY <1>1, <1>3, <1>4, <1>5, <1>6, <1>7, <1>8 DEF s

-----------------------------------------------------------------------------
\* The types are kept in every step, given what a handler may count on.
LEMMA TypeStep ==
  ASSUME Types, KitInv, [Next]_vars
  PROVE  Types'
<1> USE DEF Types
<1>1. CASE UNCHANGED vars
  BY <1>1, Kept DEF vars, StageType
<1>2. CASE StartStream
  BY <1>2, Kept DEF StartStream, StageType, KitType, HandlersType
<1>3. CASE ChangeConfiguration
  BY <1>3, Kept DEF ChangeConfiguration, StageType
<1>4. CASE Start
  <2>1. HandlersType' /\ FramesType' /\ HistoryType'
    BY <1>4, Kept DEF Start
  <2>2. StageType'
    BY <1>4 DEF Start, StageType
  <2>3. KitType'
    BY <1>4, SckAssumption DEF Start, start_or_reconfigure_capturer, KitType
  <2> QED
    BY <2>1, <2>2, <2>3
<1>5. ASSUME NEW d \in Displays, SelectSource(d) PROVE Types'
  <2>1. StageType' /\ HandlersType' /\ FramesType'
    BY <1>5, Kept DEF SelectSource, StageType
  <2>2. KitType'
    BY <1>5, SckAssumption DEF SelectSource, start_or_reconfigure_capturer, KitType
  <2>3. HistoryType'
    BY <1>5 DEF SelectSource, HistoryType
  <2> QED
    BY <2>1, <2>2, <2>3
<1>6. CASE CaptureFrame
  <2>1. StageType' /\ HandlersType' /\ HistoryType'
    BY <1>6, Kept DEF CaptureFrame, StageType
  <2>2. KitType'
    BY <1>6, SckAssumption DEF CaptureFrame, start_or_reconfigure_capturer, KitType
  <2>3. FramesType'
    BY <1>6 DEF CaptureFrame, FramesType, Returned
  <2> QED
    BY <2>1, <2>2, <2>3
<1>7. CASE Deliver
  BY <1>7, Kept DEF Deliver, StageType, FramesType, Returned
<1>8. CASE Stop
  BY <1>8, Kept DEF Stop, Due, StageType, KitType, HistoryType
<1>9. CASE Release
  BY <1>9, Kept DEF Release, StageType, FramesType
<1>10. CASE ContentArrives
  <2>1. StageType' /\ FramesType' /\ HistoryType'
    BY <1>10, Kept DEF ContentArrives, StageType
  <2>2. KitType'
    BY <1>10, SckAssumption DEF ContentArrives, KitType
  <2>3. HandlersType'
    BY <1>10 DEF ContentArrives, HandlersType
  <2> QED
    BY <2>1, <2>2, <2>3
<1>11. CASE UpdateStream
  BY <1>11, Kept DEF UpdateStream, StageType, KitType, HandlersType
<1>12. CASE MakeStream
  BY <1>12, Kept DEF MakeStream, StageType, KitType, HandlersType
<1>13. CASE AddOutputFails
  BY <1>13, Kept DEF AddOutputFails, StageType, KitType, HandlersType
<1>14. CASE ContentFails
  BY <1>14, Kept DEF ContentFails, StageType, HandlersType
<1>15. ASSUME NEW c \in Contents, ChooseDisplay(c) PROVE Types'
  BY <1>15, Kept, SckAssumption DEF ChooseDisplay, StageType, HandlersType
<1>16. ASSUME NEW b \in BOOLEAN, StartCompletes(b) PROVE Types'
  <2>1. HandlersType' /\ FramesType'
    BY <1>16, Kept DEF StartCompletes
  <2>2. StageType'
    BY <1>16 DEF StartCompletes, StageType
  <2>3. KitType'
    BY <1>16 DEF StartCompletes, KitType
  <2>4. HistoryType'
    BY <1>16 DEF StartCompletes, HistoryType
  <2> QED
    BY <2>1, <2>2, <2>3, <2>4
<1>17. ASSUME NEW p \in Pictures, NEW o \in BOOLEAN, NEW b \in BOOLEAN,
              SampleArrives(p, o, b)
       PROVE Types'
  <2>1. StageType' /\ FramesType'
    BY <1>17, Arrival, Kept DEF StageType
  <2>2. KitType'
    BY <1>17, Arrival DEF KitType
  <2>3. HandlersType'
    BY <1>17, Arrival DEF HandlersType
  <2>4. HistoryType'
    BY <1>17, Arrival DEF HistoryType
  <2> QED
    BY <2>1, <2>2, <2>3, <2>4
<1>18. CASE DropSample
  BY <1>18, Kept DEF DropSample, StageType, HandlersType, HistoryType
<1>19. CASE StoreSample
  <2>1. sample \in Handled
    BY <1>19 DEF StoreSample, KitInv, HandlersType
  <2>2. StageType' /\ KitType'
    BY <1>19, Kept DEF StoreSample, StageType
  <2>3. HandlersType'
    BY <1>19 DEF StoreSample, HandlersType
  <2>4. FramesType'
    BY <1>19, <2>1 DEF StoreSample, FramesType, Handled
  <2>5. HistoryType'
    BY <1>19 DEF StoreSample, HistoryType
  <2> QED
    BY <2>2, <2>3, <2>4, <2>5
<1> QED
  BY Steps, <1>1, <1>2, <1>3, <1>4, <1>5, <1>6, <1>7, <1>8, <1>9, <1>10, <1>11, <1>12,
     <1>13, <1>14, <1>15, <1>16, <1>17, <1>18, <1>19

\* What a handler may count on stays true.
LEMMA KitStep ==
  ASSUME Types, KitInv, [Next]_vars
  PROVE  KitInv'
<1> USE DEF KitInv
<1>1. CASE UNCHANGED vars
  BY <1>1 DEF vars, kit, handlers, frames
<1>2. CASE StartStream
  BY <1>2, SckAssumption DEF StartStream, frames, Types, HandlersType
<1>3. CASE ChangeConfiguration
  BY <1>3 DEF ChangeConfiguration, kit, handlers, frames
<1>4. CASE Start
  BY <1>4 DEF Start, handlers, frames
<1>5. ASSUME NEW d \in Displays, SelectSource(d) PROVE KitInv'
  BY <1>5 DEF SelectSource, handlers, frames
<1>6. CASE CaptureFrame
  BY <1>6 DEF CaptureFrame, handlers
<1>7. CASE Deliver
  BY <1>7 DEF Deliver, kit, handlers
<1>8. CASE Stop
  BY <1>8 DEF Stop, Caller, handlers, frames
<1>9. CASE Release
  BY <1>9 DEF Release, kit, handlers, frames
<1>10. CASE ContentArrives
  BY <1>10 DEF ContentArrives, frames, Types, KitType
<1>11. CASE UpdateStream
  BY <1>11, SckAssumption DEF UpdateStream, frames, Types, HandlersType
<1>12. CASE MakeStream
  BY <1>12, SckAssumption DEF MakeStream, handlers, frames, Types, HandlersType
<1>13. CASE AddOutputFails
  BY <1>13, SckAssumption DEF AddOutputFails, kit, frames
<1>14. CASE ContentFails
  BY <1>14, SckAssumption DEF ContentFails, kit, frames
<1>15. ASSUME NEW c \in Contents, ChooseDisplay(c) PROVE KitInv'
  BY <1>15 DEF ChooseDisplay, kit, frames
<1>16. ASSUME NEW b \in BOOLEAN, StartCompletes(b) PROVE KitInv'
  BY <1>16 DEF StartCompletes, handlers, frames
<1>17. ASSUME NEW p \in Pictures, NEW o \in BOOLEAN, NEW b \in BOOLEAN,
              SampleArrives(p, o, b)
       PROVE KitInv'
  <2> DEFINE s == Arriving(p, o)
  <2>1. /\ holder = None /\ ~making /\ stream # None /\ sent' = s /\ s \in Surfaces
        /\ [surface |-> s, dirty |-> SizeDiffers(s) \/ b] \in Handled
        /\ UNCHANGED <<stage, stream, making, starting, sending, pending, chosen, frames>>
        /\ \/ stage = "dead" /\ UNCHANGED <<holder, sample>>
           \/ /\ stage # "dead" /\ holder' = "sample"
              /\ sample' = [surface |-> s, dirty |-> SizeDiffers(s) \/ b]
    BY <1>17, Arrival
  <2>2. stage # "new"
    BY <2>1
  <2> HIDE DEF s
  <2> QED
    BY <2>1, <2>2, SckAssumption DEF frames
<1>18. CASE DropSample
  BY <1>18, SckAssumption DEF DropSample, kit, frames
<1>19. CASE StoreSample
  BY <1>19, SckAssumption DEF StoreSample, kit
<1> QED
  BY Steps, <1>1, <1>2, <1>3, <1>4, <1>5, <1>6, <1>7, <1>8, <1>9, <1>10, <1>11, <1>12,
     <1>13, <1>14, <1>15, <1>16, <1>17, <1>18, <1>19

\* What the caller knows stays true.
LEMMA RegionStep ==
  ASSUME Types, KitInv, RegionInv, [Next]_vars
  PROVE  RegionInv'
<1> USE DEF RegionInv
<1>1. CASE UNCHANGED vars
  BY <1>1 DEF vars, frames
<1>2. CASE StartStream
  BY <1>2 DEF StartStream, frames
<1>3. CASE ChangeConfiguration
  BY <1>3 DEF ChangeConfiguration, frames
<1>4. CASE Start
  BY <1>4 DEF Start, frames
<1>5. ASSUME NEW d \in Displays, SelectSource(d) PROVE RegionInv'
  BY <1>5 DEF SelectSource, frames
<1>6. CASE CaptureFrame
  BY <1>6, SckAssumption DEF CaptureFrame, Types, FramesType
<1>7. CASE Deliver
  BY <1>7 DEF Deliver, Types, FramesType
<1>8. CASE Stop
  BY <1>8 DEF Stop, frames
<1>9. CASE Release
  BY <1>9 DEF Release, KitInv
<1>10. CASE ContentArrives
  BY <1>10 DEF ContentArrives, frames
<1>11. CASE UpdateStream
  BY <1>11 DEF UpdateStream, frames
<1>12. CASE MakeStream
  BY <1>12 DEF MakeStream, frames
<1>13. CASE AddOutputFails
  BY <1>13 DEF AddOutputFails, frames
<1>14. CASE ContentFails
  BY <1>14 DEF ContentFails, frames
<1>15. ASSUME NEW c \in Contents, ChooseDisplay(c) PROVE RegionInv'
  BY <1>15 DEF ChooseDisplay, frames
<1>16. ASSUME NEW b \in BOOLEAN, StartCompletes(b) PROVE RegionInv'
  BY <1>16 DEF StartCompletes, frames
<1>17. ASSUME NEW p \in Pictures, NEW o \in BOOLEAN, NEW b \in BOOLEAN,
              SampleArrives(p, o, b)
       PROVE RegionInv'
  BY <1>17, Arrival DEF frames
<1>18. CASE DropSample
  BY <1>18 DEF DropSample, frames
<1>19. CASE StoreSample
  BY <1>19 DEF StoreSample
<1> QED
  BY Steps, <1>1, <1>2, <1>3, <1>4, <1>5, <1>6, <1>7, <1>8, <1>9, <1>10, <1>11, <1>12,
     <1>13, <1>14, <1>15, <1>16, <1>17, <1>18, <1>19

\* The latest frame stays the stream's last.
LEMMA ShownStep ==
  ASSUME Types, KitInv, ShownInv, [Next]_vars
  PROVE  ShownInv'
<1> USE DEF ShownInv, LatestIsShown
<1>1. CASE UNCHANGED vars
  BY <1>1 DEF vars, kit, handlers, frames, history
<1>2. CASE StartStream
  BY <1>2, SckAssumption DEF StartStream, frames, history, KitInv
<1>3. CASE ChangeConfiguration
  BY <1>3 DEF ChangeConfiguration, kit, handlers, frames, history
<1>4. CASE Start
  BY <1>4 DEF Start, handlers, frames, history
<1>5. ASSUME NEW d \in Displays, SelectSource(d) PROVE ShownInv'
  BY <1>5 DEF SelectSource, handlers, frames
<1>6. CASE CaptureFrame
  BY <1>6 DEF CaptureFrame, handlers, history
<1>7. CASE Deliver
  BY <1>7 DEF Deliver, kit, handlers, history
<1>8. CASE Stop
  BY <1>8 DEF Stop, Caller, handlers, frames, history
<1>9. CASE Release
  BY <1>9, SckAssumption DEF Release, kit, handlers, history
<1>10. CASE ContentArrives
  BY <1>10, SckAssumption DEF ContentArrives, frames, history
<1>11. CASE UpdateStream
  BY <1>11, SckAssumption DEF UpdateStream, frames, history
<1>12. CASE MakeStream
  BY <1>12, SckAssumption DEF MakeStream, handlers, frames, history, KitInv
<1>13. CASE AddOutputFails
  BY <1>13, SckAssumption DEF AddOutputFails, frames, history, KitInv
<1>14. CASE ContentFails
  BY <1>14, SckAssumption DEF ContentFails, kit, frames, history
<1>15. ASSUME NEW c \in Contents, ChooseDisplay(c) PROVE ShownInv'
  BY <1>15 DEF ChooseDisplay, kit, frames, history
<1>16. ASSUME NEW b \in BOOLEAN, StartCompletes(b) PROVE ShownInv'
  BY <1>16 DEF StartCompletes, handlers, frames
<1>17. ASSUME NEW p \in Pictures, NEW o \in BOOLEAN, NEW b \in BOOLEAN,
              SampleArrives(p, o, b)
       PROVE ShownInv'
  <2> DEFINE s == Arriving(p, o)
  <2>1. /\ sent' = s /\ s \in Surfaces /\ holder = None /\ latest' = latest /\ stage' = stage
        /\ lost' = (lost \/ Misled(s, o, b)) /\ Attached(s, o, b)
    BY <1>17, Arrival DEF frames
  <2>2. CASE stage = "dead"
    BY <1>17, <2>1, <2>2, Arrival, SckAssumption
  <2>3. CASE stage # "dead"
    <3>1. /\ holder' = "sample"
          /\ sample' = [surface |-> s, dirty |-> SizeDiffers(s) \/ b]
      BY <1>17, <2>3, Arrival
    <3>2. sample'.surface = s /\ (sample'.dirty <=> SizeDiffers(s) \/ b)
      BY <3>1
    <3>3. ASSUME ~SizeDiffers(s), ~b, ~lost' PROVE latest = s
      <4>1. latest # None /\ ~lost /\ ~Misled(s, o, b)
        BY <2>1, <3>3 DEF SizeDiffers
      <4>2. CASE fresh /\ ~o
        BY <3>3, <4>1, <4>2 DEF Misled
      <4>3. CASE ~(fresh /\ ~o)
        <5>1. sent = s
          BY <2>1, <3>3, <4>3 DEF Attached
        <5>2. latest = sent
          BY <2>1, <2>3, <4>1, SckAssumption
        <5> QED
          BY <5>1, <5>2
      <4> QED
        BY <4>2, <4>3
    <3> HIDE DEF s
    <3> QED
      BY <2>1, <3>1, <3>2, <3>3, SckAssumption
  <2> QED
    BY <2>2, <2>3
<1>18. CASE DropSample
  BY <1>18, SckAssumption DEF DropSample, kit, frames
<1>19. CASE StoreSample
  BY <1>19, SckAssumption DEF StoreSample, kit, KitInv, Handled
<1> QED
  BY Steps, <1>1, <1>2, <1>3, <1>4, <1>5, <1>6, <1>7, <1>8, <1>9, <1>10, <1>11, <1>12,
     <1>13, <1>14, <1>15, <1>16, <1>17, <1>18, <1>19

\* A selection does not get lost on its way.
LEMMA FollowStep ==
  ASSUME Types, KitInv, FollowInv, [Next]_vars
  PROVE  FollowInv'
<1> USE DEF FollowInv, KitInv, Types, KitType, StageType, HandlersType
<1>1. CASE UNCHANGED vars
  BY <1>1 DEF vars, kit, handlers, history
<1>2. CASE StartStream
  BY <1>2, SckAssumption DEF StartStream, history
<1>3. CASE ChangeConfiguration
  BY <1>3 DEF ChangeConfiguration, kit, handlers, history
<1>4. CASE Start
  BY <1>4 DEF Start, handlers, history, start_or_reconfigure_capturer
<1>5. ASSUME NEW d \in Displays, SelectSource(d) PROVE FollowInv'
  BY <1>5 DEF SelectSource, handlers, start_or_reconfigure_capturer
<1>6. CASE CaptureFrame
  BY <1>6 DEF CaptureFrame, handlers, history, start_or_reconfigure_capturer
<1>7. CASE Deliver
  BY <1>7 DEF Deliver, kit, handlers, history
<1>8. CASE Stop
  BY <1>8, SckAssumption DEF Stop, Caller, handlers, history
<1>9. CASE Release
  BY <1>9 DEF Release, kit, handlers, history
<1>10. CASE ContentArrives
  BY <1>10, SckAssumption DEF ContentArrives, history
<1>11. CASE UpdateStream
  BY <1>11, SckAssumption DEF UpdateStream, history
<1>12. CASE MakeStream
  BY <1>12, SckAssumption DEF MakeStream, handlers, history
<1>13. CASE AddOutputFails
  BY <1>13, SckAssumption DEF AddOutputFails, kit, history
<1>14. CASE ContentFails
  BY <1>14, SckAssumption DEF ContentFails, kit, history
<1>15. ASSUME NEW c \in Contents, ChooseDisplay(c) PROVE FollowInv'
  BY <1>15, SckAssumption DEF ChooseDisplay, kit, history
<1>16. ASSUME NEW b \in BOOLEAN, StartCompletes(b) PROVE FollowInv'
  BY <1>16 DEF StartCompletes, handlers
<1>17. ASSUME NEW p \in Pictures, NEW o \in BOOLEAN, NEW b \in BOOLEAN,
              SampleArrives(p, o, b)
       PROVE FollowInv'
  <2> HIDE DEF FollowInv, Types, KitType, StageType, HandlersType
  <2>1. /\ holder = None /\ chosen = None /\ holder' # "content"
        /\ UNCHANGED <<stage, current, permanent, stream, pending, asked>>
    BY <1>17, Arrival, SckAssumption DEF KitInv
  <2> QED
    BY <2>1, SckAssumption DEF FollowInv
<1>18. CASE DropSample
  BY <1>18, SckAssumption DEF DropSample, kit
<1>19. CASE StoreSample
  BY <1>19, SckAssumption DEF StoreSample, kit
<1> QED
  BY Steps, <1>1, <1>2, <1>3, <1>4, <1>5, <1>6, <1>7, <1>8, <1>9, <1>10, <1>11, <1>12,
     <1>13, <1>14, <1>15, <1>16, <1>17, <1>18, <1>19

\* The end of the capturer stays quiet.
LEMMA EndStep ==
  ASSUME Types, KitInv, EndInv, [Next]_vars
  PROVE  EndInv'
<1> USE DEF EndInv, Due
<1>1. CASE UNCHANGED vars
  BY <1>1 DEF vars, kit, handlers, history
<1>2. CASE StartStream
  BY <1>2, SckAssumption DEF StartStream, history, KitInv
<1>3. CASE ChangeConfiguration
  BY <1>3 DEF ChangeConfiguration, kit, handlers, history
<1>4. CASE Start
  BY <1>4 DEF Start, handlers, history, KitInv
<1>5. ASSUME NEW d \in Displays, SelectSource(d) PROVE EndInv'
  BY <1>5 DEF SelectSource, handlers
<1>6. CASE CaptureFrame
  BY <1>6 DEF CaptureFrame, handlers, history
<1>7. CASE Deliver
  BY <1>7 DEF Deliver, kit, handlers, history
<1>8. CASE Stop
  BY <1>8 DEF Stop, Caller, handlers, history, KitInv
<1>9. CASE Release
  BY <1>9 DEF Release, kit, handlers, history
<1>10. CASE ContentArrives
  BY <1>10, SckAssumption DEF ContentArrives, history
<1>11. CASE UpdateStream
  BY <1>11, SckAssumption DEF UpdateStream, history
<1>12. CASE MakeStream
  BY <1>12, SckAssumption DEF MakeStream, handlers, history
<1>13. CASE AddOutputFails
  BY <1>13, SckAssumption DEF AddOutputFails, kit, history
<1>14. CASE ContentFails
  BY <1>14, SckAssumption DEF ContentFails, kit, history
<1>15. ASSUME NEW c \in Contents, ChooseDisplay(c) PROVE EndInv'
  BY <1>15 DEF ChooseDisplay, kit, history
<1>16. ASSUME NEW b \in BOOLEAN, StartCompletes(b) PROVE EndInv'
  BY <1>16 DEF StartCompletes, handlers
<1>17. ASSUME NEW p \in Pictures, NEW o \in BOOLEAN, NEW b \in BOOLEAN,
              SampleArrives(p, o, b)
       PROVE EndInv'
  BY <1>17, Arrival, SckAssumption DEF history
<1>18. CASE DropSample
  BY <1>18, SckAssumption DEF DropSample, kit
<1>19. CASE StoreSample
  BY <1>19, SckAssumption DEF StoreSample, kit
<1> QED
  BY Steps, <1>1, <1>2, <1>3, <1>4, <1>5, <1>6, <1>7, <1>8, <1>9, <1>10, <1>11, <1>12,
     <1>13, <1>14, <1>15, <1>16, <1>17, <1>18, <1>19

-----------------------------------------------------------------------------
IInv == Types /\ KitInv /\ RegionInv /\ ShownInv /\ FollowInv /\ EndInv

\* The inductive invariant holds at first ...
LEMMA Initially == Init => IInv
<1> SUFFICES ASSUME Init PROVE IInv
  OBVIOUS
<1>1. Types
  <2>1. StageType
    BY SckAssumption DEF Init, StageType
  <2>2. KitType
    <3>1. pending = 0 /\ 0 \in 0 .. MaxPending
      BY SckAssumption DEF Init
    <3> QED
      BY <3>1 DEF Init, KitType
  <2>3. HandlersType /\ FramesType /\ HistoryType
    BY DEF Init, HandlersType, FramesType, HistoryType
  <2> QED
    BY <2>1, <2>2, <2>3 DEF Types
<1>2. KitInv /\ RegionInv /\ FollowInv /\ EndInv /\ ShownInv
  BY SckAssumption DEF Init, KitInv, RegionInv, FollowInv, EndInv, ShownInv, LatestIsShown
<1> QED
  BY <1>1, <1>2 DEF IInv

\* ... and always.
LEMMA Invariance == Spec => []IInv
<1>1. IInv /\ [Next]_vars => IInv'
  BY TypeStep, KitStep, RegionStep, ShownStep, FollowStep, EndStep DEF IInv
<1> QED
  BY Initially, <1>1, PTL DEF Spec

\* The types of the variables, for any displays, contents and bound.
THEOREM TypeCorrect == Spec => []TypeOK
<1>1. IInv => TypeOK
  BY TypesAreTypeOK DEF IInv
<1> QED
  BY Invariance, <1>1, PTL

\* desktop_frame::updated_region of capture_frame: a frame returned as unchanged shows
\* what the one before it showed.
THEOREM RegionTellsOfChangeAlways == Spec => RegionTellsOfChange
<1>1. IInv /\ [Next]_vars => [Deliver => view' = frame.surface]_vars
  BY DEF IInv, RegionInv, Deliver
<1> QED
  BY Invariance, <1>1, PTL DEF Spec, RegionTellsOfChange

\* on_new_iosurface: the latest frame is the stream's last sample, but for surfaces that
\* could not be locked and for a first sample of the same size with wrong rectangles.
THEOREM LatestIsShownAlways == Spec => []LatestIsShown
<1>1. IInv => LatestIsShown
  BY DEF IInv, ShownInv
<1> QED
  BY Invariance, <1>1, PTL

\* select_source: the stream ends up with the display selected, however many requests for
\* shareable content are in flight.
THEOREM SelectionFollowedAlways == Spec => []SelectionFollowed
<1>1. IInv => SelectionFollowed
  BY DEF IInv, KitInv, FollowInv, SelectionFollowed, Settled
<1> QED
  BY Invariance, <1>1, PTL

\* ~screen_capturer_sck: after it no callback is inside the capturer, and the start of the
\* stream reports to it only if the destructor began with that start due.
THEOREM EndIsQuietAlways == Spec => []EndIsQuiet
<1>1. IInv => EndIsQuiet
  BY DEF IInv, EndInv, EndIsQuiet
<1> QED
  BY Invariance, <1>1, PTL
=============================================================================
