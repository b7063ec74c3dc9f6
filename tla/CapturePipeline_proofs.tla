------------------------ MODULE CapturePipeline_proofs ------------------------
(***************************************************************************)
(* Proofs about CapturePipeline, for any screens, resolutions and samples: *)
(* which frames get through the chain, and what the application makes of   *)
(* the regions they come with.                                             *)
(***************************************************************************)
EXTENDS CapturePipeline, TLAPS

PartType == /\ current \in [Queues -> {0, 1}]
            /\ main \in Sources
            /\ gdi \in [source : Sources, seen : {"new", "same", "scaled", "resized"}]
            /\ blank \in [first : BOOLEAN, verdict : BOOLEAN, received : BOOLEAN]
            /\ permanent \in BOOLEAN /\ litSeen \in BOOLEAN

\* Where a frame in the chain comes from: one of directx is of the screen directx has
\* selected, and directx has not been given up.
OriginInv ==
  /\ frame.slot \in MainSlots \cup GdiSlots \cup {NoFrame}
  /\ frame.slot \in MainSlots => ~permanent /\ frame.slot[1] = main
  /\ stage \in {"blank_detector", "fallback"} => ~permanent /\ frame.slot \notin GdiSlots
  /\ stage \in {"idle", "gdi"} \/ frame.result # "success" => frame.slot = NoFrame
  /\ frame.result = "success" => frame.slot # NoFrame

\* What select_source has agreed to is what the capturers in charge have selected.
SelectedInv == wanted.ok => /\ gdi.source = wanted.source
                            /\ ~permanent => main = wanted.source

\* What the blank detector lets through is not the first that directx has shown.
BlankInv ==
  /\ blank.received => litSeen
  /\ ~blank.first /\ ~blank.verdict => litSeen
  /\ stage = "blank_detector" /\ frame.result = "success" /\ Lit(frame.pic) => litSeen
  /\ stage \in {"fallback", "differ"} /\ frame.slot \in MainSlots => litSeen

\* The screens have one size, and directx has seen nothing lit while it was dark.
SceneInv == /\ \E z \in Sizes : screen \in [Sources -> [z -> Colours]]
            /\ dark \in BOOLEAN
            /\ litSeen => ~dark

\* What is in the buffers: the differ's last frame, as long as its buffer is in a queue,
\* and the frame on its way have the size of their buffers.
BufferInv ==
  /\ buffer \in [Slots -> Sizes \cup {NoFrame}]
  /\ last \in [slot : Slots \cup {NoFrame}, pic : Pictures \cup {NoFrame}]
  /\ last.slot # NoFrame => last.pic \in Pictures /\ Full(last.pic) = buffer[last.slot]
  /\ view \in Pictures \cup {NoFrame}
  /\ last.pic # NoFrame => view \in Pictures /\ Full(view) = Full(last.pic)

HandedInv ==
  /\ faults \in Scenarios
  /\ dirty \in [MainSlots -> SUBSET Blocks]
  /\ stage \in {"idle", "blank_detector", "fallback", "gdi", "differ"}
  /\ gap \in BOOLEAN
  /\ frame \in [result : Results, slot : Slots \cup {NoFrame}, pic : Pictures \cup {NoFrame},
               region : SUBSET Blocks]
  /\ frame.slot # NoFrame => frame.pic \in Pictures /\ Full(frame.pic) = buffer[frame.slot]

\* What is being delivered shows the screen as it is, and is in the buffer its queue has
\* come to; that there is nothing to deliver has been noted.
FrameInv ==
  /\ stage = "differ" /\ frame.slot = NoFrame => gap
  /\ frame.slot \in MainSlots => /\ frame.pic = Surface
                                 /\ frame.slot = <<main, current[main]>>
  /\ frame.slot \in GdiSlots => /\ frame.pic = screen[gdi.source] /\ frame.region = Size
                                /\ frame.slot = <<"gdi", current["gdi"]>>

\* The differ's last frame is what the application has, the capturers will not draw over
\* it, and what directx does not report is as in that frame.
LastInv ==
  ~gap /\ last.pic # NoFrame =>
    /\ view = last.pic
    /\ ~permanent => main = gdi.source
    /\ stage = "idle" /\ ~permanent /\ last.slot \in MainSlots =>
         last.slot = <<main, current[main]>>
    /\ stage # "differ" /\ last.slot \in GdiSlots => last.slot = <<"gdi", current["gdi"]>>
    /\ stage = "idle" /\ ~permanent /\ ~dark /\ Full(last.pic) = Size =>
         \A b \in Size : b \notin dirty[<<main, NextSlot(main)>>] => last.pic[b] = Surface[b]
    /\ frame.slot \in MainSlots /\ litSeen /\ Full(last.pic) = Size =>
         \A b \in Size : b \notin frame.region => last.pic[b] = frame.pic[b]

-----------------------------------------------------------------------------
\* The slots of the capturers are told apart.
LEMMA SlotsDiffer ==
  /\ MainSlots \cap GdiSlots = {} /\ NoFrame \notin MainSlots /\ NoFrame \notin GdiSlots
  /\ Nothing.slot = NoFrame /\ Nothing.result # "success"
  BY PipelineAssumption DEF MainSlots, GdiSlots, Slots, Nothing

\* The next frame of a queue is in one of its slots.
LEMMA NextInQueue ==
  ASSUME PartType
  PROVE  /\ \A q \in Queues : NextSlot(q) \in {0, 1}
         /\ <<main, NextSlot(main)>> \in MainSlots
         /\ GdiSlot \in GdiSlots /\ GdiSlot[2] \in {0, 1}
<1>1. \A q \in Queues : NextSlot(q) \in {0, 1}
  BY DEF PartType, NextSlot
<1>2. main \in Sources /\ main \in Queues /\ "gdi" \in Queues
  BY DEF PartType, Queues
<1>3. <<main, NextSlot(main)>> \in MainSlots
  BY <1>1, <1>2 DEF MainSlots
<1>4. GdiSlot \in GdiSlots /\ GdiSlot[2] \in {0, 1}
  BY <1>1, <1>2 DEF GdiSlot, GdiSlots
<1> QED
  BY <1>1, <1>3, <1>4

\* Every step is one of these.
LEMMA Steps ==
  ASSUME Environment \/ Capture \/ Select
  PROVE  \/ /\ stage \in {"idle", "gdi"}
            /\ \/ \E s \in Sources, b \in Blocks : Draw(s, b)
               \/ Brighten
               \/ \E z \in Sizes : ChangeDisplay(z)
         \/ CaptureMain
         \/ \E r \in Results, w \in SUBSET Blocks : FailMain(r, w)
         \/ BlankDetector \/ Fallback \/ CaptureGdi \/ FailGdi \/ DifferNull \/ DifferFrame
         \/ \E s \in Sources, m, g \in BOOLEAN : SelectSource(s, m, g)
  BY DEF Environment, Capture, Select

-----------------------------------------------------------------------------
\* The types of the parts in every step.
LEMMA PartStep ==
  ASSUME PartType, [Environment \/ Capture \/ Select]_vars
  PROVE  PartType'
<1> USE DEF PartType
<1>1. CASE UNCHANGED vars
  BY <1>1 DEF vars, scene, store, app
<1>2. ASSUME NEW s \in Sources, NEW b \in Blocks, Draw(s, b) PROVE PartType'
  BY <1>2 DEF Draw, store, app
<1>3. CASE Brighten
  BY <1>3 DEF Brighten, store, app
<1>4. ASSUME NEW z \in Sizes, ChangeDisplay(z) PROVE PartType'
  BY <1>4 DEF ChangeDisplay, store, app
<1>5. CASE CaptureMain
  BY <1>5, NextInQueue DEF CaptureMain
<1>6. ASSUME NEW r \in Results, NEW w \in SUBSET Blocks, FailMain(r, w) PROVE PartType'
  BY <1>6, NextInQueue DEF FailMain, app
<1>7. CASE BlankDetector
  <2>1. UNCHANGED <<current, main, gdi, permanent, litSeen>>
    BY <1>7 DEF BlankDetector, store, app
  <2>2. CASE PassOn
    BY <2>1, <2>2 DEF PassOn
  <2>3. CASE Judge
    <3> DEFINE looks == frame.region # {} \/ blank.first
               verdict == IF looks THEN is_blank_frame(frame.pic) ELSE blank.verdict
               now == [first |-> blank.first /\ ~looks, verdict |-> verdict, received |-> ~verdict]
    <3>1. blank' = now
      BY <2>3, Zenon DEF Judge
    <3>2. verdict \in BOOLEAN /\ (blank.first /\ ~looks) \in BOOLEAN /\ (~verdict) \in BOOLEAN
      <4>1. blank.verdict \in BOOLEAN
        OBVIOUS
      <4>2. is_blank_frame(frame.pic) \in BOOLEAN
        BY Zenon DEF is_blank_frame
      <4>3. verdict \in BOOLEAN
        BY <4>1, <4>2, Zenon
      <4>4. (blank.first /\ ~looks) \in BOOLEAN /\ (~verdict) \in BOOLEAN
        BY Zenon
      <4> QED
        BY <4>3, <4>4
    <3>3. now \in [first : BOOLEAN, verdict : BOOLEAN, received : BOOLEAN]
      BY <3>2, Zenon
    <3> QED
      BY <2>1, <3>1, <3>3, Zenon
  <2> QED
    BY <1>7, <2>2, <2>3 DEF BlankDetector
<1>8. CASE Fallback
  BY <1>8 DEF Fallback, scene, store, app
<1>9. CASE CaptureGdi
  BY <1>9, NextInQueue DEF CaptureGdi, scene, app, See
<1>10. CASE FailGdi
  BY <1>10, NextInQueue DEF FailGdi, scene, See
<1>11. CASE DifferNull
  BY <1>11 DEF DifferNull, scene, store
<1>12. CASE DifferFrame
  BY <1>12 DEF DifferFrame, scene
<1>13. ASSUME NEW s \in Sources, NEW m \in BOOLEAN, NEW g \in BOOLEAN, SelectSource(s, m, g) PROVE PartType'
  BY <1>13 DEF SelectSource, scene, store
<1> QED
  BY Steps, <1>1, <1>2, <1>3, <1>4, <1>5, <1>6, <1>7, <1>8, <1>9, <1>10, <1>11, <1>12, <1>13

\* Where frames come from in every step.
LEMMA OriginStep ==
  ASSUME PartType, OriginInv, [Environment \/ Capture \/ Select]_vars
  PROVE  OriginInv'
<1> USE SlotsDiffer DEF OriginInv
<1>1. CASE UNCHANGED vars
  BY <1>1 DEF vars, scene, store, app
<1>2. ASSUME NEW s \in Sources, NEW b \in Blocks, Draw(s, b) PROVE OriginInv'
  BY <1>2 DEF Draw, store, app
<1>3. CASE Brighten
  BY <1>3 DEF Brighten, store, app
<1>4. ASSUME NEW z \in Sizes, ChangeDisplay(z) PROVE OriginInv'
  BY <1>4 DEF ChangeDisplay, store, app
<1>5. CASE CaptureMain
  BY <1>5, NextInQueue DEF CaptureMain, MainTurn
<1>6. ASSUME NEW r \in Results, NEW w \in SUBSET Blocks, FailMain(r, w) PROVE OriginInv'
  BY <1>6, NextInQueue DEF FailMain, app, MainTurn, Nothing
<1>7. CASE BlankDetector
  BY <1>7 DEF BlankDetector, scene, store, app, PassOn, Judge, Nothing
<1>8. CASE Fallback
  BY <1>8 DEF Fallback, scene, store, app, PartType
<1>9. CASE CaptureGdi
  BY <1>9, NextInQueue DEF CaptureGdi, scene, app
<1>10. CASE FailGdi
  BY <1>10 DEF FailGdi, scene
<1>11. CASE DifferNull
  BY <1>11 DEF DifferNull, scene, store
<1>12. CASE DifferFrame
  BY <1>12 DEF DifferFrame, scene
<1>13. ASSUME NEW s \in Sources, NEW m \in BOOLEAN, NEW g \in BOOLEAN, SelectSource(s, m, g) PROVE OriginInv'
  BY <1>13 DEF SelectSource, scene, store
<1> QED
  BY Steps, <1>1, <1>2, <1>3, <1>4, <1>5, <1>6, <1>7, <1>8, <1>9, <1>10, <1>11, <1>12, <1>13

\* The selection in every step.
LEMMA SelectedStep ==
  ASSUME PartType, SelectedInv, [Environment \/ Capture \/ Select]_vars
  PROVE  SelectedInv'
<1> USE DEF SelectedInv, PartType
<1>1. CASE UNCHANGED vars
  BY <1>1 DEF vars, scene, store, app
<1>2. ASSUME NEW s \in Sources, NEW b \in Blocks, Draw(s, b) PROVE SelectedInv'
  BY <1>2 DEF Draw, store, app
<1>3. CASE Brighten
  BY <1>3 DEF Brighten, store, app
<1>4. ASSUME NEW z \in Sizes, ChangeDisplay(z) PROVE SelectedInv'
  BY <1>4 DEF ChangeDisplay, store, app
<1>5. CASE CaptureMain
  BY <1>5 DEF CaptureMain
<1>6. ASSUME NEW r \in Results, NEW w \in SUBSET Blocks, FailMain(r, w) PROVE SelectedInv'
  BY <1>6 DEF FailMain, app
<1>7. CASE BlankDetector
  BY <1>7 DEF BlankDetector, scene, store, app
<1>8. CASE Fallback
  BY <1>8 DEF Fallback, scene, store, app
<1>9. CASE CaptureGdi
  BY <1>9 DEF CaptureGdi, scene, app, See
<1>10. CASE FailGdi
  BY <1>10 DEF FailGdi, scene, See
<1>11. CASE DifferNull
  BY <1>11 DEF DifferNull, scene, store
<1>12. CASE DifferFrame
  BY <1>12 DEF DifferFrame, scene
<1>13. ASSUME NEW s \in Sources, NEW m \in BOOLEAN, NEW g \in BOOLEAN, SelectSource(s, m, g) PROVE SelectedInv'
  BY <1>13 DEF SelectSource, scene, store
<1> QED
  BY Steps, <1>1, <1>2, <1>3, <1>4, <1>5, <1>6, <1>7, <1>8, <1>9, <1>10, <1>11, <1>12, <1>13

\* What is known of blank frames in every step.
LEMMA BlankStep ==
  ASSUME PartType, OriginInv, BlankInv, [Environment \/ Capture \/ Select]_vars
  PROVE  BlankInv'
<1> USE SlotsDiffer DEF BlankInv
<1>1. CASE UNCHANGED vars
  BY <1>1 DEF vars, scene, store, app
<1>2. ASSUME NEW s \in Sources, NEW b \in Blocks, Draw(s, b) PROVE BlankInv'
  BY <1>2 DEF Draw, store, app
<1>3. CASE Brighten
  BY <1>3 DEF Brighten, store, app
<1>4. ASSUME NEW z \in Sizes, ChangeDisplay(z) PROVE BlankInv'
  BY <1>4 DEF ChangeDisplay, store, app
<1>5. CASE CaptureMain
  BY <1>5 DEF CaptureMain
<1>6. ASSUME NEW r \in Results, NEW w \in SUBSET Blocks, FailMain(r, w) PROVE BlankInv'
  BY <1>6 DEF FailMain, app, Nothing
<1>7. CASE BlankDetector
  BY <1>7 DEF BlankDetector, scene, store, app, OriginInv, PartType, PassOn, Judge, is_blank_frame, Nothing
<1>8. CASE Fallback
  BY <1>8 DEF Fallback, scene, store, app
<1>9. CASE CaptureGdi
  BY <1>9, NextInQueue DEF CaptureGdi, scene, app
<1>10. CASE FailGdi
  BY <1>10 DEF FailGdi, scene
<1>11. CASE DifferNull
  BY <1>11 DEF DifferNull, scene, store
<1>12. CASE DifferFrame
  BY <1>12 DEF DifferFrame, scene
<1>13. ASSUME NEW s \in Sources, NEW m \in BOOLEAN, NEW g \in BOOLEAN, SelectSource(s, m, g) PROVE BlankInv'
  BY <1>13 DEF SelectSource, scene, store
<1> QED
  BY Steps, <1>1, <1>2, <1>3, <1>4, <1>5, <1>6, <1>7, <1>8, <1>9, <1>10, <1>11, <1>12, <1>13


\* Size is the size that all screens have, and what directx sees has it too.
LEMMA SizeFits ==
  ASSUME PartType, SceneInv
  PROVE  /\ Size \in Sizes /\ screen \in [Sources -> [Size -> Colours]]
         /\ Surface \in [Size -> Colours]
         /\ Lit(Surface) => ~dark
<1>1. PICK z \in Sizes : screen \in [Sources -> [z -> Colours]]
  BY DEF SceneInv
<1>2. \A n \in Sources : DOMAIN screen[n] = z
  BY <1>1
<1>3. Size \in Sizes /\ \A n \in Sources : DOMAIN screen[n] = Size
  BY <1>2, Zenon DEF Size
<1>4. main \in Sources
  BY DEF PartType
<1>5. Size = z
  BY <1>2, <1>3, <1>4
<1>6. Surface \in [Size -> Colours]
  BY <1>1, <1>4, <1>5 DEF Surface, Fill, Colours
<1>7. Lit(Surface) => ~dark
  BY DEF Lit, Surface, Fill, Full
<1> QED
  BY <1>1, <1>3, <1>5, <1>6, <1>7

\* The scene in every step.
LEMMA SceneStep ==
  ASSUME PartType, SceneInv, [Environment \/ Capture \/ Select]_vars
  PROVE  SceneInv'
<1> USE DEF SceneInv
<1>1. CASE UNCHANGED vars
  BY <1>1 DEF vars, scene, store, app
<1>2. ASSUME NEW s \in Sources, NEW b \in Blocks, Draw(s, b) PROVE SceneInv'
  <2>1. PICK z \in Sizes : screen \in [Sources -> [z -> Colours]]
    OBVIOUS
  <2>2. (CHOOSE c \in Colours : c # screen[s][b]) \in Colours
    <3>1. \E c \in Colours : c # screen[s][b]
      BY DEF Colours
    <3> QED
      BY <3>1, Zenon
  <2>3. screen' = [screen EXCEPT ![s][b] = CHOOSE c \in Colours : c # screen[s][b]]
    BY <1>2, Zenon DEF Draw
  <2>4. screen' \in [Sources -> [z -> Colours]]
    <3> DEFINE d == CHOOSE c \in Colours : c # screen[s][b]
    <3> HIDE DEF d
    <3> QED
      BY <2>1, <2>2, <2>3 DEF d
  <2> QED
    BY <1>2, <2>4 DEF Draw, store, app
<1>3. CASE Brighten
  BY <1>3 DEF Brighten, store, app
<1>4. ASSUME NEW z \in Sizes, ChangeDisplay(z) PROVE SceneInv'
  <2>1. PICK y \in Sizes : screen \in [Sources -> [y -> Colours]]
    OBVIOUS
  <2>2. Size = y
    BY <2>1, SizeFits DEF PartType
  <2>3. screen' \in [Sources -> [z -> Colours]]
    BY <1>4, <2>1, <2>2 DEF ChangeDisplay, Colours
  <2> QED
    BY <1>4, <2>3 DEF ChangeDisplay, store, app
<1>5. CASE CaptureMain
  BY <1>5, SizeFits DEF CaptureMain
<1>6. ASSUME NEW r \in Results, NEW w \in SUBSET Blocks, FailMain(r, w) PROVE SceneInv'
  BY <1>6 DEF FailMain, app
<1>7. CASE BlankDetector
  BY <1>7 DEF BlankDetector, scene, store, app
<1>8. CASE Fallback
  BY <1>8 DEF Fallback, scene, store, app
<1>9. CASE CaptureGdi
  BY <1>9 DEF CaptureGdi, scene, app
<1>10. CASE FailGdi
  BY <1>10 DEF FailGdi, scene
<1>11. CASE DifferNull
  BY <1>11 DEF DifferNull, scene, store
<1>12. CASE DifferFrame
  BY <1>12 DEF DifferFrame, scene
<1>13. ASSUME NEW s \in Sources, NEW m \in BOOLEAN, NEW g \in BOOLEAN, SelectSource(s, m, g) PROVE SceneInv'
  BY <1>13 DEF SelectSource, scene, store
<1> QED
  BY Steps, <1>1, <1>2, <1>3, <1>4, <1>5, <1>6, <1>7, <1>8, <1>9, <1>10, <1>11, <1>12, <1>13

\* The size of the screens after a step that gives them all one.
LEMMA SizeNext ==
  ASSUME NEW z \in Sizes, main \in Sources, \A n \in Sources : DOMAIN screen'[n] = z
  PROVE  Size' = z
<1>1. Size' \in Sizes /\ \A n \in Sources : DOMAIN screen'[n] = Size'
  BY Zenon DEF Size
<1> QED
  BY <1>1

\* What directx sees, after a step that leaves the scene alone.
LEMMA SurfaceStays ==
  ASSUME UNCHANGED <<screen, dark, main>>
  PROVE  Size' = Size /\ Surface' = Surface
<1>1. Size' = Size
  BY DEF Size
<1> QED
  BY <1>1 DEF Surface, Fill

\* The next slot of a queue that stays where it is, and of one that moves on.
LEMMA SlotsAlternate ==
  ASSUME PartType
  PROVE  /\ \A q \in Queues : NextSlot(q) # current[q]
         /\ \A q \in Queues : current'[q] = current[q] => NextSlot(q)' = NextSlot(q)
         /\ main \in Queues /\ "gdi" \in Queues /\ main # "gdi"
<1>1. \A q \in Queues : NextSlot(q) # current[q]
  BY DEF PartType, NextSlot
<1>2. \A q \in Queues : current'[q] = current[q] => NextSlot(q)' = NextSlot(q)
  BY DEF NextSlot
<1> QED
  BY <1>1, <1>2, PipelineAssumption DEF PartType, Queues

\* The frame on its way in every step.
LEMMA FrameStep ==
  ASSUME PartType, OriginInv, SceneInv, FrameInv, [Environment \/ Capture \/ Select]_vars
  PROVE  FrameInv'
<1> USE SlotsDiffer DEF FrameInv
<1>1. CASE UNCHANGED vars
  BY <1>1, SurfaceStays DEF vars, scene, store, app
<1>2. ASSUME stage \in {"idle", "gdi"}, NEW s \in Sources, NEW b \in Blocks, Draw(s, b) PROVE FrameInv'
  BY <1>2 DEF Draw, store, app, OriginInv
<1>3. ASSUME stage \in {"idle", "gdi"}, Brighten PROVE FrameInv'
  BY <1>3 DEF Brighten, store, app, OriginInv
<1>4. ASSUME stage \in {"idle", "gdi"}, NEW z \in Sizes, ChangeDisplay(z) PROVE FrameInv'
  BY <1>4 DEF ChangeDisplay, store, app, OriginInv
<1>5. CASE CaptureMain
  BY <1>5, NextInQueue, SurfaceStays, SlotsAlternate DEF CaptureMain, PartType
<1>6. ASSUME NEW r \in Results, NEW w \in SUBSET Blocks, FailMain(r, w) PROVE FrameInv'
  BY <1>6, SurfaceStays DEF FailMain, app, Nothing
<1>7. CASE BlankDetector
  BY <1>7, SurfaceStays DEF BlankDetector, scene, store, app, PassOn, Judge, Nothing
<1>8. CASE Fallback
  BY <1>8, SurfaceStays DEF Fallback, scene, store, app, OriginInv
<1>9. CASE CaptureGdi
  BY <1>9, NextInQueue, SurfaceStays, SlotsAlternate DEF CaptureGdi, scene, app, GdiSlot, PartType, See
<1>10. CASE FailGdi
  BY <1>10, SurfaceStays DEF FailGdi, scene
<1>11. CASE DifferNull
  BY <1>11, SurfaceStays DEF DifferNull, scene, store
<1>12. CASE DifferFrame
  BY <1>12 DEF DifferFrame, scene
<1>13. ASSUME NEW s \in Sources, NEW m \in BOOLEAN, NEW g \in BOOLEAN, SelectSource(s, m, g) PROVE FrameInv'
  BY <1>13 DEF SelectSource, scene, store, OriginInv
<1> QED
  BY Steps, <1>1, <1>2, <1>3, <1>4, <1>5, <1>6, <1>7, <1>8, <1>9, <1>10, <1>11, <1>12, <1>13

\* A picture is a function on one of the sizes.
LEMMA PictureSize ==
  /\ \A p \in Pictures : /\ Full(p) \in Sizes /\ Full(p) \subseteq Blocks
                         /\ p \in [Full(p) -> Colours] /\ p # NoFrame
  /\ \A z \in Sizes : [z -> Colours] \subseteq Pictures /\ z \subseteq Blocks
  BY PipelineAssumption DEF Pictures, Full, Blocks

\* Drawing leaves the buffers in order.
LEMMA PutKeeps ==
  ASSUME BufferInv, NEW k \in Slots, NEW p \in Pictures, Put(k, p), view' = view
  PROVE  BufferInv'
<1> USE PictureSize DEF BufferInv, Put
<1>1. buffer' \in [Slots -> Sizes \cup {NoFrame}] /\ buffer'[k] = Full(p)
  OBVIOUS
<1>2. CASE last.slot # k
  BY <1>1, <1>2
<1>3. CASE last.slot = k /\ buffer[k] = Full(p)
  <2>1. k # NoFrame
    BY PipelineAssumption
  <2>2. last.pic # NoFrame /\ Full(view) = Full(p)
    BY <1>3, <2>1
  <2>3. last' = [slot |-> k, pic |-> p]
    BY <1>3
  <2> QED
    BY <1>1, <2>2, <2>3
<1>4. CASE last.slot = k /\ buffer[k] # Full(p)
  <2>1. last' = [slot |-> NoFrame, pic |-> last.pic]
    BY <1>4
  <2> QED
    BY <1>1, <2>1
<1> QED
  BY <1>2, <1>3, <1>4

\* Who lets go of the buffers that a reset frame queue drops leaves them in order.
LEMMA ResetKeeps ==
  ASSUME BufferInv, view' = view, NEW z \in Sizes \cup {NoFrame},
         buffer' \in [Slots -> Sizes \cup {NoFrame}],
         \A k \in Slots \ GdiSlots : buffer'[k] = buffer[k],
         last' = IF last.slot \in GdiSlots THEN [last EXCEPT !.slot = NoFrame] ELSE last
  PROVE  BufferInv'
  BY DEF BufferInv

\* What the application sees after a delivery, as far as its size goes.
LEMMA ViewFits ==
  ASSUME BufferInv, HandedInv, DifferFrame
  PROVE  view' \in Pictures /\ Full(view') = Full(frame.pic)
<1> DEFINE p == frame.pic
           region == IF Comparable(p) THEN compare_frames(p, frame.region) ELSE Full(p)
<1>1. p \in Pictures
  BY DEF HandedInv, DifferFrame
<1>2. \A b \in Full(p) : b \notin region => view[b] \in Colours
  BY <1>1, PictureSize DEF Comparable, BufferInv, Full
<1>3. view' = [b \in Full(p) |-> IF b \in region THEN p[b] ELSE view[b]]
  BY Zenon DEF DifferFrame
<1> HIDE DEF region
<1>4. view' \in [Full(p) -> Colours]
  BY <1>1, <1>2, <1>3, PictureSize
<1> QED
  BY <1>1, <1>4, PictureSize DEF Full

\* The buffers in every step.
LEMMA BufferStep ==
  ASSUME PartType, SceneInv, HandedInv, BufferInv, [Environment \/ Capture \/ Select]_vars
  PROVE  BufferInv'
<1>1. CASE UNCHANGED vars
  BY <1>1 DEF vars, scene, store, app, BufferInv
<1>2. ASSUME stage \in {"idle", "gdi"}, NEW s \in Sources, NEW b \in Blocks, Draw(s, b) PROVE BufferInv'
  BY <1>2 DEF Draw, store, app, BufferInv
<1>3. ASSUME stage \in {"idle", "gdi"}, Brighten PROVE BufferInv'
  BY <1>3 DEF Brighten, store, app, BufferInv
<1>4. ASSUME stage \in {"idle", "gdi"}, NEW z \in Sizes, ChangeDisplay(z) PROVE BufferInv'
  BY <1>4 DEF ChangeDisplay, store, app, BufferInv
<1>5. CASE CaptureMain
  <2>1. <<main, NextSlot(main)>> \in Slots /\ Surface \in Pictures
    BY NextInQueue, SizeFits, PictureSize DEF Slots
  <2> QED
    BY <1>5, <2>1, PutKeeps DEF CaptureMain
<1>6. ASSUME NEW r \in Results, NEW w \in SUBSET Blocks, FailMain(r, w) PROVE BufferInv'
  <2> DEFINE k == <<main, NextSlot(main)>>
             p == [b \in Size |-> IF b \notin w /\ last.slot = k /\ buffer[k] = Size
                                  THEN last.pic[b] ELSE Surface[b]]
  <2>1. k \in Slots
    BY NextInQueue DEF Slots
  <2>2. p \in Pictures
    <3>1. k # NoFrame
      BY <2>1, PipelineAssumption
    <3>2. last.slot = k /\ buffer[k] = Size => last.pic \in [Size -> Colours]
      BY <3>1, PictureSize DEF BufferInv
    <3>3. p \in [Size -> Colours]
      BY <3>2, SizeFits
    <3> QED
      BY <3>3, SizeFits, PictureSize
  <2>3. CASE UNCHANGED <<buffer, last>>
    BY <1>6, <2>3 DEF FailMain, app, BufferInv
  <2>4. CASE Put(k, p)
    BY <1>6, <2>1, <2>2, <2>4, PutKeeps DEF FailMain, app
  <2> QED
    BY <1>6, <2>3, <2>4 DEF FailMain
<1>7. CASE BlankDetector
  BY <1>7 DEF BlankDetector, scene, store, app, BufferInv
<1>8. CASE Fallback
  BY <1>8 DEF Fallback, scene, store, app, BufferInv
<1>9. CASE CaptureGdi
  <2>1. GdiSlot \in Slots /\ screen[gdi.source] \in Pictures /\ Size \in Sizes
    BY NextInQueue, SizeFits, PictureSize DEF Slots, PartType
  <2>2. CASE resets
    <3>1. /\ buffer' = [buffer EXCEPT ![<<"gdi", 0>>] = Size, ![<<"gdi", 1>>] = NoFrame]
          /\ last' = IF last.slot \in GdiSlots THEN [last EXCEPT !.slot = NoFrame] ELSE last
          /\ view' = view
      BY <1>9, <2>2 DEF CaptureGdi, app
    <3>2. <<"gdi", 0>> \in GdiSlots /\ <<"gdi", 1>> \in GdiSlots
      BY DEF GdiSlots
    <3>3. /\ buffer' \in [Slots -> Sizes \cup {NoFrame}]
          /\ \A k \in Slots \ GdiSlots : buffer'[k] = buffer[k]
      BY <2>1, <3>1, <3>2 DEF BufferInv
    <3> QED
      BY <3>1, <3>3, ResetKeeps
  <2>3. CASE ~resets
    BY <1>9, <2>1, <2>3, PutKeeps DEF CaptureGdi, app
  <2> QED
    BY <2>2, <2>3
<1>10. CASE FailGdi
  <2>1. CASE resets
    <3>1. /\ buffer' = [k \in Slots |-> IF k \in GdiSlots THEN NoFrame ELSE buffer[k]]
          /\ last' = IF last.slot \in GdiSlots THEN [last EXCEPT !.slot = NoFrame] ELSE last
          /\ view' = view
      BY <1>10, <2>1 DEF FailGdi
    <3>2. /\ buffer' \in [Slots -> Sizes \cup {NoFrame}]
          /\ \A k \in Slots \ GdiSlots : buffer'[k] = buffer[k]
      BY <3>1 DEF BufferInv
    <3> QED
      BY <3>1, <3>2, ResetKeeps
  <2>2. CASE ~resets
    BY <1>10, <2>2 DEF FailGdi, BufferInv
  <2> QED
    BY <2>1, <2>2
<1>11. CASE DifferNull
  BY <1>11 DEF DifferNull, scene, store, BufferInv
<1>12. CASE DifferFrame
  <2>1. frame.slot \in Slots /\ frame.pic \in Pictures /\ frame.slot # NoFrame
    BY <1>12 DEF DifferFrame, HandedInv
  <2>2. last' = [slot |-> frame.slot, pic |-> frame.pic] /\ buffer' = buffer
    BY <1>12, Zenon DEF DifferFrame
  <2>3. view' \in Pictures /\ Full(view') = Full(last'.pic)
    BY <1>12, <2>2, ViewFits
  <2>4. Full(last'.pic) = buffer'[last'.slot]
    BY <2>1, <2>2 DEF HandedInv
  <2>5. last' \in [slot : Slots \cup {NoFrame}, pic : Pictures \cup {NoFrame}]
    BY <2>1, <2>2
  <2>6. last'.pic \in Pictures
    BY <2>1, <2>2
  <2> QED
    BY <2>2, <2>3, <2>4, <2>5, <2>6 DEF BufferInv
<1>13. ASSUME NEW s \in Sources, NEW m \in BOOLEAN, NEW g \in BOOLEAN, SelectSource(s, m, g) PROVE BufferInv'
  BY <1>13 DEF SelectSource, scene, store, BufferInv
<1> QED
  BY Steps, <1>1, <1>2, <1>3, <1>4, <1>5, <1>6, <1>7, <1>8, <1>9, <1>10, <1>11, <1>12, <1>13

\* What is handed on in every step.
LEMMA HandedStep ==
  ASSUME PartType, SceneInv, BufferInv, HandedInv, [Environment \/ Capture \/ Select]_vars
  PROVE  HandedInv'
<1>0. Nothing \in [result : Results, slot : Slots \cup {NoFrame}, pic : Pictures \cup {NoFrame},
                   region : SUBSET Blocks]
  BY DEF Nothing, Results
<1> USE SlotsDiffer DEF HandedInv
<1>1. CASE UNCHANGED vars
  BY <1>1 DEF vars, scene, store, app
<1>2. ASSUME stage \in {"idle", "gdi"}, NEW s \in Sources, NEW b \in Blocks, Draw(s, b) PROVE HandedInv'
  <2>1. dirty' \in [MainSlots -> SUBSET Blocks]
    BY <1>2 DEF Draw
  <2> QED
    BY <1>2, <2>1 DEF Draw, store, app
<1>3. ASSUME stage \in {"idle", "gdi"}, Brighten PROVE HandedInv'
  BY <1>3 DEF Brighten, store, app
<1>4. ASSUME stage \in {"idle", "gdi"}, NEW z \in Sizes, ChangeDisplay(z) PROVE HandedInv'
  BY <1>4 DEF ChangeDisplay, store, app
<1>5. CASE CaptureMain
  <2> DEFINE k == <<main, NextSlot(main)>>
  <2>1. k \in Slots /\ k \in MainSlots /\ Surface \in Pictures /\ Full(Surface) = Size
    BY NextInQueue, SizeFits, PictureSize DEF Slots, Full
  <2>2. frame' = [result |-> "success", slot |-> k, pic |-> Surface, region |-> dirty[k] \cap Size]
    BY <1>5 DEF CaptureMain
  <2>3. frame' \in [result : Results, slot : Slots \cup {NoFrame}, pic : Pictures \cup {NoFrame},
                    region : SUBSET Blocks]
    BY <2>1, <2>2 DEF Results
  <2>4. buffer'[k] = Full(Surface)
    BY <1>5, <2>1 DEF CaptureMain, Put, BufferInv
  <2> QED
    BY <1>5, <2>1, <2>2, <2>3, <2>4 DEF CaptureMain
<1>6. ASSUME NEW r \in Results, NEW w \in SUBSET Blocks, FailMain(r, w) PROVE HandedInv'
  <2>1. frame' = [Nothing EXCEPT !.result = r]
    BY <1>6 DEF FailMain
  <2>2. frame'.slot = NoFrame
    BY <2>1 DEF Nothing
  <2>3. frame' \in [result : Results, slot : Slots \cup {NoFrame}, pic : Pictures \cup {NoFrame},
                    region : SUBSET Blocks]
    BY <1>0, <1>6, <2>1
  <2> QED
    BY <1>6, <2>2, <2>3 DEF FailMain, app
<1>7. CASE BlankDetector
  BY <1>7, <1>0 DEF BlankDetector, scene, store, app, PassOn, Judge
<1>8. CASE Fallback
  BY <1>8 DEF Fallback, scene, store, app
<1>9. CASE CaptureGdi
  <2> DEFINE k == GdiSlot
             p == screen[gdi.source]
  <2>1. k \in Slots /\ k \in GdiSlots /\ p \in Pictures /\ Full(p) = Size /\ Size \subseteq Blocks
    BY NextInQueue, SizeFits, PictureSize DEF Slots, PartType, Full
  <2>2. frame' = [result |-> "success", slot |-> k, pic |-> p, region |-> Size]
    BY <1>9 DEF CaptureGdi
  <2>3. frame' \in [result : Results, slot : Slots \cup {NoFrame}, pic : Pictures \cup {NoFrame},
                    region : SUBSET Blocks]
    BY <2>1, <2>2 DEF Results
  <2>4. buffer'[k] = Full(p)
    <3>1. CASE resets
      BY <1>9, <2>1, <3>1 DEF CaptureGdi, BufferInv, GdiSlot
    <3>2. CASE ~resets
      BY <1>9, <2>1, <3>2 DEF CaptureGdi, BufferInv, Put
    <3> QED
      BY <3>1, <3>2
  <2> QED
    BY <1>9, <2>1, <2>2, <2>3, <2>4 DEF CaptureGdi, scene, app
<1>10. CASE FailGdi
  BY <1>10, <1>0 DEF FailGdi, scene
<1>11. CASE DifferNull
  BY <1>11, <1>0 DEF DifferNull, scene, store
<1>12. CASE DifferFrame
  BY <1>12, <1>0 DEF DifferFrame, scene
<1>13. ASSUME NEW s \in Sources, NEW m \in BOOLEAN, NEW g \in BOOLEAN, SelectSource(s, m, g) PROVE HandedInv'
  BY <1>13 DEF SelectSource, scene, store
<1> QED
  BY Steps, <1>1, <1>2, <1>3, <1>4, <1>5, <1>6, <1>7, <1>8, <1>9, <1>10, <1>11, <1>12, <1>13

\* Between the capturers' drawing and the last frame: as long as there is no gap, neither
\* draws where the differ's last frame is.
LEMMA LastIsSpared ==
  ASSUME PartType, BufferInv, LastInv, ~gap, last.slot # NoFrame
  PROVE  /\ MainTurn => last.slot # <<main, NextSlot(main)>>
         /\ GdiTurn /\ ~resets => last.slot # GdiSlot
<1>1. last.pic # NoFrame
  BY PictureSize DEF BufferInv
<1>2. main \in Queues /\ "gdi" \in Queues /\ NextSlot(main) # current[main]
      /\ NextSlot("gdi") # current["gdi"]
  BY SlotsAlternate
<1>3. MainTurn => last.slot # <<main, NextSlot(main)>>
  BY <1>1, <1>2, NextInQueue DEF LastInv, MainTurn
<1>4. GdiTurn /\ ~resets => last.slot # GdiSlot
  BY <1>1, <1>2, NextInQueue DEF LastInv, GdiTurn, GdiSlot
<1> QED
  BY <1>3, <1>4

\* What the application has after a delivery.
LEMMA ViewStep ==
  ASSUME PartType, OriginInv, BlankInv, SceneInv, BufferInv, HandedInv, FrameInv, LastInv,
         DifferFrame, ~gap \/ ~Comparable(frame.pic)
  PROVE  view' = frame.pic
<1> DEFINE p == frame.pic
           region == IF Comparable(p) THEN compare_frames(p, frame.region) ELSE Full(p)
<1>1. frame.slot # NoFrame /\ p \in [Full(p) -> Colours]
  BY PictureSize DEF DifferFrame, HandedInv
<1>2. view' = [b \in Full(p) |-> IF b \in region THEN p[b] ELSE view[b]]
  BY Zenon DEF DifferFrame
<1>3. ASSUME NEW b \in Full(p), b \notin region PROVE view[b] = p[b]
  <2>1. Comparable(p) /\ ~gap
    BY <1>3
  <2>2. last.pic # NoFrame /\ Full(last.pic) = Full(p) /\ view = last.pic
    BY <2>1 DEF Comparable, LastInv
  <2>3. b \notin frame.region \/ last.pic[b] = p[b]
    BY <1>3, <2>1 DEF compare_frames
  <2>4. CASE frame.slot \in MainSlots
    <3>1. litSeen /\ Full(p) = Size
      BY <2>4, SizeFits DEF BlankInv, FrameInv, DifferFrame, Full
    <3> QED
      BY <1>3, <2>1, <2>2, <2>3, <2>4, <3>1 DEF LastInv
  <2>5. CASE frame.slot \in GdiSlots
    <3>1. frame.region = Full(p)
      BY <2>5, SizeFits DEF FrameInv, PartType, Full
    <3> QED
      BY <1>3, <2>2, <2>3, <3>1
  <2> QED
    BY <1>1, <2>4, <2>5 DEF OriginInv
<1> HIDE DEF region
<1>4. view' = [b \in Full(p) |-> p[b]]
  BY <1>2, <1>3
<1> QED
  BY <1>1, <1>4

\* The last frame in every step.
LEMMA LastStep ==
  ASSUME PartType, OriginInv, BlankInv, SceneInv, BufferInv, HandedInv, FrameInv, LastInv,
         [Environment \/ Capture \/ Select]_vars
  PROVE  LastInv'
<1>0. /\ \A q \in Queues : current'[q] = current[q] => NextSlot(q)' = NextSlot(q)
      /\ main \in Queues /\ "gdi" \in Queues /\ main # "gdi" /\ main \in Sources
  BY SlotsAlternate DEF PartType
<1> USE SlotsDiffer
<1>1. CASE UNCHANGED vars
  BY <1>1, <1>0, SurfaceStays DEF vars, scene, store, app, LastInv
<1>2. ASSUME stage \in {"idle", "gdi"}, NEW s \in Sources, NEW b \in Blocks, Draw(s, b) PROVE LastInv'
  <2>1. /\ UNCHANGED <<dark, current, last, main, gdi, permanent, stage, frame, view, gap>>
        /\ frame.slot = NoFrame /\ NextSlot(main)' = NextSlot(main)
    BY <1>0, <1>2 DEF Draw, store, app, OriginInv
  <2>2. /\ screen' = [screen EXCEPT ![s][b] = CHOOSE c \in Colours : c # screen[s][b]]
        /\ dirty' = [m \in MainSlots |-> IF m[1] = s THEN dirty[m] \cup {b} ELSE dirty[m]]
    BY <1>2, Zenon DEF Draw
  <2>3. Size' = Size
    <3>1. \A n \in Sources : DOMAIN screen'[n] = Size
      <4> DEFINE d == CHOOSE c \in Colours : c # screen[s][b]
      <4> HIDE DEF d
      <4> QED
        BY <2>2, SizeFits DEF d
    <3> QED
      BY <1>0, <3>1, SizeFits, SizeNext
  <2>4. ASSUME NEW x \in Size, x \notin dirty'[<<main, NextSlot(main)>>], ~dark
        PROVE  x \notin dirty[<<main, NextSlot(main)>>] /\ Surface'[x] = Surface[x]
    <3>1. <<main, NextSlot(main)>> \in MainSlots
      BY NextInQueue
    <3>2. x \notin dirty[<<main, NextSlot(main)>>] /\ (main = s => x # b)
      BY <2>2, <2>4, <3>1
    <3>3. screen'[main][x] = screen[main][x]
      <4> DEFINE d == CHOOSE c \in Colours : c # screen[s][b]
      <4> HIDE DEF d
      <4> QED
        BY <1>0, <2>2, <2>4, <3>2, SizeFits DEF d
    <3> QED
      BY <2>1, <2>4, <3>2, <3>3 DEF Surface
  <2> QED
    BY <2>1, <2>3, <2>4 DEF LastInv
<1>3. ASSUME stage \in {"idle", "gdi"}, Brighten PROVE LastInv'
  <2>1. /\ UNCHANGED <<current, last, main, gdi, permanent, stage, frame, view, gap, screen>>
        /\ frame.slot = NoFrame /\ dirty' = [m \in MainSlots |-> Blocks]
        /\ NextSlot(main)' = NextSlot(main)
    BY <1>0, <1>3 DEF Brighten, store, app, OriginInv
  <2>2. Size' = Size /\ Size \subseteq Blocks
    BY <2>1, SizeFits, PictureSize DEF Size
  <2> QED
    BY <2>1, <2>2, NextInQueue DEF LastInv
<1>4. ASSUME stage \in {"idle", "gdi"}, NEW z \in Sizes, ChangeDisplay(z) PROVE LastInv'
  <2>1. /\ UNCHANGED <<current, last, main, permanent, stage, frame, view, gap>>
        /\ frame.slot = NoFrame /\ dirty' = [m \in MainSlots |-> Blocks]
        /\ NextSlot(main)' = NextSlot(main) /\ gdi'.source = gdi.source
    BY <1>0, <1>4 DEF ChangeDisplay, store, app, OriginInv, PartType
  <2>2. Size' = z
    BY <1>0, <1>4, SizeNext DEF ChangeDisplay
  <2> QED
    BY <2>1, <2>2, NextInQueue, PictureSize DEF LastInv
<1>5. CASE CaptureMain
  <2> SUFFICES ASSUME ~gap, last'.pic # NoFrame PROVE LastInv'
    BY <1>5 DEF CaptureMain, LastInv
  <2> DEFINE k == <<main, NextSlot(main)>>
  <2>1. k # NoFrame /\ k \in MainSlots /\ MainTurn
    BY <1>5, NextInQueue DEF CaptureMain
  <2>2. last' = last
    BY <1>5, <2>1, LastIsSpared DEF CaptureMain, Put
  <2>3. /\ UNCHANGED <<main, gdi, permanent, view, gap, screen, dark>> /\ stage' = "blank_detector"
        /\ current'["gdi"] = current["gdi"] /\ stage = "idle" /\ ~permanent
        /\ frame' = [result |-> "success", slot |-> k, pic |-> Surface, region |-> dirty[k] \cap Size]
        /\ litSeen' = (litSeen \/ Lit(Surface))
    BY <1>0, <1>5 DEF CaptureMain, MainTurn, PartType
  <2>4. litSeen' => ~dark
    BY <2>3, SizeFits DEF SceneInv
  <2> QED
    BY <2>2, <2>3, <2>4, SurfaceStays DEF LastInv
<1>6. ASSUME NEW r \in Results, NEW w \in SUBSET Blocks, FailMain(r, w) PROVE LastInv'
  <2> SUFFICES ASSUME ~gap, last'.pic # NoFrame PROVE LastInv'
    BY <1>6 DEF FailMain, app, LastInv
  <2>1. /\ <<main, NextSlot(main)>> # NoFrame /\ MainTurn
    BY <1>6, NextInQueue DEF FailMain
  <2>2. last' = last
    BY <1>6, <2>1, LastIsSpared DEF FailMain, Put
  <2>3. /\ UNCHANGED <<main, gdi, permanent, view, gap>> /\ stage' = "blank_detector"
        /\ current'["gdi"] = current["gdi"] /\ frame'.slot = NoFrame /\ stage = "idle"
    BY <1>0, <1>6 DEF FailMain, app, MainTurn, PartType, Nothing
  <2> QED
    BY <2>2, <2>3 DEF LastInv
<1>7. CASE BlankDetector
  BY <1>7, <1>0, SurfaceStays DEF BlankDetector, scene, store, app, PassOn, Judge, Nothing, LastInv
<1>8. CASE Fallback
  BY <1>8, <1>0, SurfaceStays DEF Fallback, scene, store, app, LastInv
<1>9. CASE CaptureGdi
  <2> SUFFICES ASSUME ~gap, last'.pic # NoFrame PROVE LastInv'
    BY <1>9 DEF CaptureGdi, app, LastInv
  <2>1. GdiSlot \in GdiSlots /\ GdiSlot # NoFrame /\ GdiTurn
    BY <1>9, NextInQueue DEF CaptureGdi
  <2>2. last' = last \/ (last'.pic = last.pic /\ last'.slot = NoFrame)
    <3>1. last \in [slot : Slots \cup {NoFrame}, pic : Pictures \cup {NoFrame}]
      BY DEF BufferInv
    <3>2. CASE resets
      BY <1>9, <3>1, <3>2 DEF CaptureGdi
    <3>3. CASE ~resets
      BY <1>9, <2>1, <3>3, LastIsSpared DEF CaptureGdi, Put
    <3> QED
      BY <3>2, <3>3
  <2>3. /\ UNCHANGED <<main, permanent, view, gap>> /\ gdi'.source = gdi.source
        /\ stage' = "differ" /\ frame'.slot \in GdiSlots
    BY <1>9, <2>1 DEF CaptureGdi, app, See, PartType
  <2> QED
    BY <2>2, <2>3 DEF LastInv
<1>10. CASE FailGdi
  BY <1>10 DEF FailGdi, scene, LastInv
<1>11. CASE DifferNull
  BY <1>11 DEF DifferNull, scene, store, FrameInv, LastInv
<1>12. CASE DifferFrame
  <2> SUFFICES ASSUME ~gap' PROVE LastInv'
    BY DEF LastInv
  <2>1. /\ UNCHANGED <<screen, dark, current, main, gdi, permanent>>
        /\ last' = [slot |-> frame.slot, pic |-> frame.pic]
        /\ stage' = "idle" /\ frame'.slot = NoFrame /\ frame.slot # NoFrame
        /\ gap' = ((gap /\ Comparable(frame.pic)) \/ (~permanent /\ main # gdi.source))
    BY <1>12, SlotsDiffer DEF DifferFrame, scene
  <2>2. view' = frame.pic /\ (~permanent => main = gdi.source)
    BY <1>12, <2>1, ViewStep
  <2>3. ~permanent /\ ~dark => frame.pic = Surface
    BY <2>1, <2>2 DEF FrameInv, OriginInv, Surface
  <2> QED
    BY <2>1, <2>2, <2>3, SurfaceStays DEF LastInv, FrameInv, OriginInv
<1>13. ASSUME NEW s \in Sources, NEW m \in BOOLEAN, NEW g \in BOOLEAN, SelectSource(s, m, g) PROVE LastInv'
  <2> SUFFICES ASSUME ~gap' PROVE LastInv'
    BY DEF LastInv
  <2>1. /\ UNCHANGED <<screen, dark, dirty, current, last, main, stage, frame, view>> /\ ~gap
        /\ permanent' = (permanent \/ ~m) /\ stage = "idle"
        /\ gdi' = IF g THEN [gdi EXCEPT !.source = s] ELSE gdi
        /\ ~permanent /\ m => main = s
    BY <1>13 DEF SelectSource, scene, store
  <2>2. NextSlot(main)' = NextSlot(main) /\ frame.slot = NoFrame
    BY <1>0, <2>1 DEF OriginInv
  <2> QED
    BY <2>1, <2>2, SurfaceStays DEF LastInv, PartType
<1> QED
  BY Steps, <1>1, <1>2, <1>3, <1>4, <1>5, <1>6, <1>7, <1>8, <1>9, <1>10, <1>11, <1>12, <1>13
-----------------------------------------------------------------------------
IInv == /\ PartType /\ OriginInv /\ SelectedInv /\ BlankInv /\ SceneInv
        /\ BufferInv /\ HandedInv /\ FrameInv /\ LastInv

\* The invariant holds at first and always.
LEMMA Invariance == Spec => []IInv
<1>1. ASSUME Init PROVE IInv
  <2>1. /\ faults \in Scenarios /\ dark \in BOOLEAN
        /\ dirty = [m \in MainSlots |-> Blocks] /\ buffer = [k \in Slots |-> NoFrame]
        /\ current = [q \in Queues |-> 0]
        /\ blank = [first |-> TRUE, verdict |-> FALSE, received |-> FALSE]
        /\ permanent = FALSE /\ litSeen = FALSE /\ gap = FALSE
        /\ last = [slot |-> NoFrame, pic |-> NoFrame] /\ view = NoFrame
        /\ stage = "idle" /\ frame = Nothing
    BY <1>1 DEF Init
  <2>2. PICK s \in Sources : /\ main = s /\ gdi = [source |-> s, seen |-> "new"]
                             /\ wanted = [source |-> s, ok |-> TRUE]
    BY <1>1 DEF Init
  <2>3. PartType
    BY <2>1, <2>2 DEF PartType
  <2>4. SceneInv
    <3>1. PICK z \in Sizes : screen = [r \in Sources |-> Fill(z, "black")]
      BY <1>1 DEF Init
    <3>2. screen \in [Sources -> [z -> Colours]]
      BY <3>1 DEF Fill, Colours
    <3> QED
      BY <2>1, <3>2 DEF SceneInv
  <2>5. BufferInv
    BY <2>1 DEF BufferInv
  <2>6. HandedInv
    BY <2>1, SlotsDiffer DEF HandedInv, Nothing, Results
  <2>7. OriginInv /\ SelectedInv /\ BlankInv
    BY <2>1, <2>2, SlotsDiffer DEF OriginInv, SelectedInv, BlankInv
  <2>8. FrameInv /\ LastInv
    BY <2>1, SlotsDiffer DEF FrameInv, LastInv
  <2> QED
    BY <2>3, <2>4, <2>5, <2>6, <2>7, <2>8 DEF IInv
<1>2. IInv /\ [Environment \/ Capture \/ Select]_vars => IInv'
  BY PartStep, OriginStep, SelectedStep, BlankStep, SceneStep, BufferStep, HandedStep, FrameStep,
     LastStep DEF IInv
<1> QED
  BY <1>1, <1>2, PTL DEF Spec

\* The state of the chain is well-formed, for any screens and resolutions.
THEOREM TypeCorrect == Spec => []TypeOK
<1>1. IInv => TypeOK
  <2> SUFFICES ASSUME IInv PROVE TypeOK
    OBVIOUS
  <2>1. screen \in UNION {[Sources -> [z -> Colours]] : z \in Sizes} /\ dark \in BOOLEAN
    BY DEF IInv, SceneInv
  <2>2. PartType /\ BufferInv /\ HandedInv
    BY DEF IInv
  <2> QED
    BY <2>1, <2>2 DEF PartType, BufferInv, HandedInv, TypeOK
<1> QED
  BY Invariance, <1>1, PTL

\* desktop_capturer_differ_wrapper: as long as every capture ends with a frame and directx
\* stays on the screen of gdi, the updated regions tell of every change, whatever is drawn
\* over which buffer, for resolutions of any number of blocks.
THEOREM ViewFollowsFramesAlways == Spec => ViewFollowsFrames
<1>1. IInv => [(DifferFrame /\ ~gap) => view' = frame.pic]_vars
  BY ViewStep DEF IInv
<1> QED
  BY Invariance, <1>1, PTL DEF ViewFollowsFrames

\* blank_detector_desktop_capturer_wrapper: a blank frame of directx reaches the
\* application only after a lit one, for any pixels looked at.
THEOREM BlankFramesHeldAlways == Spec => BlankFramesHeld
<1>1. IInv => [(DifferFrame /\ frame.slot \in MainSlots /\ ~Lit(frame.pic)) => litSeen]_vars
  BY DEF IInv, BlankInv, DifferFrame
<1> QED
  BY Invariance, <1>1, PTL DEF BlankFramesHeld

\* fallback_desktop_capturer_wrapper::select_source: what is delivered is of the screen
\* that was agreed to, for any number of screens.
THEOREM SelectedIsDeliveredAlways == Spec => SelectedIsDelivered
<1>1. IInv => [(DifferFrame /\ wanted.ok) =>
                 wanted.source = IF frame.slot \in GdiSlots THEN gdi.source ELSE frame.slot[1]]_vars
  BY SlotsDiffer DEF IInv, OriginInv, SelectedInv, DifferFrame
<1> QED
  BY Invariance, <1>1, PTL DEF SelectedIsDelivered
=============================================================================
