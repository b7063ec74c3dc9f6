--------------------------- MODULE CapturePipeline ---------------------------
(***************************************************************************)
(* The chain of capturers behind a screen source on Windows:               *)
(*   differ( fallback( blank_detector( directx ), gdi ) )                  *)
(* One capture_frame passes through the wrappers within one call; a stage  *)
(* is an action, and what the screen shows may change between two stages.  *)
(* Frames are shared, not copied: the capturers draw into the two buffers  *)
(* of a frame queue in turn, and the differ keeps a reference to the last  *)
(* frame, so that drawing into that buffer changes what the differ holds.  *)
(***************************************************************************)
EXTENDS Integers, FiniteSets

CONSTANTS
  Sources,   \* screens that can be selected
  Sizes,     \* the sets of blocks a screen of each resolution consists of
  Sampled,   \* the blocks that hold a pixel the blank detector looks at
  NoFrame,   \* a null frame
  Scenarios  \* each the set of kinds of events that happen besides drawing

Kinds == {"temporary", "permanent", "gdi", \* a capture fails
          "dark",    \* directx duplicates an adapter that shows nothing at first
          "display", \* the resolution or the scale changes
          "select",  \* another screen is selected
          "refuse"}  \* a capturer does not know the screen
Blocks == UNION Sizes
Colours == {"black", "lit"}
Pictures == UNION {[s -> Colours] : s \in Sizes}
Results == {"success", "error_temporary", "error_permanent"}

MainSlots == {<<s, i>> : s \in Sources, i \in {0, 1}}
GdiSlots == {<<"gdi", i>> : i \in {0, 1}}
Slots == MainSlots \cup GdiSlots
Queues == Sources \cup {"gdi"}

ASSUME PipelineAssumption ==
  /\ Scenarios \subseteq SUBSET Kinds
  /\ "gdi" \notin Sources
  /\ NoFrame \notin Pictures \cup Slots /\ Sizes # {} /\ {} \notin Sizes

VARIABLES
  faults,    \* the scenario
  screen,    \* screen[s]: what screen s shows
  dark,      \* the adapter that directx duplicates shows nothing but black
  dirty,     \* dirty[m]: blocks the duplication owes main buffer m
  buffer,    \* buffer[k]: the size of the buffer in slot k of a frame queue; what it
             \* shows counts only while the frame is delivered or held by the differ
  current,   \* current[q]: current_ of frame queue q
  main,      \* the directx capturer: its selected screen
  gdi,       \* the gdi capturer: its selected screen, and what its display monitor
             \* last saw of the display: how it differs now from then
  blank,     \* the blank detector: is_first_frame_, last_frame_is_blank_ and
             \* non_blank_frame_received_
  permanent, \* main_capturer_permanent_error_
  last,      \* last_frame_ of the differ: the slot its buffer sits in, its content
  stage,     \* the stage the capture in progress has come to
  frame,     \* what that stage is handed: result, slot, picture, updated region
  view,      \* the picture it keeps by applying the updated regions
  gap,       \* since the differ last started over: a capture ended with no frame, or
             \* directx was made to duplicate another screen, or one that gdi has not
  litSeen,   \* directx has captured a frame with a lit sampled pixel
  wanted     \* the screen select_source was last asked for, whether it agreed

scene == <<screen, dark, dirty>>
store == <<buffer, current, last>>
app == <<view, gap, litSeen, wanted>>
vars == <<faults, scene, store, main, gdi, blank, permanent, stage, frame, app>>

Size == CHOOSE s \in Sizes : \A n \in Sources : DOMAIN screen[n] = s
Full(p) == DOMAIN p
Fill(s, c) == [b \in s |-> c]
Nothing == [result |-> "error_temporary", slot |-> NoFrame, pic |-> NoFrame, region |-> {}]

Init == /\ faults \in Scenarios
        /\ \E z \in Sizes : screen = [s \in Sources |-> Fill(z, "black")]
        /\ dark = ("dark" \in faults)
        /\ dirty = [m \in MainSlots |-> Blocks]
        /\ buffer = [k \in Slots |-> NoFrame]
        /\ current = [q \in Queues |-> 0]
        /\ \E s \in Sources : /\ main = s
                              /\ gdi = [source |-> s, seen |-> "new"]
                              /\ wanted = [source |-> s, ok |-> TRUE]
        /\ blank = [first |-> TRUE, verdict |-> FALSE, received |-> FALSE]
        /\ permanent = FALSE
        /\ last = [slot |-> NoFrame, pic |-> NoFrame]
        /\ stage = "idle"
        /\ frame = Nothing
        /\ view = NoFrame
        /\ gap = FALSE
        /\ litSeen = FALSE

-----------------------------------------------------------------------------
\* What the user and the system do.

\* A block of a screen in use changes; the duplication takes note of it.
Draw(s, b) ==
  /\ s \in {main, gdi.source} /\ b \in DOMAIN screen[s]
  /\ screen' = [screen EXCEPT ![s][b] = CHOOSE c \in Colours : c # @]
  /\ dirty' = [m \in MainSlots |-> IF m[1] = s THEN dirty[m] \cup {b} ELSE dirty[m]]
  /\ UNCHANGED <<faults, dark, store, main, gdi, blank, permanent, stage, frame, app>>

\* The duplicated adapter starts to show the desktop.
Brighten == /\ dark
            /\ dark' = FALSE
            /\ dirty' = [m \in MainSlots |-> Blocks]
            /\ UNCHANGED <<faults, screen, store, main, gdi, blank, permanent, stage, frame, app>>

\* The resolution changes, or (z = Size) no more than the scale of the display.
ChangeDisplay(z) ==
  /\ "display" \in faults
  /\ screen' = [s \in Sources |->
                  [b \in z |-> IF b \in Size THEN screen[s][b] ELSE "black"]]
  /\ dirty' = [m \in MainSlots |-> Blocks]
  /\ gdi' = [gdi EXCEPT !.seen = IF @ = "new" THEN @
                                 ELSE IF z = Size \/ @ = "scaled" THEN "scaled"
                                 ELSE "resized"]
  /\ UNCHANGED <<faults, dark, store, main, blank, permanent, stage, frame, app>>

-----------------------------------------------------------------------------
\* Frame queues.

\* Slip: a capturer draws into the buffer it delivered last.
NextSlot_Same(q) == current[q]

NextSlot(q) == (current[q] + 1) % 2

\* Slip: a buffer is kept whatever the size of the frame.
Put_Kept(k, p) ==
  /\ buffer' = [buffer EXCEPT ![k] = IF @ = NoFrame THEN Full(p) ELSE @]
  /\ last' = IF last.slot = k THEN [last EXCEPT !.pic = p] ELSE last

\* Drawing p into slot k of the queue: in place, so that the differ sees it if its
\* last frame is in that buffer, or into a new buffer, the old one staying with
\* who holds it.
Put(k, p) ==
  /\ buffer' = [buffer EXCEPT ![k] = Full(p)]
  /\ last' = IF last.slot # k THEN last
             ELSE IF buffer[k] = Full(p) THEN [last EXCEPT !.pic = p]
             ELSE [last EXCEPT !.slot = NoFrame]

-----------------------------------------------------------------------------
\* fallback_desktop_capturer_wrapper::capture_frame: whose turn it is.

MainTurn == stage = "idle" /\ ~permanent
GdiTurn == stage = "gdi" \/ (stage = "idle" /\ permanent)

Surface == IF dark THEN Fill(Size, "black") ELSE screen[main]
Lit(p) == \E b \in Sampled \cap Full(p) : p[b] = "lit"

\* screen_capturer_win_directx::capture_frame, the duplication successful.
CaptureMain ==
  LET k == <<main, NextSlot(main)>> IN
  /\ MainTurn
  /\ current' = [current EXCEPT ![main] = NextSlot(main)]
  /\ Put(k, Surface)
  /\ frame' = [result |-> "success", slot |-> k, pic |-> Surface,
               region |-> dirty[k] \cap Size]
  /\ dirty' = [dirty EXCEPT ![k] = {}]
  /\ litSeen' = (litSeen \/ Lit(Surface))
  /\ stage' = "blank_detector"
  /\ UNCHANGED <<faults, screen, dark, main, gdi, blank, permanent, view, gap, wanted>>

\* The duplication fails before it has prepared the buffer, or with some blocks w
\* drawn into it already; the next one starts over.
FailMain(r, w) ==
  LET k == <<main, NextSlot(main)>> IN
  /\ MainTurn
  /\ \/ r = "error_temporary" /\ "temporary" \in faults
     \/ r = "error_permanent" /\ "permanent" \in faults
  /\ current' = [current EXCEPT ![main] = NextSlot(main)]
  /\ \/ w = {} /\ UNCHANGED <<buffer, last>>
     \/ Put(k, [b \in Size |-> IF b \notin w /\ last.slot = k /\ buffer[k] = Size
                               THEN last.pic[b] ELSE Surface[b]])
  /\ dirty' = [m \in MainSlots |-> Blocks]
  /\ frame' = [Nothing EXCEPT !.result = r]
  /\ stage' = "blank_detector"
  /\ UNCHANGED <<faults, screen, dark, main, gdi, blank, permanent, app>>

-----------------------------------------------------------------------------
\* blank_detector_desktop_capturer_wrapper::on_capture_result

is_blank_frame(p) == ~Lit(p)

PassOn == /\ frame.result # "success" \/ blank.received
          /\ UNCHANGED <<blank, frame>>

\* Slip: the first frame settles the question, whatever is on it.
Judge_Once ==
  /\ frame.result = "success" /\ ~blank.received
  /\ blank' = [first |-> FALSE, verdict |-> is_blank_frame(frame.pic), received |-> TRUE]
  /\ frame' = IF is_blank_frame(frame.pic) THEN Nothing ELSE frame

Judge ==
  LET looks == frame.region # {} \/ blank.first
      verdict == IF looks THEN is_blank_frame(frame.pic) ELSE blank.verdict IN
  /\ frame.result = "success" /\ ~blank.received
  /\ blank' = [first |-> blank.first /\ ~looks, verdict |-> verdict, received |-> ~verdict]
  /\ frame' = IF verdict THEN Nothing ELSE frame

BlankDetector == /\ stage = "blank_detector"
                 /\ PassOn \/ Judge
                 /\ stage' = "fallback"
                 /\ UNCHANGED <<faults, scene, store, main, gdi, permanent, app>>

-----------------------------------------------------------------------------
\* fallback_desktop_capturer_wrapper::on_capture_result

Fallback == /\ stage = "fallback"
            /\ permanent' = (permanent \/ frame.result = "error_permanent")
            /\ stage' = IF frame.result = "success" THEN "differ" ELSE "gdi"
            /\ UNCHANGED <<faults, scene, store, main, gdi, blank, frame, app>>

-----------------------------------------------------------------------------
\* screen_capturer_win_gdi::capture_frame

\* display_configuration_monitor::is_changed; a changed scale is not written over
\* the one seen first, and is found changed again and again.
is_changed == gdi.seen \in {"resized", "scaled"}
See == gdi' = [gdi EXCEPT !.seen = IF @ = "scaled" THEN @ ELSE "same"]

\* move_to_next_frame, then prepare_capture_resources: a changed display has the
\* queue reset, whose frames stay with who holds them.
resets == is_changed \/ gdi.seen = "new"
GdiSlot == <<"gdi", IF resets THEN 0 ELSE NextSlot("gdi")>>

CaptureGdi ==
  LET k == GdiSlot  p == screen[gdi.source] IN
  /\ GdiTurn
  /\ See
  /\ current' = [current EXCEPT !["gdi"] = k[2]]
  /\ IF resets
     THEN /\ buffer' = [buffer EXCEPT ![<<"gdi", 0>>] = Size, ![<<"gdi", 1>>] = NoFrame]
          /\ last' = IF last.slot \in GdiSlots THEN [last EXCEPT !.slot = NoFrame] ELSE last
     ELSE Put(k, p)
  /\ frame' = [result |-> "success", slot |-> k, pic |-> p, region |-> Size]
  /\ stage' = "differ"
  /\ UNCHANGED <<faults, scene, main, blank, permanent, app>>

\* No rectangle, no bitmap, or BitBlt fails: the queue has moved on all the same.
FailGdi ==
  /\ GdiTurn /\ "gdi" \in faults
  /\ See
  /\ current' = [current EXCEPT !["gdi"] = GdiSlot[2]]
  /\ IF resets
     THEN /\ buffer' = [k \in Slots |-> IF k \in GdiSlots THEN NoFrame ELSE buffer[k]]
          /\ last' = IF last.slot \in GdiSlots THEN [last EXCEPT !.slot = NoFrame] ELSE last
     ELSE UNCHANGED <<buffer, last>>
  /\ frame' = Nothing
  /\ gap' = TRUE
  /\ stage' = "differ"
  /\ UNCHANGED <<faults, scene, main, blank, permanent, view, litSeen, wanted>>

-----------------------------------------------------------------------------
\* desktop_capturer_differ_wrapper::on_capture_result

DifferNull == /\ stage = "differ" /\ frame.slot = NoFrame
              /\ stage' = "idle"
              /\ frame' = Nothing
              /\ UNCHANGED <<faults, scene, store, main, gdi, blank, permanent, view, gap, litSeen,
                             wanted>>

Comparable(p) == last.pic # NoFrame /\ Full(last.pic) = Full(p)

compare_frames(p, hints) == {b \in hints : last.pic[b] # p[b]}

DifferFrame ==
  LET p == frame.pic
      region == IF Comparable(p) THEN compare_frames(p, frame.region) ELSE Full(p) IN
  /\ stage = "differ" /\ frame.slot # NoFrame
  /\ last' = [slot |-> frame.slot, pic |-> p]
  /\ view' = [b \in Full(p) |-> IF b \in region THEN p[b] ELSE view[b]]
  /\ gap' = ((gap /\ Comparable(p)) \/ (~permanent /\ main # gdi.source))
  /\ stage' = "idle"
  /\ frame' = Nothing
  /\ UNCHANGED <<faults, scene, buffer, current, main, gdi, blank, permanent, litSeen, wanted>>

-----------------------------------------------------------------------------
\* select_source of the fallback: whether each capturer knows the screen.

\* Slip: a main capturer that does not know the screen stays in charge.
SelectSource_Unlatched(s, mainOk, gdiOk) ==
  /\ stage = "idle"
  /\ "select" \in faults
  /\ (mainOk /\ gdiOk) \/ "refuse" \in faults
  /\ main' = IF ~permanent /\ mainOk THEN s ELSE main
  /\ gdi' = IF gdiOk THEN [gdi EXCEPT !.source = s] ELSE gdi
  /\ wanted' = [source |-> s, ok |-> gdiOk]
  /\ gap' = (gap \/ main' # main)
  /\ UNCHANGED <<faults, scene, store, blank, permanent, stage, frame, view, litSeen>>

SelectSource(s, mainOk, gdiOk) ==
  /\ stage = "idle"
  /\ "select" \in faults
  /\ (mainOk /\ gdiOk) \/ "refuse" \in faults
  /\ permanent' = (permanent \/ ~mainOk)
  /\ main' = IF ~permanent /\ mainOk THEN s ELSE main
  /\ gdi' = IF gdiOk THEN [gdi EXCEPT !.source = s] ELSE gdi
  /\ wanted' = [source |-> s, ok |-> gdiOk]
  /\ gap' = (gap \/ main' # main)
  /\ UNCHANGED <<faults, scene, store, blank, stage, frame, view, litSeen>>

-----------------------------------------------------------------------------
\* No other stage looks at the scene.
Environment == /\ stage \in {"idle", "gdi"}
               /\ \/ \E s \in Sources, b \in Blocks : Draw(s, b)
                  \/ Brighten
                  \/ \E z \in Sizes : ChangeDisplay(z)

Capture == \/ CaptureMain
           \/ \E r \in Results, w \in SUBSET Blocks : FailMain(r, w)
           \/ BlankDetector \/ Fallback \/ CaptureGdi \/ FailGdi
           \/ DifferNull \/ DifferFrame

Select == \E s \in Sources, m, g \in BOOLEAN : SelectSource(s, m, g)

Spec == Init /\ [][Environment \/ Capture \/ Select]_vars
-----------------------------------------------------------------------------
\* Properties

TypeOK ==
  /\ faults \in Scenarios
  /\ screen \in UNION {[Sources -> [z -> Colours]] : z \in Sizes}
  /\ dark \in BOOLEAN
  /\ dirty \in [MainSlots -> SUBSET Blocks]
  /\ buffer \in [Slots -> Sizes \cup {NoFrame}]
  /\ current \in [Queues -> {0, 1}]
  /\ main \in Sources
  /\ gdi \in [source : Sources, seen : {"new", "same", "scaled", "resized"}]
  /\ blank \in [first : BOOLEAN, verdict : BOOLEAN, received : BOOLEAN]
  /\ permanent \in BOOLEAN
  /\ last \in [slot : Slots \cup {NoFrame}, pic : Pictures \cup {NoFrame}]
  /\ last.slot # NoFrame => Full(last.pic) = buffer[last.slot]
  /\ stage \in {"idle", "blank_detector", "fallback", "gdi", "differ"}
  /\ frame \in [result : Results, slot : Slots \cup {NoFrame}, pic : Pictures \cup {NoFrame},
               region : SUBSET Blocks]
  /\ view \in Pictures \cup {NoFrame}
  /\ gap \in BOOLEAN /\ litSeen \in BOOLEAN

\* desktop_frame.h:66 says of updated_region: "Indicates region of the screen that
\* has changed since the previous frame." An application that draws only these
\* regions holds the picture of the frame it was handed.
RegionCoversChanges == [][DifferFrame => view' = frame.pic]_vars

\* The part of it that holds, whatever buffers the two capturers draw over and
\* whichever frames are held back as blank: the regions are right as long as every
\* capture ended with a frame and directx remained on one screen, the one of gdi.
ViewFollowsFrames == [][(DifferFrame /\ ~gap) => view' = frame.pic]_vars

\* A black frame of directx reaches the application only after one with a lit
\* pixel: the cached verdict never lets a black one through.
BlankFramesHeld ==
  [][(DifferFrame /\ frame.slot \in MainSlots /\ ~Lit(frame.pic)) => litSeen]_vars

\* A frame delivered after select_source agreed to a screen is of that screen,
\* whichever capturer it comes from and whatever selections have failed before.
SelectedIsDelivered ==
  [][(DifferFrame /\ wanted.ok) =>
       wanted.source = IF frame.slot \in GdiSlots THEN gdi.source ELSE frame.slot[1]]_vars
=============================================================================
