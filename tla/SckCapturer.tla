----------------------------- MODULE SckCapturer -----------------------------
(***************************************************************************)
(* screen_capturer_sck, the capturer of macOS 14: its caller's thread, and *)
(* the threads on which ScreenCaptureKit calls back - with the shareable   *)
(* content the capturer asks for, with the result of starting the stream   *)
(* and with samples.  The content and the samples come through sck_helper, *)
(* which outlives the capturer and serializes them with _capturer_lock;    *)
(* the result of the start does not.  What lock_ and latest_frame_lock_    *)
(* guard is read and written in one action each, except for the making of  *)
(* the stream: the destructor looks at stream_ without lock_.              *)
(***************************************************************************)
EXTENDS Integers, FiniteSets

CONSTANTS
  Displays,    \* the displays of the desktop
  SizeOf,      \* SizeOf[d]: the size of display d
  First,       \* the first display of every shareable content that has one
  Contents,    \* the displays getShareableContent may answer with, {} also for nil
  None,
  MaxPending   \* bound on the requests for shareable content in flight

Pictures == {0, 1}   \* what a display may show
Surfaces == [display : Displays, pic : Pictures]

ASSUME SckAssumption ==
  /\ First \in Displays
  /\ DOMAIN SizeOf = Displays
  /\ \A c \in Contents : c \subseteq Displays /\ (c # {} => First \in c)
  /\ MaxPending \in Nat \ {0}
  /\ None \notin Displays /\ None \notin {"content", "sample"} /\ None \notin Surfaces
  /\ None \notin [surface : Surfaces, full : BOOLEAN]

VARIABLES
  changed,     \* the configuration changed since desktop_config_ was read
  stage,       \* "new", "started", "stopping" (in the destructor), "dead"
  current,     \* current_display_
  permanent,   \* permanent_error_
  stream,      \* stream_: the display it captures, or None
  making,      \* stream_ is set and not started yet: lock_ is held
  starting,    \* startCaptureWithCompletionHandler has not called back
  sending,     \* the stream has been started and not stopped
  fresh,       \* it has been configured and no sample of that has come yet
  sent,        \* the surface of its last sample, or None
  pending,     \* requests for shareable content that are not answered
  holder,      \* who holds _capturer_lock: None, "content" or "sample"
  chosen,      \* captured_display of the handler of the content, or None
  sample,      \* the sample being handled: its surface and its dirty, or None
  latest,      \* latest_frame_
  dirty,       \* frame_is_dirty_
  frame,       \* what capture_frame is about to return: a surface and whether
               \* updated_region is all of it, or None
  view,        \* the picture kept by whoever applies the updated regions
  asked,       \* the last selection preceded start() or had the stream reconfigured
  lost,        \* a surface could not be locked or was wrongly said to be clean, and none
               \* has been taken since
  early,       \* the destructor began with the stream due and not started
  touched      \* the destroyed capturer has been written to

kit == <<stream, making, starting, sending, fresh, sent, pending>>
handlers == <<holder, chosen, sample>>
frames == <<latest, dirty, frame, view>>
history == <<asked, lost, early, touched>>
vars == <<changed, stage, current, permanent, kit, handlers, frames, history>>

Init == /\ changed = FALSE
        /\ stage = "new" /\ current = First /\ permanent = FALSE
        /\ stream = None /\ making = FALSE /\ starting = FALSE /\ sending = FALSE
        /\ fresh = FALSE /\ sent = None /\ pending = 0
        /\ holder = None /\ chosen = None /\ sample = None
        /\ latest = None /\ dirty = TRUE /\ frame = None /\ view = None
        /\ asked = TRUE /\ lost = FALSE /\ early = FALSE /\ touched = FALSE

-----------------------------------------------------------------------------
\* The user changes the displays or their settings.
ChangeConfiguration ==
  /\ changed' = TRUE
  /\ UNCHANGED <<stage, current, permanent, kit, handlers, frames, history>>

-----------------------------------------------------------------------------
\* The caller's thread.

Caller == stage \in {"new", "started"} /\ frame = None

start_or_reconfigure_capturer == /\ pending < MaxPending
                                 /\ pending' = pending + 1

Start == /\ stage = "new"
         /\ stage' = "started"
         /\ changed' = FALSE
         /\ start_or_reconfigure_capturer
         /\ UNCHANGED <<current, permanent, stream, making, starting, sending, fresh,
                        sent, handlers, frames, history>>

\* Slip: a stream that is there already is left to its display.
SelectSource_Left(d) ==
  /\ Caller /\ ~making
  /\ current' = d
  /\ asked' = (stage = "new" \/ stream # None)
  /\ UNCHANGED <<changed, stage, permanent, kit, handlers, frames, lost, early, touched>>

\* Under lock_ the display is set and stream_ looked at.
SelectSource(d) ==
  /\ Caller /\ ~making
  /\ current' = d
  /\ IF stream # None THEN start_or_reconfigure_capturer ELSE pending' = pending
  /\ asked' = (stage = "new" \/ stream # None)
  /\ UNCHANGED <<changed, stage, permanent, stream, making, starting, sending, fresh,
                 sent, handlers, frames, lost, early, touched>>

\* Slip: latest_frame_ is shared without a look whether there is one.
CaptureFrame_Unchecked ==
  /\ stage = "started" /\ frame = None /\ ~permanent
  /\ IF changed THEN start_or_reconfigure_capturer ELSE pending' = pending
  /\ changed' = FALSE
  /\ frame' = [surface |-> latest, full |-> dirty]
  /\ dirty' = FALSE
  /\ UNCHANGED <<stage, current, permanent, stream, making, starting, sending, fresh,
                 sent, handlers, latest, view, history>>

\* A changed configuration has the stream reconfigured; the latest frame is shared
\* and its dirt forgotten under latest_frame_lock_.
CaptureFrame ==
  /\ stage = "started" /\ frame = None /\ ~permanent
  /\ IF changed THEN start_or_reconfigure_capturer ELSE pending' = pending
  /\ changed' = FALSE
  /\ frame' = IF latest = None THEN None ELSE [surface |-> latest, full |-> dirty]
  /\ dirty' = IF latest = None THEN dirty ELSE FALSE
  /\ UNCHANGED <<stage, current, permanent, stream, making, starting, sending, fresh,
                 sent, handlers, latest, view, history>>

\* on_capture_result with the frame.
Deliver == /\ frame # None
           /\ view' = IF frame.full THEN frame.surface ELSE view
           /\ frame' = None
           /\ UNCHANGED <<changed, stage, current, permanent, kit, handlers, latest,
                          dirty, history>>

\* The stream is due, since an answer with the content is, and not started.
Due == /\ stream = None \/ making
       /\ pending > 0 \/ holder = "content"

\* Slip: the stream is left to call back.
Stop_Uncancelled ==
  /\ Caller
  /\ stage' = "stopping"
  /\ sending' = (sending /\ stream = None)
  /\ early' = Due
  /\ UNCHANGED <<changed, current, permanent, stream, making, starting, fresh, sent,
                 pending, handlers, frames, asked, lost, touched>>

\* The destructor, which reads stream_ without lock_: the stream is stopped, and the
\* handler of its start cancelled, if there is one.  A stream that has not been started
\* does not mind.
Stop == /\ Caller
        /\ stage' = "stopping"
        /\ sending' = (sending /\ stream = None)
        /\ starting' = (starting /\ stream = None)
        /\ early' = Due
        /\ UNCHANGED <<changed, current, permanent, stream, making, fresh, sent, pending,
                       handlers, frames, asked, lost, touched>>

\* release_capturer, for which no handler may be running, and the members' end.
Release ==
  /\ stage = "stopping" /\ holder = None
  /\ stage' = "dead"
  /\ latest' = None
  /\ UNCHANGED <<changed, current, permanent, kit, handlers, dirty, frame, view, history>>

-----------------------------------------------------------------------------
\* on_shareable_content_created

\* A handler enters the capturer unless release_capturer has been there.
ContentArrives ==
  /\ pending > 0 /\ holder = None
  /\ pending' = pending - 1
  /\ holder' = IF stage = "dead" THEN None ELSE "content"
  /\ UNCHANGED <<changed, stage, current, permanent, stream, making, starting, sending,
                 fresh, sent, chosen, sample, frames, history>>

\* nil, or no displays.
ContentFails ==
  /\ holder = "content" /\ chosen = None
  /\ {} \in Contents
  /\ permanent' = TRUE
  /\ holder' = None
  /\ UNCHANGED <<changed, stage, current, kit, chosen, sample, frames, history>>

\* Under lock_ the display is looked up ...
ChooseDisplay(c) ==
  /\ holder = "content" /\ chosen = None
  /\ c # {}
  /\ chosen' = IF current \in c THEN current ELSE First
  /\ UNCHANGED <<changed, stage, current, permanent, kit, holder, sample, frames,
                 history>>

\* ... and under lock_ again the stream is reconfigured,
UpdateStream ==
  /\ holder = "content" /\ chosen # None /\ stream # None /\ ~making
  /\ stream' = chosen
  /\ fresh' = TRUE
  /\ holder' = None /\ chosen' = None
  /\ UNCHANGED <<changed, stage, current, permanent, making, starting, sending, sent,
                 pending, sample, frames, history>>

\* ... or made,
MakeStream ==
  /\ holder = "content" /\ chosen # None /\ stream = None
  /\ stream' = chosen
  /\ making' = TRUE
  /\ UNCHANGED <<changed, stage, current, permanent, starting, sending, fresh, sent,
                 pending, handlers, frames, history>>

\* given up if it takes no output,
AddOutputFails ==
  /\ making
  /\ stream' = None
  /\ making' = FALSE
  /\ permanent' = TRUE
  /\ holder' = None /\ chosen' = None
  /\ UNCHANGED <<changed, stage, current, starting, sending, fresh, sent, pending, sample,
                 frames, history>>

\* and started.
StartStream ==
  /\ making
  /\ making' = FALSE
  /\ starting' = TRUE /\ sending' = TRUE
  /\ fresh' = TRUE
  /\ holder' = None /\ chosen' = None
  /\ UNCHANGED <<changed, stage, current, permanent, stream, sent, pending, sample,
                 frames, history>>

\* The completion handler of startCapture, which holds no lock; on success it only
\* logs, an error it writes into the capturer.
StartCompletes(error) ==
  /\ starting
  /\ starting' = FALSE
  /\ permanent' = (permanent \/ error)
  /\ sending' = (sending /\ ~error)
  /\ touched' = (touched \/ (error /\ stage = "dead"))
  /\ UNCHANGED <<changed, stage, current, stream, making, fresh, sent, pending, handlers,
                 frames, asked, lost, early>>

-----------------------------------------------------------------------------
\* on_new_iosurface

\* A sample shows what its display shows by now.  updateContentFilter takes effect later:
\* until then the display is that of the sample before.
Arriving(pic, old) == [display |-> IF old THEN sent.display ELSE stream, pic |-> pic]

\* What the dirty rectangles attached to s say: whether it differs from the sample before
\* it, or, in the first sample of a configuration, anything.
Attached(s, old, rects) == (fresh /\ ~old) \/ rects = (sent # s)

SizeDiffers(s) == latest = None \/ SizeOf[latest.display] # SizeOf[s.display]

\* The capturer takes the first sample of a configuration for what it shows already.
Misled(s, old, rects) == fresh /\ ~old /\ ~SizeDiffers(s) /\ ~rects /\ latest # s

\* Slip: the size of the frame is not looked at.
SampleArrives_AnySize(pic, old, rects) ==
  LET s == Arriving(pic, old) IN
  /\ sending /\ ~starting /\ holder = None
  /\ old => fresh /\ sent # None
  /\ Attached(s, old, rects)
  /\ sent' = s
  /\ fresh' = (fresh /\ old)
  /\ lost' = (lost \/ Misled(s, old, rects))
  /\ IF stage = "dead"
     THEN UNCHANGED <<holder, sample>>
     ELSE /\ holder' = "sample"
          /\ sample' = [surface |-> s, dirty |-> latest = None \/ rects]
  /\ UNCHANGED <<changed, stage, current, permanent, stream, making, starting, sending,
                 pending, chosen, frames, asked, early, touched>>

\* Under latest_frame_lock_ the size is compared with the latest frame's; if it is the
\* same the attached rectangles decide.
SampleArrives(pic, old, rects) ==
  LET s == Arriving(pic, old) IN
  /\ sending /\ ~starting /\ holder = None
  /\ old => fresh /\ sent # None
  /\ Attached(s, old, rects)
  /\ sent' = s
  /\ fresh' = (fresh /\ old)
  /\ lost' = (lost \/ Misled(s, old, rects))
  /\ IF stage = "dead"
     THEN UNCHANGED <<holder, sample>>
     ELSE /\ holder' = "sample"
          /\ sample' = [surface |-> s, dirty |-> SizeDiffers(s) \/ rects]
  /\ UNCHANGED <<changed, stage, current, permanent, stream, making, starting, sending,
                 pending, chosen, frames, asked, early, touched>>

\* The surface cannot be locked.
DropSample ==
  /\ holder = "sample"
  /\ lost' = TRUE
  /\ holder' = None /\ sample' = None
  /\ UNCHANGED <<changed, stage, current, permanent, kit, chosen, frames, asked, early,
                 touched>>

\* Slip: the frame that is replaced keeps its mark.
StoreSample_Unmarked ==
  /\ holder = "sample"
  /\ IF sample.dirty
     THEN latest' = sample.surface /\ lost' = FALSE
     ELSE UNCHANGED <<latest, lost>>
  /\ holder' = None /\ sample' = None
  /\ UNCHANGED <<changed, stage, current, permanent, kit, chosen, dirty, frame, view,
                 asked, early, touched>>

\* Under latest_frame_lock_ again a dirty frame becomes the latest.
StoreSample ==
  /\ holder = "sample"
  /\ IF sample.dirty
     THEN latest' = sample.surface /\ dirty' = TRUE /\ lost' = FALSE
     ELSE UNCHANGED <<latest, dirty, lost>>
  /\ holder' = None /\ sample' = None
  /\ UNCHANGED <<changed, stage, current, permanent, kit, chosen, frame, view, asked,
                 early, touched>>

-----------------------------------------------------------------------------
Thread == \/ Start \/ CaptureFrame \/ Deliver \/ Stop \/ Release
          \/ \E d \in Displays : SelectSource(d)

Kit == \/ ContentArrives \/ ContentFails \/ \E c \in Contents : ChooseDisplay(c)
       \/ UpdateStream \/ MakeStream \/ AddOutputFails \/ StartStream
       \/ \E b \in BOOLEAN : StartCompletes(b)
       \/ \E pic \in Pictures, old, rects \in BOOLEAN : SampleArrives(pic, old, rects)
       \/ DropSample \/ StoreSample

Next == ChangeConfiguration \/ Thread \/ Kit

Spec == Init /\ [][Next]_vars
-----------------------------------------------------------------------------
\* Properties

TypeOK ==
  /\ changed \in BOOLEAN
  /\ stage \in {"new", "started", "stopping", "dead"}
  /\ current \in Displays /\ permanent \in BOOLEAN
  /\ stream \in Displays \cup {None}
  /\ making \in BOOLEAN /\ starting \in BOOLEAN /\ sending \in BOOLEAN
  /\ fresh \in BOOLEAN /\ sent \in Surfaces \cup {None}
  /\ pending \in 0 .. MaxPending
  /\ holder \in {None, "content", "sample"}
  /\ chosen \in Displays \cup {None}
  /\ sample \in [surface : Surfaces, dirty : BOOLEAN] \cup {None}
  /\ latest \in Surfaces \cup {None} /\ dirty \in BOOLEAN
  /\ frame \in [surface : Surfaces, full : BOOLEAN] \cup {None}
  /\ view \in Surfaces \cup {None}
  /\ asked \in BOOLEAN /\ lost \in BOOLEAN /\ early \in BOOLEAN /\ touched \in BOOLEAN

\* A frame returned without an updated region shows what the one before it showed,
\* though samples replace the latest frame at any moment.
RegionTellsOfChange == [][Deliver => view' = frame.surface]_vars

\* Between two samples the latest frame shows what the stream sent last.  It falls behind
\* by what is lost and in one more case only: the first sample of a configuration has the
\* size of the latest frame and wrong rectangles, for which screen_capturer_sck.mm:303
\* makes up only where the size differs.
LatestIsShown ==
  (sent # None /\ holder # "sample" /\ stage # "dead" /\ ~lost) => latest = sent

Settled == stage # "dead" /\ stream # None /\ pending = 0 /\ holder # "content"

\* A selection made before start() or with the stream there is not lost: when all the
\* answers are in, even those asked for before it, the stream captures that display,
\* or the first one in place of one that is gone.
SelectionFollowed == (Settled /\ asked /\ ~permanent) => stream \in {current, First}

\* Once the destructor is through, no callback of the helper is inside the capturer, and
\* the start of the stream does not report to it: screen_capturer_sck.mm:275, "It should
\* be safe to access `this` here".  That is so whenever the stream had been started, or
\* nobody had asked for it, as the destructor began; a stream started after it was
\* stopped, or was not there to be stopped, does report an error into the dead capturer.
EndIsQuiet == /\ stage = "dead" => holder = None
              /\ touched => early
=============================================================================
