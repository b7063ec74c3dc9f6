--------------------------- MODULE DxgiDuplication ---------------------------
(***************************************************************************)
(* The singleton dxgi_duplicator_controller: capturers hand it their       *)
(* dxgi_frames in turn, under mutex_, and it copies into a frame what has  *)
(* changed on each output (monitor).  An output reports each change once;  *)
(* the controller owes it to every other frame, in the region of that      *)
(* frame's context, and repeats it from the frame that was drawn last.     *)
(* What the blocks of a buffer show is reduced to whether it is what their *)
(* output presents; where a block is in a frame (offsets, rotation) is not *)
(* told apart.  When prepare() resets a context, mutex_ is locked again by *)
(* the thread that holds it: C++ leaves that undefined, the library of     *)
(* MSVC, for which this code is built, counts it.                          *)
(***************************************************************************)
EXTENDS Integers, FiniteSets

CONSTANTS
  Frames,    \* the dxgi_frames of all capturers
  Outputs,   \* 1 .. the number of outputs, in the order of duplicators_
  Blocks,    \* what the outputs show
  OutputOf,  \* OutputOf[b]: the output that shows block b
  SourceOf,  \* SourceOf[f]: the monitor frame f is used for, Full or Absent
  Full,      \* k_screen_id_full
  Absent,    \* a monitor_id that no output has
  None,      \* no frame
  MaxRounds  \* bound on the rounds ensure_frame_captured makes within timeout_ms

ASSUME DxgiAssumption ==
  /\ IsFiniteSet(Outputs) /\ Outputs # {} /\ Outputs = 1 .. Cardinality(Outputs)
  /\ OutputOf \in [Blocks -> Outputs]
  /\ {Full, Absent} \cap Outputs = {} /\ Full # Absent
  /\ SourceOf \in [Frames -> Outputs \cup {Full, Absent}]
  /\ None \notin Frames
  /\ MaxRounds \in Nat \ {0}

\* The most frames ensure_frame_captured skips: 2 stands for 5.
SkipCounts == {1, 2}

VARIABLES
  owed,        \* blocks that changed since their output was last acquired
  display,     \* display_configuration_monitor_: "new", "same" or "changed"
  up,          \* duplicators_: "none", "ready", or "lost" once the display changed
  registered,  \* frames whose context belongs to the present duplicators_
  region,      \* region[f]: updated_region of its context, all outputs together
  last,        \* last[o]: the frame whose buffer is last_frame_ of output o
  taken,       \* taken[o]: num_frames_captured_, counted up to 2
  wrong,       \* wrong[f]: blocks where the buffer of f differs from what the output
               \* presented when it was last acquired
  news,        \* news[f]: blocks of f that have changed and that no updated_region
               \* has told of
  sized,       \* frames with a buffer of the present resolution
  alive,       \* frames that have not been destroyed
  call,        \* the frame of the capture in progress, or None
  phase,       \* "ensure" or "target"
  at,          \* the output whose turn it is
  round,       \* rounds made by ensure_frame_captured
  skip,        \* frames_to_skip
  reported     \* updated_region of the target

device == <<owed, display, up, last, taken>>
contexts == <<registered, region>>
buffers == <<wrong, news, sized>>
capture == <<call, phase, at, round, skip, reported>>
vars == <<device, contexts, buffers, alive, capture>>

On(o) == {b \in Blocks : OutputOf[b] = o}
Area(f) == IF SourceOf[f] = Full THEN Blocks ELSE On(SourceOf[f])
First(f) == IF SourceOf[f] \in Outputs THEN SourceOf[f] ELSE 1
LastOutput == Cardinality(Outputs)
Untaken == [o \in Outputs |-> 0]
Empty == [f \in Frames |-> {}]
Everything == [f \in Frames |-> Blocks]

Init == /\ owed = {} /\ display = "new" /\ up = "none"
        /\ last = [o \in Outputs |-> None] /\ taken = Untaken
        /\ registered = {} /\ region = Empty
        /\ wrong = Everything /\ news = Everything /\ sized = {}
        /\ alive = Frames
        /\ call = None /\ phase = "target" /\ at = 1 /\ round = 0 /\ skip = 1
        /\ reported = {}

-----------------------------------------------------------------------------
\* What the system does.

Draw(b) == /\ up = "ready" /\ b \notin owed
           /\ owed' = owed \cup {b}
           /\ UNCHANGED <<display, up, last, taken, contexts, buffers, alive, capture>>

\* Another resolution: the outputs are lost and with them what they owe, the buffers
\* have the wrong size and are made anew before they are used again.
ChangeDisplay == /\ display' = IF display = "new" THEN "new" ELSE "changed"
                 /\ up' = IF up = "ready" THEN "lost" ELSE up
                 /\ wrong' = Everything /\ news' = Everything /\ sized' = {}
                 /\ owed' = {}
                 /\ UNCHANGED <<last, taken, contexts, alive, capture>>

-----------------------------------------------------------------------------
\* initialize and deinitialize

\* The next duplicators_ fit no context that there is, have captured nothing and
\* will report everything.
Deinitialized == /\ up' = "none" /\ display' = "new" /\ owed' = {}
                 /\ last' = [o \in Outputs |-> None] /\ taken' = Untaken
                 /\ registered' = {} /\ region' = Empty
                 /\ wrong' = Everything

\* is_supported, get_device_names and the like: they initialize and no more.
Initialize == /\ call = None /\ up = "none"
              /\ up' = "ready" /\ owed' = Blocks
              /\ UNCHANGED <<display, last, taken, contexts, buffers, alive, capture>>

\* A capture, too, starts over when the display has changed.
Reinit == display = "changed" \/ up = "none"

InitializationFailed == /\ call = None /\ Reinit
                        /\ Deinitialized
                        /\ UNCHANGED <<news, sized, alive, capture>>

-----------------------------------------------------------------------------
\* do_duplicate up to ensure_frame_captured

num_frames_captured == IF \E o \in Outputs : taken[o] = 0 THEN 0
                       ELSE IF \E o \in Outputs : taken[o] = 1 THEN 1 ELSE 2

\* is_changed, deinitialize if so, initialize; `in` are the frames set up after it.
Initialized(in) ==
  /\ up' = IF Reinit THEN "ready" ELSE up
  /\ display' = IF display = "changed" THEN "new" ELSE "same"
  /\ owed' = IF Reinit THEN Blocks ELSE owed
  /\ last' = IF Reinit THEN [o \in Outputs |-> None] ELSE last
  /\ taken' = IF Reinit THEN Untaken ELSE taken
  /\ registered' = in \cup IF Reinit THEN {} ELSE registered
  /\ region' = [f \in Frames |-> IF Reinit \/ f \notin registered
                                 THEN IF f \in in THEN Blocks ELSE {}
                                 ELSE region[f]]

\* No shared memory for a frame of the present size: frame_prepare_failed.
PrepareFails(f) ==
  /\ call = None /\ f \in alive \ sized
  /\ Initialized({})
  /\ wrong' = [(IF Reinit THEN Everything ELSE wrong) EXCEPT ![f] = Blocks]
  /\ news' = [news EXCEPT ![f] = Blocks]
  /\ UNCHANGED <<sized, alive, capture>>

\* The frame is prepared, and its context set up if it has expired.
Begin(f) ==
  LET wait == Reinit \/ num_frames_captured = 0
      anew == f \notin sized IN
  /\ call = None /\ f \in alive
  /\ Initialized({f})
  /\ wrong' = [(IF Reinit THEN Everything ELSE wrong) EXCEPT ![f] = IF anew THEN Blocks ELSE @]
  /\ news' = [news EXCEPT ![f] = IF anew THEN Blocks ELSE @]
  /\ sized' = IF up' = "ready" THEN sized \cup {f} ELSE sized
  /\ call' = f
  /\ skip' \in IF wait THEN SkipCounts ELSE {1}
  /\ phase' = IF wait THEN "ensure" ELSE "target"
  /\ at' = IF wait THEN 1 ELSE First(f)
  /\ round' = 0
  /\ reported' = {}
  /\ UNCHANGED alive

\* ~dxgi_frame, whose context is unregistered; outputs may keep the buffer, which is
\* not delivered again.
Destroy(f) == /\ call = None /\ f \in alive
              /\ alive' = alive \ {f}
              /\ registered' = registered \ {f}
              /\ region' = [region EXCEPT ![f] = {}]
              /\ news' = [news EXCEPT ![f] = Blocks]
              /\ UNCHANGED <<device, wrong, sized, capture>>

-----------------------------------------------------------------------------
\* dxgi_output_duplicator::duplicate on output `at`

\* In ensure_frame_captured every output is drawn at its place on the desktop,
\* for which only the buffer of an entire desktop is sure to have room; that of an
\* absent monitor has no size and room for none.
Covers(f) == /\ SourceOf[f] # Absent
             /\ phase = "target" \/ SourceOf[f] = Full \/ LastOutput = 1

Complete == phase = "target" /\ (SourceOf[call] # Full \/ at = LastOutput)

\* The blocks bs of the buffer are drawn anew; the last output delivers the frame.
Tell(bs) == news' = [news EXCEPT ![call] =
                       (@ \cup bs) \ IF Complete THEN reported' ELSE {}]

\* Slip: the changes are kept for the context that acquired them.
NewFrame_Unspread ==
  LET new == owed \cap On(at)
      updated == (region[call] \cap On(at)) \cup new IN
  /\ owed' = owed \ new
  /\ region' = [region EXCEPT ![call] = (@ \ On(at)) \cup new]
  /\ wrong' = [f \in Frames |-> IF f = call THEN (wrong[f] \cup new) \ updated
                                ELSE wrong[f] \cup new]
  /\ reported' = reported \cup updated
  /\ Tell(updated \cap (wrong[call] \cup new))
  /\ last' = [last EXCEPT ![at] = call]
  /\ taken' = [taken EXCEPT ![at] = IF @ < 2 THEN @ + 1 ELSE 2]

\* AcquireNextFrame with a new frame: its changes are spread to all other contexts.
NewFrame ==
  LET new == owed \cap On(at)
      updated == (region[call] \cap On(at)) \cup new IN
  /\ owed' = owed \ new
  /\ region' = [f \in Frames |-> IF f = call THEN (region[f] \ On(at)) \cup new
                                 ELSE IF f \in registered THEN region[f] \cup new
                                 ELSE region[f]]
  /\ wrong' = [f \in Frames |-> IF f = call THEN (wrong[f] \cup new) \ updated
                                ELSE wrong[f] \cup new]
  /\ reported' = reported \cup updated
  /\ Tell(updated \cap (wrong[call] \cup new))
  /\ last' = [last EXCEPT ![at] = call]
  /\ taken' = [taken EXCEPT ![at] = IF @ < 2 THEN @ + 1 ELSE 2]

\* Slip: what is drawn from the last frame is not reported.
NoChange_Unreported ==
  LET due == IF last[at] = None THEN {} ELSE region[call] \cap On(at)
      from == IF last[at] = None THEN call ELSE last[at] IN
  /\ region' = [region EXCEPT ![call] = @ \ due]
  /\ wrong' = [wrong EXCEPT ![call] = (@ \ due) \cup (due \cap wrong[from])]
  /\ reported' = reported
  /\ Tell(due \cap wrong[call])
  /\ UNCHANGED <<owed, last, taken>>

\* Timeout, or nothing but the mouse moved: the last frame is drawn again.
NoChange ==
  LET due == IF last[at] = None THEN {} ELSE region[call] \cap On(at)
      from == IF last[at] = None THEN call ELSE last[at] IN
  /\ region' = [region EXCEPT ![call] = @ \ due]
  /\ wrong' = [wrong EXCEPT ![call] = (@ \ due) \cup (due \cap wrong[from])]
  /\ reported' = reported \cup due
  /\ Tell(due \cap wrong[call])
  /\ UNCHANGED <<owed, last, taken>>

\* Slip: one output too many.
EnsureNext_Overrun == /\ phase = "ensure" /\ at <= LastOutput
                      /\ at' = at + 1
                      /\ UNCHANGED <<call, phase, round, skip>>

\* On to the next output, in ensure_frame_captured until all have produced enough.
EnsureNext == /\ phase = "ensure" /\ at < LastOutput
              /\ at' = at + 1
              /\ UNCHANGED <<call, phase, round, skip>>

Enough == \A o \in Outputs : taken'[o] >= skip

\* Slip: the rounds are not counted against the timeout.
EnsureRound_Untimed ==
  /\ phase = "ensure" /\ at = LastOutput
  /\ IF Enough THEN phase' = "target" /\ at' = First(call) ELSE phase' = phase /\ at' = 1
  /\ UNCHANGED <<call, skip, round>>

EnsureRound == /\ phase = "ensure" /\ at = LastOutput
               /\ IF Enough THEN phase' = "target" /\ at' = First(call) /\ round' = round
                            ELSE phase' = phase /\ at' = 1 /\ round' = round + 1
               /\ UNCHANGED <<call, skip>>

TargetNext == /\ phase = "target" /\ SourceOf[call] = Full /\ at < LastOutput
              /\ at' = at + 1
              /\ UNCHANGED <<call, phase, round, skip>>

\* do_duplicate has returned; what is local to it is as at first.
Returned == /\ call' = None
            /\ phase' = "target" /\ at' = 1 /\ round' = 0 /\ skip' = 1

Succeed == Complete /\ Returned

Duplicate ==
  /\ call # None /\ Covers(call) /\ up = "ready"
  /\ phase = "ensure" => round < MaxRounds
  /\ NewFrame \/ NoChange
  /\ EnsureNext \/ EnsureRound \/ TargetNext \/ Succeed
  /\ UNCHANGED <<display, up, registered, sized, alive>>

\* No room in the target, AcquireNextFrame or the copy of the texture fails, or
\* ensure_frame_captured has run out of time: duplication_failed.
Fails == /\ call # None /\ SourceOf[call] # Absent
         /\ Deinitialized
         /\ Returned
         /\ UNCHANGED <<news, sized, alive, reported>>

DuplicateFails == (phase = "ensure" => round < MaxRounds) /\ Fails
TimedOut == phase = "ensure" /\ at = 1 /\ round > 0 /\ Fails

\* invalid_monitor_id: no output is acquired, in ensure_frame_captured for want of room,
\* and duplicators_ are kept.
InvalidMonitor ==
  /\ call # None /\ SourceOf[call] = Absent
  /\ Returned
  /\ UNCHANGED <<device, contexts, buffers, alive, reported>>

-----------------------------------------------------------------------------
Environment == ChangeDisplay \/ \E b \in Blocks : Draw(b)

Others == \/ Initialize \/ InitializationFailed
          \/ \E f \in Frames : Begin(f) \/ PrepareFails(f) \/ Destroy(f)

Capture == Duplicate \/ DuplicateFails \/ TimedOut \/ InvalidMonitor

Spec == Init /\ [][Environment \/ Others \/ Capture]_vars

\* The thread in do_duplicate goes on.
FairSpec == Spec /\ WF_vars(Capture)
-----------------------------------------------------------------------------
\* Properties

TypeOK ==
  /\ owed \in SUBSET Blocks
  /\ display \in {"new", "same", "changed"}
  /\ up \in {"none", "ready", "lost"}
  /\ registered \in SUBSET Frames
  /\ region \in [Frames -> SUBSET Blocks]
  /\ last \in [Outputs -> Frames \cup {None}]
  /\ taken \in [Outputs -> 0 .. 2]
  /\ wrong \in [Frames -> SUBSET Blocks]
  /\ news \in [Frames -> SUBSET Blocks]
  /\ sized \in SUBSET Frames
  /\ alive \in SUBSET Frames
  /\ call \in Frames \cup {None}
  /\ phase \in {"ensure", "target"}
  /\ at \in Outputs
  /\ round \in 0 .. MaxRounds
  /\ skip \in SkipCounts
  /\ reported \in SUBSET Blocks

Succeeds == call # None /\ call' = None /\ up' # "none" /\ SourceOf[call] # Absent

\* A frame that is delivered shows in all of its area what the outputs presented
\* when they were last acquired, though each change is reported by its output only
\* once, to whichever frame comes first, and frames come and go between.
DeliveredIsCurrent == [][Succeeds => wrong'[call] \cap Area(call) = {}]_vars

\* The updated regions delivered with a frame miss no block that was redrawn in it,
\* not in ensure_frame_captured and not in a capture that failed half-way.
RegionCoversFrame == [][Succeeds => news'[call] \cap Area(call) = {}]_vars

\* do_duplicate comes back, with a frame or without: ensure_frame_captured does not
\* hold mutex_ for ever while an output presents nothing.
EveryCaptureReturns == call # None ~> call = None
=============================================================================
