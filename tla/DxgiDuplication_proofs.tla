------------------------ MODULE DxgiDuplication_proofs ------------------------
(***************************************************************************)
(* Proofs about DxgiDuplication, for any frames, outputs and blocks: that  *)
(* what is delivered is current and that its updated regions tell of all   *)
(* that changed.  The proofs go block by block.                            *)
(***************************************************************************)
EXTENDS DxgiDuplication, FiniteSetTheorems, TLAPS

DeviceType == /\ owed \in SUBSET Blocks
              /\ display \in {"new", "same", "changed"}
              /\ up \in {"none", "ready", "lost"}
              /\ last \in [Outputs -> Frames \cup {None}]
              /\ taken \in [Outputs -> 0 .. 2]
ContextsType == registered \in SUBSET Frames /\ region \in [Frames -> SUBSET Blocks]
BuffersType == /\ wrong \in [Frames -> SUBSET Blocks]
               /\ news \in [Frames -> SUBSET Blocks]
               /\ sized \in SUBSET Frames
CaptureType == /\ call \in Frames \cup {None}
               /\ phase \in {"ensure", "target"}
               /\ at \in Outputs
               /\ round \in 0 .. MaxRounds
               /\ skip \in SkipCounts
               /\ reported \in SUBSET Blocks
Types == DeviceType /\ ContextsType /\ BuffersType /\ CaptureType /\ alive \in SUBSET Frames

\* duplicators_ that are deinitialized have no contexts and no last frames.
NoneInv == up = "none" =>
             registered = {} /\ \A o \in Outputs : last[o] = None /\ taken[o] = 0

\* A context owes its frame all that is wrong in the buffer, and the user all that has
\* changed in it and is not in the updated region yet.
OwedInv == up = "ready" =>
             /\ registered \subseteq sized
             /\ \A f \in registered, b \in Blocks :
                  /\ b \in wrong[f] => b \in region[f]
                  /\ b \in news[f] => b \in region[f] \/ (f = call /\ b \in reported)

\* The last frame of an output shows what the output presents.
LastInv == up = "ready" =>
             \A o \in Outputs :
               /\ last[o] = None <=> taken[o] = 0
               /\ last[o] # None => /\ last[o] \in sized
                                    /\ \A b \in On(o) : b \notin wrong[last[o]]

\* The frame of the capture in progress has a context, and the outputs it has been
\* through are done with.
CallInv == up = "ready" /\ call # None =>
             /\ call \in registered
             /\ SourceOf[call] = Absent => reported = {}
             /\ phase = "target" =>
                  /\ \A o \in Outputs : taken[o] # 0
                  /\ SourceOf[call] \in Outputs => at = SourceOf[call]
                  /\ SourceOf[call] = Full =>
                       \A b \in Blocks : OutputOf[b] < at =>
                         b \notin wrong[call] /\ (b \in region[call] => b \in reported)

IInv == Types /\ NoneInv /\ OwedInv /\ LastInv /\ CallInv

\* What duplicate() on output `at` does to the blocks of all frames.
Drawn ==
  /\ \A f \in Frames, b \in Blocks :
       OutputOf[b] # at => /\ b \in wrong'[f] <=> b \in wrong[f]
                           /\ b \in region'[call] <=> b \in region[call]
  /\ \A b \in On(at) :
       /\ b \in region[call] => b \in region'[call] \/ b \in reported'
       /\ b \in wrong'[call] => b \in region'[call]
       /\ taken[at] # 0 => /\ b \notin wrong'[call]
                           /\ b \in region'[call] => b \in reported'
  /\ \A f \in registered \ {call}, b \in Blocks :
       /\ b \in wrong'[f] => b \in region'[f]
       /\ b \in region[f] => b \in region'[f]
       /\ b \in news'[f] <=> b \in news[f]
  /\ \A b \in Blocks : /\ b \in reported => b \in reported'
                       /\ b \in news'[call] => b \in news[call] \/ b \in reported'
                       /\ Complete => ~(b \in news'[call] /\ b \in reported')
  /\ \A o \in Outputs :
       /\ o # at => last'[o] = last[o] /\ taken'[o] = taken[o]
       /\ taken[o] # 0 => taken'[o] # 0
       /\ last'[o] = None <=> taken'[o] = 0
       /\ last'[o] # None => /\ last'[o] \in sized
                             /\ \A b \in On(o) : b \notin wrong'[last'[o]]

DrawnTypes == /\ owed' \in SUBSET Blocks
              /\ last' \in [Outputs -> Frames \cup {None}]
              /\ taken' \in [Outputs -> 0 .. 2]
              /\ region' \in [Frames -> SUBSET Blocks]
              /\ wrong' \in [Frames -> SUBSET Blocks]
              /\ news' \in [Frames -> SUBSET Blocks]
              /\ reported' \in SUBSET Blocks

-----------------------------------------------------------------------------
\* The parts together are the type invariant of the module.
LEMMA TypesAreTypeOK == Types <=> TypeOK
  BY DEF Types, TypeOK, DeviceType, ContextsType, BuffersType, CaptureType

\* The outputs are numbered from 1.
LEMMA Numbered == /\ LastOutput \in Nat \ {0} /\ Outputs = 1 .. LastOutput
                  /\ \A f \in Frames : First(f) \in Outputs
<1>1. Cardinality(Outputs) \in Nat
  BY FS_CardinalityType, DxgiAssumption
<1>2. Outputs = 1 .. Cardinality(Outputs) /\ Outputs # {}
  BY DxgiAssumption
<1>3. Cardinality(Outputs) # 0
  BY <1>1, <1>2
<1>4. 1 \in Outputs
  BY <1>1, <1>2, <1>3
<1> QED
  BY <1>1, <1>2, <1>3, <1>4, DxgiAssumption DEF LastOutput, First

\* AcquireNextFrame with a new frame.
LEMMA NewFrameDraws ==
  ASSUME IInv, up = "ready", call # None, NewFrame
  PROVE  Drawn /\ DrawnTypes
<1> DEFINE new == owed \cap On(at)
           updated == (region[call] \cap On(at)) \cup new
<1>0. call \in registered /\ call \in Frames /\ at \in Outputs /\ call \in sized
  BY DEF IInv, Types, CallInv, OwedInv, CaptureType
<1>1. /\ owed' = owed \ new
      /\ region' = [f \in Frames |-> IF f = call THEN (region[f] \ On(at)) \cup new
                                     ELSE IF f \in registered THEN region[f] \cup new
                                     ELSE region[f]]
      /\ wrong' = [f \in Frames |-> IF f = call THEN (wrong[f] \cup new) \ updated
                                    ELSE wrong[f] \cup new]
      /\ reported' = reported \cup updated
      /\ last' = [last EXCEPT ![at] = call]
      /\ taken' = [taken EXCEPT ![at] = IF @ < 2 THEN @ + 1 ELSE 2]
  BY DEF NewFrame
<1>2. news' = [news EXCEPT ![call] =
                 (@ \cup (updated \cap (wrong[call] \cup new)))
                   \ IF Complete THEN reported' ELSE {}]
  BY DEF NewFrame, Tell
<1>3. new \subseteq On(at) /\ On(at) \subseteq Blocks /\ new \subseteq Blocks /\ updated \subseteq On(at)
  BY DEF On
<1>4. DrawnTypes
  <2>1. owed' \in SUBSET Blocks /\ reported' \in SUBSET Blocks
    BY <1>1, <1>3 DEF IInv, Types, DeviceType, CaptureType
  <2>2. region' \in [Frames -> SUBSET Blocks] /\ wrong' \in [Frames -> SUBSET Blocks]
    BY <1>1, <1>3 DEF IInv, Types, ContextsType, BuffersType
  <2>3. news' \in [Frames -> SUBSET Blocks]
    BY <1>0, <1>2, <1>3 DEF IInv, Types, BuffersType
  <2>4. last' \in [Outputs -> Frames \cup {None}]
    BY <1>0, <1>1 DEF IInv, Types, DeviceType
  <2>5. taken' \in [Outputs -> 0 .. 2]
    BY <1>0, <1>1 DEF IInv, Types, DeviceType
  <2> QED
    BY <2>1, <2>2, <2>3, <2>4, <2>5 DEF DrawnTypes
<1>5. \A f \in Frames, b \in Blocks :
       OutputOf[b] # at => /\ b \in wrong'[f] <=> b \in wrong[f]
                           /\ b \in region'[call] <=> b \in region[call]
  BY <1>0, <1>1 DEF On
<1>6. \A b \in On(at) : /\ b \in region'[call] => b \in reported'
                        /\ b \in region[call] => b \in region'[call] \/ b \in reported'
                        /\ b \notin wrong'[call]
  <2>1. \A b \in On(at) : b \in wrong[call] => b \in region[call]
    BY <1>0 DEF IInv, OwedInv, On
  <2> QED
    BY <1>0, <1>1, <2>1
<1>7. \A f \in registered \ {call}, b \in Blocks :
       /\ b \in wrong'[f] => b \in region'[f]
       /\ b \in region[f] => b \in region'[f]
       /\ b \in news'[f] <=> b \in news[f]
  BY <1>1, <1>2 DEF IInv, OwedInv, Types, ContextsType, BuffersType
<1>8. \A b \in Blocks : /\ b \in reported => b \in reported'
                        /\ b \in news'[call] => b \in news[call] \/ b \in reported'
                        /\ Complete => ~(b \in news'[call] /\ b \in reported')
  BY <1>0, <1>1, <1>2 DEF IInv, Types, BuffersType
<1>9. ASSUME NEW o \in Outputs
      PROVE  /\ o # at => last'[o] = last[o] /\ taken'[o] = taken[o]
             /\ taken[o] # 0 => taken'[o] # 0
             /\ last'[o] = None <=> taken'[o] = 0
             /\ last'[o] # None => /\ last'[o] \in sized
                                   /\ \A b \in On(o) : b \notin wrong'[last'[o]]
  <2>1. CASE o = at
    <3>1. last'[o] = call /\ taken'[o] # 0
      BY <1>0, <1>1, <2>1 DEF IInv, Types, DeviceType
    <3> QED
      BY <1>0, <1>6, <2>1, <3>1
  <2>2. CASE o # at
    <3>1. last'[o] = last[o] /\ taken'[o] = taken[o]
      BY <1>1, <2>2 DEF IInv, Types, DeviceType
    <3>2. last[o] # None => last[o] \in sized /\ \A b \in On(o) : b \notin wrong[last[o]]
      BY DEF IInv, LastInv
    <3>3. last[o] # None => \A b \in On(o) : b \notin wrong'[last[o]]
      BY <1>5, <2>2, <3>2 DEF On, IInv, Types, BuffersType
    <3> QED
      BY <3>1, <3>2, <3>3 DEF IInv, LastInv
  <2> QED
    BY <2>1, <2>2
<1> QED
  BY <1>4, <1>5, <1>6, <1>7, <1>8, <1>9 DEF Drawn

\* No new frame: what is owed is drawn from the last frame, which is right.
LEMMA NoChangeDraws ==
  ASSUME IInv, up = "ready", call # None, NoChange
  PROVE  Drawn /\ DrawnTypes
<1> DEFINE due == IF last[at] = None THEN {} ELSE region[call] \cap On(at)
           from == IF last[at] = None THEN call ELSE last[at]
<1>0. call \in registered /\ call \in Frames /\ at \in Outputs /\ call \in sized
  BY DEF IInv, Types, CallInv, OwedInv, CaptureType
<1>1. /\ region' = [region EXCEPT ![call] = @ \ due]
      /\ wrong' = [wrong EXCEPT ![call] = (@ \ due) \cup (due \cap wrong[from])]
      /\ news' = [news EXCEPT ![call] = (@ \cup (due \cap wrong[call]))
                                          \ IF Complete THEN reported' ELSE {}]
      /\ reported' = reported \cup due
      /\ UNCHANGED <<owed, last, taken>>
  BY DEF NoChange, Tell
<1>2. due \subseteq On(at) /\ due \subseteq Blocks /\ due \subseteq region[call]
  BY <1>0 DEF On
<1>3. due \cap wrong[from] = {}
  BY <1>0 DEF IInv, LastInv
<1>4. from \in Frames
  BY <1>0 DEF IInv, Types, DeviceType
<1> HIDE DEF from
<1>5. DrawnTypes
  <2>1. region' \in [Frames -> SUBSET Blocks]
    BY <1>1, <1>2 DEF IInv, Types, ContextsType
  <2>2. wrong' \in [Frames -> SUBSET Blocks] /\ news' \in [Frames -> SUBSET Blocks]
    BY <1>1, <1>2 DEF IInv, Types, BuffersType
  <2>3. /\ owed' \in SUBSET Blocks /\ reported' \in SUBSET Blocks
        /\ last' \in [Outputs -> Frames \cup {None}] /\ taken' \in [Outputs -> 0 .. 2]
    BY <1>1, <1>2 DEF IInv, Types, DeviceType, CaptureType
  <2> QED
    BY <2>1, <2>2, <2>3 DEF DrawnTypes
<1>6. wrong'[call] = wrong[call] \ due /\ region'[call] = region[call] \ due
  BY <1>0, <1>1, <1>3 DEF IInv, Types, ContextsType, BuffersType
<1>7. \A f \in Frames : f # call => wrong'[f] = wrong[f] /\ region'[f] = region[f]
  BY <1>1 DEF IInv, Types, ContextsType, BuffersType
<1>8. \A f \in Frames, b \in Blocks :
       OutputOf[b] # at => /\ b \in wrong'[f] <=> b \in wrong[f]
                           /\ b \in region'[call] <=> b \in region[call]
  BY <1>2, <1>6, <1>7 DEF On
<1>9. \A b \in On(at) : b \in wrong[call] => b \in region[call]
  BY <1>0 DEF IInv, OwedInv, On
<1>10. last[at] # None => due = region[call] \cap On(at)
  OBVIOUS
<1>11. \A b \in On(at) : /\ b \in region[call] => b \in region'[call] \/ b \in reported'
                         /\ b \in wrong'[call] => b \in region'[call]
                         /\ taken[at] # 0 => /\ b \notin wrong'[call]
                                             /\ b \in region'[call] => b \in reported'
  BY <1>0, <1>1, <1>6, <1>9, <1>10 DEF IInv, LastInv
<1>12. \A f \in registered \ {call}, b \in Blocks :
       /\ b \in wrong'[f] => b \in region'[f]
       /\ b \in region[f] => b \in region'[f]
       /\ b \in news'[f] <=> b \in news[f]
  BY <1>1, <1>7 DEF IInv, OwedInv, Types, ContextsType, BuffersType
<1>13. \A b \in Blocks : /\ b \in reported => b \in reported'
                         /\ b \in news'[call] => b \in news[call] \/ b \in reported'
                         /\ Complete => ~(b \in news'[call] /\ b \in reported')
  BY <1>0, <1>1 DEF IInv, Types, BuffersType
<1>14. ASSUME NEW o \in Outputs
       PROVE  /\ last'[o] = None <=> taken'[o] = 0
              /\ last'[o] # None => /\ last'[o] \in sized
                                    /\ \A b \in On(o) : b \notin wrong'[last'[o]]
  <2>1. last'[o] = last[o] /\ taken'[o] = taken[o]
    BY <1>1
  <2>2. \A b \in Blocks, f \in Frames : b \in wrong'[f] => b \in wrong[f]
    BY <1>6, <1>7
  <2>3. last[o] # None => last[o] \in Frames /\ \A b \in On(o) : b \in Blocks
    BY DEF IInv, Types, DeviceType, On
  <2> QED
    BY <2>1, <2>2, <2>3 DEF IInv, LastInv
<1>15. \A o \in Outputs : /\ o # at => last'[o] = last[o] /\ taken'[o] = taken[o]
                          /\ taken[o] # 0 => taken'[o] # 0
  BY <1>1
<1> QED
  BY <1>5, <1>8, <1>11, <1>12, <1>13, <1>14, <1>15 DEF Drawn

-----------------------------------------------------------------------------
\* The outputs a capture has been through are done with, the present one included.
LEMMA TargetDone ==
  ASSUME IInv, up = "ready", call # None, phase = "target", Drawn,
         NEW b \in Blocks, OutputOf[b] <= at, SourceOf[call] # Full => OutputOf[b] = at
  PROVE  b \notin wrong'[call] /\ (b \in region'[call] => b \in reported')
<1>1. /\ call \in Frames /\ at \in Outputs /\ taken[at] # 0 /\ OutputOf[b] \in Outputs
      /\ SourceOf[call] = Full => \A c \in Blocks : OutputOf[c] < at =>
           c \notin wrong[call] /\ (c \in region[call] => c \in reported)
  BY DxgiAssumption DEF IInv, CallInv, Types, CaptureType
<1>2. CASE OutputOf[b] = at
  BY <1>1, <1>2 DEF Drawn, On
<1>3. CASE OutputOf[b] # at
  <2>1. OutputOf[b] < at
    BY <1>1, <1>3, Numbered
  <2> QED
    BY <1>1, <1>3, <2>1 DEF Drawn
<1> QED
  BY <1>2, <1>3

\* The step of a capture keeps the invariant, and if it is the last one the frame is
\* current and its updated regions are complete.
LEMMA DuplicateStep ==
  ASSUME IInv, Duplicate
  PROVE  /\ IInv'
         /\ call' = None => \A b \in Area(call) : b \notin wrong'[call] /\ b \notin news'[call]
<1>1. /\ call # None /\ up = "ready" /\ SourceOf[call] # Absent
      /\ UNCHANGED <<display, up, registered, sized, alive>>
      /\ phase = "ensure" => round < MaxRounds
      /\ EnsureNext \/ EnsureRound \/ TargetNext \/ Succeed
  BY DEF Duplicate, Covers
<1>2. Drawn /\ DrawnTypes
  BY NewFrameDraws, NoChangeDraws DEF Duplicate
<1>3. call \in registered /\ call \in Frames /\ at \in Outputs /\ call \in sized
  BY <1>1 DEF IInv, Types, CallInv, OwedInv, CaptureType
<1>5. call' = call \/ (call' = None /\ Complete)
  BY <1>1 DEF EnsureNext, EnsureRound, TargetNext, Succeed, Returned
<1>6. CaptureType'
  <2>1. CASE EnsureNext \/ TargetNext
    BY <1>2, <1>3, <2>1, Numbered DEF EnsureNext, TargetNext, DrawnTypes, IInv, Types, CaptureType
  <2>2. CASE EnsureRound
    <3>1. at' \in Outputs
      BY <1>3, <2>2, Numbered DEF EnsureRound
    <3>2. round' \in 0 .. MaxRounds
      BY <1>1, <2>2, DxgiAssumption DEF EnsureRound, IInv, Types, CaptureType
    <3>3. phase' \in {"ensure", "target"} /\ call' = call /\ skip' = skip
      BY <2>2 DEF EnsureRound
    <3> QED
      BY <1>2, <3>1, <3>2, <3>3 DEF DrawnTypes, IInv, Types, CaptureType
  <2>3. CASE Succeed
    BY <1>2, <2>3, Numbered, DxgiAssumption DEF Succeed, Returned, SkipCounts, DrawnTypes,
       IInv, Types, CaptureType
  <2> QED
    BY <1>1, <2>1, <2>2, <2>3
<1>7. Types'
  BY <1>1, <1>2, <1>6 DEF IInv, Types, DeviceType, ContextsType, BuffersType, DrawnTypes
<1>8. NoneInv'
  BY <1>1 DEF NoneInv
<1>9. OwedInv'
  <2>1. registered \subseteq sized
    BY <1>1 DEF IInv, OwedInv
  <2>2. ASSUME NEW f \in registered, NEW b \in Blocks, f # call
        PROVE  /\ b \in wrong'[f] => b \in region'[f]
               /\ b \in news'[f] => b \in region'[f]
    BY <1>1, <1>2, <2>2 DEF IInv, OwedInv, Drawn
  <2>3. ASSUME NEW b \in Blocks
        PROVE  /\ b \in wrong'[call] => b \in region'[call]
               /\ b \in news'[call] => b \in region'[call] \/ b \in reported'
               /\ Complete => (b \in news'[call] => b \in region'[call])
    <3>1. /\ b \in wrong[call] => b \in region[call]
          /\ b \in news[call] => b \in region[call] \/ b \in reported
      BY <1>1, <1>3 DEF IInv, OwedInv
    <3>2. /\ b \in wrong'[call] => b \in region'[call]
          /\ b \in region[call] => b \in region'[call] \/ b \in reported'
      BY <1>2, <1>3, <3>1 DEF Drawn, On
    <3> QED
      BY <1>2, <3>1, <3>2 DEF Drawn
  <2> QED
    BY <1>1, <1>5, <2>1, <2>2, <2>3 DEF OwedInv
<1>10. LastInv'
  BY <1>1, <1>2 DEF Drawn, LastInv, On
<1>11. CallInv'
  <2>1. CASE EnsureNext
    BY <1>1, <1>3, <2>1 DEF EnsureNext, CallInv
  <2>2. CASE EnsureRound
    <3>1. CASE phase' = "ensure"
      BY <1>1, <1>3, <2>2, <3>1 DEF EnsureRound, CallInv
    <3>2. CASE phase' # "ensure"
      <4>1. Enough /\ at' = First(call) /\ call' = call
        BY <2>2, <3>2 DEF EnsureRound
      <4>2. \A o \in Outputs : taken'[o] # 0
        BY <1>2, <4>1 DEF Enough, SkipCounts, DrawnTypes, IInv, Types, CaptureType
      <4>3. \A b \in Blocks : OutputOf[b] \in Outputs /\ ~(OutputOf[b] < 1)
        BY DxgiAssumption, Numbered
      <4> QED
        BY <1>1, <1>3, <4>1, <4>2, <4>3, DxgiAssumption DEF CallInv, First
    <3> QED
      BY <3>1, <3>2
  <2>3. CASE TargetNext
    <3>1. /\ phase = "target" /\ phase' = "target" /\ SourceOf[call] = Full
          /\ at' = at + 1 /\ call' = call
      BY <2>3 DEF TargetNext
    <3>2. \A o \in Outputs : taken'[o] # 0
      BY <1>1, <1>2, <3>1 DEF Drawn, IInv, CallInv
    <3>3. \A b \in Blocks : OutputOf[b] < at' => OutputOf[b] <= at
      BY <1>3, <3>1, DxgiAssumption, Numbered
    <3>4. \A b \in Blocks : OutputOf[b] < at' =>
            b \notin wrong'[call] /\ (b \in region'[call] => b \in reported')
      BY <1>1, <1>2, <3>1, <3>3, TargetDone
    <3> QED
      BY <1>1, <1>3, <3>1, <3>2, <3>4, DxgiAssumption DEF CallInv
  <2>4. CASE Succeed
    BY <2>4 DEF Succeed, Returned, CallInv
  <2> QED
    BY <1>1, <2>1, <2>2, <2>3, <2>4
<1>12. ASSUME call' = None, NEW b \in Area(call)
       PROVE  b \notin wrong'[call] /\ b \notin news'[call]
  <2>1. Complete /\ phase = "target"
    BY <1>1, <1>5, <1>12 DEF Complete
  <2>2. b \in Blocks /\ OutputOf[b] \in Outputs
    BY DxgiAssumption DEF Area, On
  <2>3. OutputOf[b] <= at /\ (SourceOf[call] # Full => OutputOf[b] = at)
    <3>1. CASE SourceOf[call] = Full
      BY <2>1, <2>2, <3>1, Numbered DEF Complete
    <3>2. CASE SourceOf[call] # Full
      <4>1. at = SourceOf[call]
        BY <1>1, <1>3, <2>1, <3>2, DxgiAssumption DEF IInv, CallInv
      <4> QED
        BY <1>3, <3>2, <4>1, Numbered DEF Area, On
    <3> QED
      BY <3>1, <3>2
  <2>4. b \notin wrong'[call] /\ (b \in region'[call] => b \in reported')
    BY <1>1, <1>2, <2>1, <2>2, <2>3, TargetDone
  <2>5. b \in news'[call] => b \in region'[call]
    BY <1>1, <1>3, <1>9, <1>12, <2>2 DEF OwedInv
  <2> QED
    BY <1>2, <2>1, <2>2, <2>4, <2>5 DEF Drawn
<1> QED
  BY <1>7, <1>8, <1>9, <1>10, <1>11, <1>12 DEF IInv

-----------------------------------------------------------------------------
\* deinitialize() leaves nothing that could be wrong.
LEMMA DeinitializedStep ==
  ASSUME IInv, Deinitialized, news' = news, sized' = sized, alive' = alive, CaptureType'
  PROVE  IInv' /\ up' = "none"
<1>1. up' = "none" /\ registered' = {} /\ \A o \in Outputs : last'[o] = None /\ taken'[o] = 0
  BY DEF Deinitialized, Untaken
<1>2. DeviceType'
  BY DEF Deinitialized, Untaken, DeviceType
<1>3. ContextsType'
  BY DEF Deinitialized, Empty, ContextsType
<1>4. BuffersType'
  BY DEF Deinitialized, Everything, IInv, Types, BuffersType
<1> QED
  BY <1>1, <1>2, <1>3, <1>4 DEF IInv, Types, NoneInv, OwedInv, LastInv, CallInv

\* A capture that fails.
LEMMA FailsStep ==
  ASSUME IInv, Fails
  PROVE  IInv' /\ up' = "none"
<1>1. CaptureType'
  BY Numbered, DxgiAssumption DEF Fails, Returned, SkipCounts, IInv, Types, CaptureType
<1> QED
  BY <1>1, DeinitializedStep DEF Fails

\* invalid_monitor_id: nothing was drawn.
LEMMA InvalidMonitorStep ==
  ASSUME IInv, InvalidMonitor
  PROVE  IInv'
<1>1. /\ call # None /\ SourceOf[call] = Absent /\ Returned
      /\ UNCHANGED <<device, contexts, buffers, alive, reported>>
  BY DEF InvalidMonitor
<1>2. CaptureType'
  BY <1>1, Numbered, DxgiAssumption DEF Returned, SkipCounts, IInv, Types, CaptureType
<1>3. Types' /\ NoneInv' /\ LastInv' /\ CallInv'
  BY <1>1, <1>2 DEF device, contexts, buffers, Returned, IInv, Types, DeviceType,
     ContextsType, BuffersType, NoneInv, LastInv, CallInv, On
<1>4. OwedInv'
  BY <1>1 DEF device, contexts, buffers, Returned, IInv, OwedInv, CallInv
<1> QED
  BY <1>3, <1>4 DEF IInv

\* The duplicators_ a capture finds or makes: contexts for the frames it has set up,
\* and everything owed to those that are new.
LEMMA InitializedStep ==
  ASSUME IInv, call = None, NEW in \in SUBSET Frames, Initialized(in),
         NEW w \in SUBSET Frames, w \cap sized = {},
         BuffersType',
         wrong' = [f \in Frames |-> IF Reinit \/ f \in w THEN Blocks ELSE wrong[f]],
         news' = [f \in Frames |-> IF f \in w THEN Blocks ELSE news[f]],
         up' = "ready" => in \cup sized \subseteq sized'
  PROVE  /\ DeviceType' /\ ContextsType' /\ NoneInv' /\ OwedInv' /\ LastInv'
         /\ up' = "ready" => /\ in \subseteq registered'
                             /\ ~Reinit => \A o \in Outputs : taken'[o] = taken[o]
<1>1. /\ up' = IF Reinit THEN "ready" ELSE up
      /\ last' = IF Reinit THEN [o \in Outputs |-> None] ELSE last
      /\ taken' = IF Reinit THEN Untaken ELSE taken
      /\ registered' = in \cup IF Reinit THEN {} ELSE registered
      /\ region' = [f \in Frames |-> IF Reinit \/ f \notin registered
                                     THEN IF f \in in THEN Blocks ELSE {}
                                     ELSE region[f]]
  BY DEF Initialized
<1>2. DeviceType'
  <2>1. owed' \in SUBSET Blocks /\ display' \in {"new", "same", "changed"}
    BY DEF Initialized, IInv, Types, DeviceType
  <2>2. up' \in {"none", "ready", "lost"} /\ last' \in [Outputs -> Frames \cup {None}]
    BY <1>1 DEF IInv, Types, DeviceType
  <2>3. taken' \in [Outputs -> 0 .. 2]
    BY <1>1 DEF Untaken, IInv, Types, DeviceType
  <2> QED
    BY <2>1, <2>2, <2>3 DEF DeviceType
<1>3. ContextsType'
  BY <1>1 DEF IInv, Types, ContextsType
<1>4. up' # "none"
  BY <1>1 DEF Reinit
<1>5. CASE up' # "ready"
  BY <1>2, <1>3, <1>4, <1>5 DEF NoneInv, OwedInv, LastInv
<1>6. CASE up' = "ready" /\ Reinit
  <2>1. OwedInv'
    BY <1>1, <1>6 DEF OwedInv, BuffersType
  <2>2. LastInv'
    BY <1>1, <1>6 DEF LastInv, Untaken
  <2> QED
    BY <1>1, <1>2, <1>3, <1>6, <2>1, <2>2 DEF NoneInv
<1>7. CASE up' = "ready" /\ ~Reinit
  <2>1. up = "ready" /\ last' = last /\ taken' = taken /\ registered' = in \cup registered
    BY <1>1, <1>7
  <2>2. registered \subseteq sized /\ registered \subseteq Frames
    BY <2>1 DEF IInv, OwedInv, Types, ContextsType
  <2>3. ASSUME NEW f \in registered, NEW b \in Blocks
        PROVE  /\ b \in wrong'[f] => b \in region'[f]
               /\ b \in news'[f] => b \in region'[f]
    <3>1. f \notin w /\ region'[f] = region[f] /\ wrong'[f] = wrong[f] /\ news'[f] = news[f]
      BY <1>1, <1>7, <2>2
    <3>2. f # call
      BY <2>2, DxgiAssumption
    <3> QED
      BY <2>1, <3>1, <3>2 DEF IInv, OwedInv
  <2>4. ASSUME NEW f \in in, f \notin registered
        PROVE  region'[f] = Blocks /\ wrong'[f] \subseteq Blocks /\ news'[f] \subseteq Blocks
    BY <1>1, <2>4 DEF BuffersType
  <2>5. OwedInv'
    BY <1>7, <2>1, <2>2, <2>3, <2>4 DEF OwedInv
  <2>6. ASSUME NEW o \in Outputs, last[o] # None
        PROVE  last[o] \in sized' /\ wrong'[last[o]] = wrong[last[o]]
    BY <1>7, <2>1, <2>6 DEF IInv, LastInv, Types, DeviceType
  <2>7. LastInv'
    BY <2>1, <2>6 DEF IInv, LastInv
  <2> QED
    BY <1>2, <1>3, <1>4, <1>7, <2>1, <2>5, <2>7 DEF NoneInv
<1> QED
  BY <1>5, <1>6, <1>7

\* The frame is prepared and has its context when the outputs' turn comes.
LEMMA BeginStep ==
  ASSUME IInv, NEW f \in Frames, Begin(f)
  PROVE  IInv' /\ call = None
<1> DEFINE anew == IF f \in sized THEN {} ELSE {f}
<1>1. /\ call = None /\ Initialized({f})
      /\ wrong' = [(IF Reinit THEN Everything ELSE wrong)
                     EXCEPT ![f] = IF f \notin sized THEN Blocks ELSE @]
      /\ news' = [news EXCEPT ![f] = IF f \notin sized THEN Blocks ELSE @]
      /\ sized' = IF up' = "ready" THEN sized \cup {f} ELSE sized
      /\ call' = f /\ reported' = {} /\ alive' = alive
      /\ \/ phase' = "ensure" /\ at' = 1
         \/ /\ ~Reinit /\ num_frames_captured # 0
            /\ phase' = "target" /\ at' = First(f)
      /\ skip' \in SkipCounts /\ round' = 0
  BY DEF Begin, SkipCounts
<1>2. wrong' = [g \in Frames |-> IF Reinit \/ g \in anew THEN Blocks ELSE wrong[g]]
  BY <1>1 DEF Everything, IInv, Types, BuffersType
<1>3. news' = [g \in Frames |-> IF g \in anew THEN Blocks ELSE news[g]]
  BY <1>1 DEF IInv, Types, BuffersType
<1>4. BuffersType'
  BY <1>1, <1>2, <1>3 DEF IInv, Types, BuffersType
<1>5. CaptureType'
  BY <1>1, Numbered, DxgiAssumption DEF CaptureType
<1>6. up' = "ready" => {f} \cup sized \subseteq sized'
  BY <1>1
<1>7. /\ DeviceType' /\ ContextsType' /\ NoneInv' /\ OwedInv' /\ LastInv'
      /\ up' = "ready" => /\ f \in registered'
                          /\ ~Reinit => \A o \in Outputs : taken'[o] = taken[o]
  <2>1. anew \in SUBSET Frames /\ anew \cap sized = {} /\ {f} \in SUBSET Frames
    OBVIOUS
  <2> HIDE DEF anew
  <2> QED
    BY <1>1, <1>2, <1>3, <1>4, <1>6, <2>1, InitializedStep
<1>8. CallInv'
  <2>1. CASE phase' = "ensure"
    BY <1>1, <1>7, <2>1 DEF CallInv
  <2>2. CASE phase' = "target" /\ up' = "ready"
    <3>1. ~Reinit /\ num_frames_captured # 0 /\ at' = First(f)
      BY <1>1, <2>2
    <3>2. \A o \in Outputs : taken'[o] # 0
      BY <1>7, <2>2, <3>1 DEF num_frames_captured
    <3>3. \A b \in Blocks : OutputOf[b] \in Outputs /\ ~(OutputOf[b] < 1)
      BY DxgiAssumption, Numbered
    <3> QED
      BY <1>1, <1>7, <3>1, <3>2, <3>3, DxgiAssumption DEF CallInv, First
  <2> QED
    BY <1>1, <2>1, <2>2 DEF CallInv
<1> QED
  BY <1>1, <1>4, <1>5, <1>7, <1>8 DEF IInv, Types

\* A frame that could not be prepared has no context.
LEMMA PrepareFailsStep ==
  ASSUME IInv, NEW f \in Frames, PrepareFails(f)
  PROVE  IInv' /\ call = None
<1>1. /\ call = None /\ Initialized({}) /\ f \notin sized
      /\ wrong' = [(IF Reinit THEN Everything ELSE wrong) EXCEPT ![f] = Blocks]
      /\ news' = [news EXCEPT ![f] = Blocks]
      /\ UNCHANGED <<sized, alive, capture>>
  BY DEF PrepareFails
<1>2. wrong' = [g \in Frames |-> IF Reinit \/ g \in {f} THEN Blocks ELSE wrong[g]]
  BY <1>1 DEF Everything, IInv, Types, BuffersType
<1>3. news' = [g \in Frames |-> IF g \in {f} THEN Blocks ELSE news[g]]
  BY <1>1 DEF IInv, Types, BuffersType
<1>4. BuffersType'
  BY <1>1, <1>2, <1>3 DEF IInv, Types, BuffersType
<1>5. DeviceType' /\ ContextsType' /\ NoneInv' /\ OwedInv' /\ LastInv'
  <2> DEFINE w == {f}
  <2>1. w \in SUBSET Frames /\ w \cap sized = {} /\ {} \in SUBSET Frames
    BY <1>1
  <2>2. up' = "ready" => {} \cup sized \subseteq sized'
    BY <1>1
  <2> QED
    BY <1>1, <1>2, <1>3, <1>4, <2>1, <2>2, InitializedStep
<1>6. CaptureType' /\ CallInv'
  BY <1>1 DEF capture, CallInv, IInv, Types, CaptureType
<1> QED
  BY <1>1, <1>4, <1>5, <1>6 DEF IInv, Types

\* What happens outside of a capture.
LEMMA OtherSteps ==
  ASSUME IInv, Environment \/ Others
  PROVE  IInv' /\ (call # None => call' = call)
<1>1. ASSUME NEW b \in Blocks, Draw(b) PROVE IInv' /\ call' = call
  <2>1. owed' \in SUBSET Blocks
    BY <1>1 DEF Draw, IInv, Types, DeviceType
  <2> QED
    BY <1>1, <2>1 DEF Draw, contexts, buffers, capture, IInv, Types, DeviceType, ContextsType,
           BuffersType, CaptureType, NoneInv, OwedInv, LastInv, CallInv, On
<1>2. ASSUME ChangeDisplay PROVE IInv' /\ call' = call
  <2>1. /\ up' \in {"none", "lost"} /\ (up' = "none" => up = "none")
        /\ display' \in {"new", "same", "changed"} /\ sized' = {} /\ owed' = {}
        /\ wrong' = Everything /\ news' = Everything
        /\ UNCHANGED <<last, taken, registered, region, alive, capture>>
    BY <1>2 DEF ChangeDisplay, contexts, IInv, Types, DeviceType
  <2>2. Types'
    BY <2>1 DEF capture, Everything, IInv, Types, DeviceType, ContextsType, BuffersType,
       CaptureType
  <2> QED
    BY <2>1, <2>2 DEF capture, IInv, NoneInv, OwedInv, LastInv, CallInv
<1>3. ASSUME Initialize PROVE IInv'
  <2>1. /\ call = None /\ up = "none" /\ up' = "ready" /\ owed' = Blocks
        /\ UNCHANGED <<display, last, taken, registered, region, wrong, news, sized, alive, capture>>
    BY <1>3 DEF Initialize, contexts, buffers
  <2>2. Types'
    BY <2>1 DEF capture, IInv, Types, DeviceType, ContextsType, BuffersType, CaptureType
  <2>3. NoneInv' /\ OwedInv' /\ LastInv' /\ CallInv'
    BY <2>1 DEF capture, IInv, NoneInv, OwedInv, LastInv, CallInv
  <2> QED
    BY <2>2, <2>3 DEF IInv
<1>4. ASSUME InitializationFailed PROVE IInv'
  <2>1. CaptureType'
    BY <1>4 DEF InitializationFailed, capture, IInv, Types, CaptureType
  <2> QED
    BY <1>4, <2>1, DeinitializedStep DEF InitializationFailed
<1>5. ASSUME NEW f \in Frames, Destroy(f) PROVE IInv'
  <2>1. /\ alive' = alive \ {f} /\ registered' = registered \ {f} /\ call = None
        /\ region' = [region EXCEPT ![f] = {}]
        /\ news' = [news EXCEPT ![f] = Blocks]
        /\ UNCHANGED <<owed, display, up, last, taken, wrong, sized, capture>>
    BY <1>5 DEF Destroy, device
  <2>2. Types'
    BY <2>1 DEF capture, IInv, Types, DeviceType, ContextsType, BuffersType, CaptureType
  <2>3. \A g \in registered' : /\ region'[g] = region[g] /\ news'[g] = news[g]
                               /\ g \in registered
    BY <2>1 DEF IInv, Types, ContextsType, BuffersType
  <2>4. NoneInv' /\ LastInv' /\ CallInv'
    BY <2>1 DEF capture, IInv, NoneInv, LastInv, CallInv, On
  <2>5. OwedInv'
    BY <2>1, <2>3 DEF capture, IInv, OwedInv
  <2> QED
    BY <2>2, <2>4, <2>5 DEF IInv
<1> QED
  BY <1>1, <1>2, <1>3, <1>4, <1>5, BeginStep, PrepareFailsStep
     DEF Environment, Others, Initialize, InitializationFailed, Destroy

-----------------------------------------------------------------------------
\* What must be so when a frame is delivered.
DeliveryIsGood ==
  Succeeds => wrong'[call] \cap Area(call) = {} /\ news'[call] \cap Area(call) = {}

\* The inductive invariant, and every delivery, in every step.
LEMMA Step ==
  ASSUME IInv, [Environment \/ Others \/ Capture]_vars
  PROVE  IInv' /\ DeliveryIsGood
<1>1. CASE UNCHANGED vars
  BY <1>1 DEF vars, device, contexts, buffers, capture, IInv, Types, DeviceType, ContextsType,
         BuffersType, CaptureType, NoneInv, OwedInv, LastInv, CallInv, On, DeliveryIsGood, Succeeds
<1>2. CASE Environment \/ Others
  BY <1>2, OtherSteps DEF DeliveryIsGood, Succeeds
<1>3. CASE Duplicate
  BY <1>3, DuplicateStep DEF DeliveryIsGood, Succeeds
<1>4. CASE DuplicateFails \/ TimedOut
  BY <1>4, FailsStep DEF DuplicateFails, TimedOut, DeliveryIsGood, Succeeds
<1>5. CASE InvalidMonitor
  BY <1>5, InvalidMonitorStep DEF InvalidMonitor, DeliveryIsGood, Succeeds
<1> QED
  BY <1>1, <1>2, <1>3, <1>4, <1>5 DEF Capture

\* It holds at first ...
LEMMA Initially == Init => IInv
<1> SUFFICES ASSUME Init PROVE IInv
  OBVIOUS
<1>1. DeviceType /\ ContextsType
  BY DEF Init, Untaken, Empty, DeviceType, ContextsType
<1>2. BuffersType
  BY DEF Init, Everything, BuffersType
<1>3. CaptureType
  BY Numbered, DxgiAssumption DEF Init, CaptureType, SkipCounts
<1>4. NoneInv /\ OwedInv /\ LastInv /\ CallInv
  BY DEF Init, Untaken, NoneInv, OwedInv, LastInv, CallInv
<1> QED
  BY <1>1, <1>2, <1>3, <1>4 DEF Init, IInv, Types

\* ... and always.
LEMMA Invariance == Spec => []IInv
  BY Initially, Step, PTL DEF Spec

\* The types of the variables, for any frames, outputs and blocks.
THEOREM TypeCorrect == Spec => []TypeOK
<1>1. IInv => TypeOK
  BY TypesAreTypeOK DEF IInv
<1> QED
  BY Invariance, <1>1, PTL

\* do_duplicate: a frame that is delivered shows what its outputs presented last.
THEOREM DeliveredIsCurrentAlways == Spec => DeliveredIsCurrent
<1>1. IInv /\ [Environment \/ Others \/ Capture]_vars
        => [Succeeds => wrong'[call] \cap Area(call) = {}]_vars
  BY Step DEF DeliveryIsGood
<1> QED
  BY Invariance, <1>1, PTL DEF Spec, DeliveredIsCurrent

\* do_duplicate: the updated regions tell of every block that has changed in a frame.
THEOREM RegionCoversFrameAlways == Spec => RegionCoversFrame
<1>1. IInv /\ [Environment \/ Others \/ Capture]_vars
        => [Succeeds => news'[call] \cap Area(call) = {}]_vars
  BY Step DEF DeliveryIsGood
<1> QED
  BY Invariance, <1>1, PTL DEF Spec, RegionCoversFrame
=============================================================================
