---------------------------- MODULE PollerProofs ----------------------------
(***************************************************************************)
(* Proofs about Poller: the views of what is watched agree, and an event   *)
(* reaches the registration it is for, however deep callbacks poll again.  *)
(***************************************************************************)
EXTENDS Poller, SequenceTheorems, TLAPS

\* What waits in the map of the innermost dispatch is of the last poll and for a
\* watcher that was there when it returned.
Current ==
    frames # <<>> =>
        \A fd \in Fds : Top.map[fd] # {} =>
            Top.poll = polls /\ watcher[fd] # 0 /\ watcher[fd] = Top.seen[fd]

\* A dispatch around a nested poll is in a callback and has nothing left.
Nested ==
    \A i \in DOMAIN frames : i < Len(frames) => frames[i].map = NoEvents

\* The watcher of a handler call is the one registered when the poll returned.
OwnWatcher(f) == f.due # {} => f.object # 0 /\ f.object = f.seen[f.fd]
Owned == \A i \in DOMAIN frames : OwnWatcher(frames[i])

PollerInv == TypeOK /\ ViewsAgree /\ Current /\ Nested /\ Owned

-----------------------------------------------------------------------------
(* The stack of dispatches.                                                *)

\* The innermost dispatch.
LEMMA TopFrame ==
    ASSUME frames \in Seq(Frames), frames # <<>>
    PROVE  /\ Len(frames) \in Nat /\ Len(frames) > 0 /\ DOMAIN frames = 1 .. Len(frames)
           /\ Top = frames[Len(frames)] /\ Top \in Frames
BY LenProperties, EmptySeq, ElementOfSeq DEF Last, Top

\* What is left of a stack without its innermost dispatch.
LEMMA FrontFrames ==
    ASSUME frames \in Seq(Frames), frames # <<>>
    PROVE  /\ Front(frames) \in Seq(Frames) /\ Len(Front(frames)) = Len(frames) - 1
           /\ \A i \in 1 .. Len(frames) - 1 : Front(frames)[i] = frames[i]
<1>1. /\ Len(frames) \in Nat /\ Len(frames) > 0
  BY TopFrame
<1>2. \A i \in 1 .. Len(frames) - 1 : frames[i] \in Frames
  BY <1>1, ElementOfSeq
<1>3. Front(frames) = SubSeq(frames, 1, Len(frames) - 1)
  BY DEF Front
<1>4. /\ SubSeq(frames, 1, Len(frames) - 1) \in Seq(Frames)
      /\ Len(SubSeq(frames, 1, Len(frames) - 1))
            = IF 1 <= Len(frames) - 1 THEN Len(frames) - 1 - 1 + 1 ELSE 0
      /\ \A i \in 1 .. Len(frames) - 1 :
            SubSeq(frames, 1, Len(frames) - 1)[i] = frames[1 + i - 1]
  BY <1>1, <1>2, SubSeqProperties
<1>5. Len(SubSeq(frames, 1, Len(frames) - 1)) = Len(frames) - 1
  <2>1. \A n \in Nat : n > 0 => (IF 1 <= n - 1 THEN n - 1 - 1 + 1 ELSE 0) = n - 1
    OBVIOUS
  <2>. QED  BY <1>1, <1>4, <2>1
<1>6. \A i \in 1 .. Len(frames) - 1 : SubSeq(frames, 1, Len(frames) - 1)[i] = frames[i]
  <2>. SUFFICES ASSUME NEW i \in 1 .. Len(frames) - 1
                PROVE  SubSeq(frames, 1, Len(frames) - 1)[i] = frames[i]
    OBVIOUS
  <2>1. SubSeq(frames, 1, Len(frames) - 1)[i] = frames[1 + i - 1]
    BY <1>4
  <2>2. 1 + i - 1 = i
    BY <1>1
  <2>. QED  BY <2>1, <2>2
<1>. QED  BY <1>3, <1>4, <1>5, <1>6

\* A step that changes the innermost dispatch only.
LEMMA TopChanged ==
    ASSUME frames \in Seq(Frames), frames # <<>>, NEW frame \in Frames, SetTop(frame)
    PROVE  /\ frames' \in Seq(Frames) /\ frames' # <<>> /\ Len(frames') = Len(frames)
           /\ Top' = frame /\ frames'[Len(frames)] = frame
           /\ \A i \in 1 .. Len(frames) - 1 : frames'[i] = frames[i]
           /\ DOMAIN frames' = 1 .. Len(frames)
<1>1. /\ Len(frames) \in Nat /\ Len(frames) > 0
  BY TopFrame
<1>2. <<frame>> \in Seq(Frames) /\ Len(<<frame>>) = 1 /\ <<frame>>[1] = frame
  OBVIOUS
<1>3. /\ Front(frames) \in Seq(Frames) /\ Len(Front(frames)) = Len(frames) - 1
      /\ \A i \in 1 .. Len(frames) - 1 : Front(frames)[i] = frames[i]
  BY FrontFrames
<1>4. frames' = Front(frames) \o <<frame>>
  BY DEF SetTop
<1>5. /\ frames' \in Seq(Frames) /\ Len(frames') = Len(frames)
      /\ \A i \in 1 .. Len(frames) : frames'[i] = IF i <= Len(frames) - 1 THEN frames[i] ELSE frame
  BY <1>1, <1>2, <1>3, <1>4, ConcatProperties
<1>6. frames' # <<>> /\ DOMAIN frames' = 1 .. Len(frames)
  BY <1>1, <1>5, LenProperties, EmptySeq
<1>. QED  BY <1>1, <1>5, <1>6 DEF Last, Top

\* A step that leaves the innermost dispatch.
LEMMA TopLeft ==
    ASSUME PollerInv, frames # <<>>, frames' = Front(frames), UNCHANGED <<watcher, polls>>
    PROVE  /\ frames' \in Seq(Frames) /\ Len(frames') = Len(frames) - 1
           /\ Len(frames') <= MaxDepth
           /\ Current' /\ Nested' /\ Owned'
<1>. USE DEF PollerInv, TypeOK
<1>1. /\ Len(frames) \in Nat /\ Len(frames) > 0
  BY TopFrame
<1>2. /\ frames' \in Seq(Frames) /\ Len(frames') = Len(frames) - 1
      /\ \A i \in 1 .. Len(frames) - 1 : frames'[i] = frames[i]
  BY FrontFrames
<1>3. DOMAIN frames' = 1 .. Len(frames) - 1 /\ DOMAIN frames = 1 .. Len(frames)
  BY <1>1, <1>2, LenProperties
<1>4. \A i \in DOMAIN frames' : frames'[i].map = NoEvents
  BY <1>1, <1>2, <1>3 DEF Nested
<1>5. Current'
  <2>. SUFFICES ASSUME frames' # <<>> PROVE \A fd \in Fds : Top'.map[fd] = {}
    BY DEF Current
  <2>1. Top' = frames'[Len(frames')] /\ Len(frames') \in DOMAIN frames'
    BY <1>1, <1>2, <1>3, EmptySeq DEF Last, Top
  <2>. QED  BY <1>4, <2>1 DEF NoEvents
<1>6. Nested'
  BY <1>4 DEF Nested
<1>7. Owned'
  BY <1>1, <1>2, <1>3 DEF Owned
<1>. QED  BY <1>1, <1>2, <1>5, <1>6, <1>7, BoundsAssumption

\* A step that changes the innermost dispatch only keeps the others' parts.
LEMMA OthersKept ==
    ASSUME PollerInv, frames # <<>>, NEW frame \in Frames, SetTop(frame),
           OwnWatcher(frame)
    PROVE  Nested' /\ Owned' /\ Len(frames') <= MaxDepth /\ frames' \in Seq(Frames)
<1>. USE DEF PollerInv, TypeOK
<1>1. /\ Len(frames) \in Nat /\ Len(frames) > 0 /\ DOMAIN frames = 1 .. Len(frames)
  BY TopFrame
<1>2. /\ frames' \in Seq(Frames) /\ Len(frames') = Len(frames)
      /\ frames'[Len(frames)] = frame
      /\ \A i \in 1 .. Len(frames) - 1 : frames'[i] = frames[i]
      /\ DOMAIN frames' = 1 .. Len(frames)
  BY TopChanged
<1>3. Nested'
  BY <1>1, <1>2 DEF Nested
<1>4. Owned'
  BY <1>1, <1>2 DEF Owned
<1>. QED  BY <1>2, <1>3, <1>4

-----------------------------------------------------------------------------
(* Registration.                                                           *)

\* Nothing is watched at the start.
LEMMA InitPoller == Init => PollerInv
<1>. SUFFICES ASSUME Init PROVE PollerInv
  OBVIOUS
<1>. USE BoundsAssumption DEF Init
<1>1. frames \in Seq(Frames) /\ Len(frames) = 0 /\ DOMAIN frames = {}
  BY EmptySeq, LenProperties
<1>2. TypeOK
  <2>1. kernel \in [Fds -> SUBSET Interests] /\ fdEvents \in [Interests -> SUBSET Fds]
    BY DEF NoEvents
  <2>2. \A i \in DOMAIN frames : frames[i].due # {} => frames[i].object # 0
    BY <1>1
  <2>3. watcher \in [Fds -> 0..MaxObjects] /\ objects \in 0..MaxObjects /\ polls \in 0..MaxPolls
    OBVIOUS
  <2>4. Len(frames) <= MaxDepth
    BY <1>1
  <2>. QED  BY <1>1, <2>1, <2>2, <2>3, <2>4 DEF TypeOK
<1>3. ViewsAgree
  BY DEF ViewsAgree, Interests, NoEvents
<1>. QED  BY <1>1, <1>2, <1>3 DEF PollerInv, Current, Nested, Owned

\* What set_* and remove_* tell the poller.
LEMMA EventsSet ==
    ASSUME TypeOK, ViewsAgree, NEW fd \in Fds, NEW events \in SUBSET Interests,
           SetHandlerEvents(fd, events), active' = active
    PROVE  /\ fdEvents' \in [Interests -> SUBSET Fds]
           /\ kernel' \in [Fds -> SUBSET Interests]
           /\ \A f \in Fds : kernel'[f] = IF active' THEN Interest(f)' ELSE {}
           /\ \A e \in Interests :
                 fdEvents'[e] = IF e \in events THEN fdEvents[e] \cup {fd}
                                ELSE fdEvents[e] \ {fd}
<1>. USE DEF TypeOK, ViewsAgree, SetHandlerEvents
<1>1. /\ fdEvents' \in [Interests -> SUBSET Fds]
      /\ kernel' \in [Fds -> SUBSET Interests]
      /\ \A e \in Interests :
                 fdEvents'[e] = IF e \in events THEN fdEvents[e] \cup {fd}
                                ELSE fdEvents[e] \ {fd}
  OBVIOUS
<1>2. Interest(fd)' = events
  BY <1>1 DEF Interest
<1>3. \A f \in Fds \ {fd} : Interest(f)' = Interest(f)
  BY <1>1 DEF Interest
<1>. QED  BY <1>1, <1>2, <1>3

\* Who registers and unregisters keeps the views together.
LEMMA NextViews ==
    ASSUME TypeOK, ViewsAgree, [Next]_vars
    PROVE  /\ ViewsAgree'
           /\ watcher' \in [Fds -> 0..MaxObjects] /\ objects' \in 0..MaxObjects
           /\ readers' \subseteq Fds /\ writers' \subseteq Fds /\ handlers' \subseteq Fds
           /\ fdEvents' \in [Interests -> SUBSET Fds] /\ active' \in BOOLEAN
           /\ kernel' \in [Fds -> SUBSET Interests]
<1>. DEFINE Types ==
              /\ watcher \in [Fds -> 0..MaxObjects] /\ objects \in 0..MaxObjects
              /\ readers \subseteq Fds /\ writers \subseteq Fds /\ handlers \subseteq Fds
              /\ fdEvents \in [Interests -> SUBSET Fds] /\ active \in BOOLEAN
              /\ kernel \in [Fds -> SUBSET Interests]
<1>. SUFFICES ViewsAgree' /\ Types'
  OBVIOUS
<1>. USE BoundsAssumption
<1>1. Types
  BY DEF TypeOK
<1>2. CASE UNCHANGED <<adapterVars, baseVars, active>>
  <2>1. ViewsAgree'
    BY <1>2 DEF ViewsAgree, adapterVars, baseVars, Interest
  <2>. QED  BY <1>1, <1>2, <2>1 DEF adapterVars, baseVars
<1>3. CASE \/ Poll \/ EndDispatch \/ CallBack \/ Return \/ Raise
           \/ (\E fd \in Fds : DispatchFd(fd)) \/ UNCHANGED vars
  <2>1. UNCHANGED <<adapterVars, baseVars, active>>
    BY <1>3 DEF Poll, EndDispatch, CallBack, Return, Raise, DispatchFd, vars
  <2>. QED  BY <1>2, <2>1
<1>4. CASE Activate \/ Deactivate
  <2>1. UNCHANGED <<adapterVars, handlers, fdEvents>> /\ active' \in BOOLEAN
    BY <1>4 DEF Activate, Deactivate
  <2>2. \A fd \in Fds : Interest(fd)' = Interest(fd) /\ Interest(fd) \subseteq Interests
    BY <2>1 DEF Interest
  <2>3. /\ kernel' \in [Fds -> SUBSET Interests]
        /\ \A fd \in Fds : kernel'[fd] = IF active' THEN Interest(fd) ELSE {}
    BY <1>4, <2>2 DEF Activate, Deactivate, NoEvents
  <2>. QED  BY <1>1, <2>1, <2>2, <2>3 DEF ViewsAgree, adapterVars
<1>5. ASSUME NEW fd \in Fds, SetReader(fd) \/ SetWriter(fd) \/ RemoveReader(fd) \/ RemoveWriter(fd)
      PROVE  ViewsAgree' /\ Types'
  <2>. DEFINE mask(r, w) == (IF r THEN ReadableMask ELSE {}) \cup (IF w THEN WritableMask ELSE {})
  <2>1. /\ SetHandlerEvents(fd, mask(fd \in readers', fd \in writers')) /\ active' = active
        /\ watcher' = [watcher EXCEPT ![fd] = watcher'[fd]] /\ watcher'[fd] \in 0..MaxObjects
        /\ watcher'[fd] # 0 <=> fd \in readers' \cup writers'
        /\ handlers' = IF watcher'[fd] # 0 THEN handlers \cup {fd} ELSE handlers \ {fd}
        /\ objects' \in 0..MaxObjects
        /\ readers' \in {readers \cup {fd}, readers \ {fd}}
        /\ writers' \in {writers \cup {fd}, writers \ {fd}}
    <3>1. CASE SetReader(fd)
      <4>1. CASE watcher[fd] = 0
        <5>1. NewWatcher(fd) /\ objects + 1 # 0 /\ objects + 1 \in 0..MaxObjects
          BY <1>1, <3>1, <4>1 DEF SetReader, NewWatcher
        <5>2. /\ readers' = readers \cup {fd} /\ writers' = writers /\ fd \notin writers
              /\ AddHandler(fd, ReadableMask) /\ active' = active
          BY <1>1, <3>1, <4>1 DEF SetReader, ViewsAgree
        <5>3. mask(fd \in readers', fd \in writers') = ReadableMask
          BY <5>2
        <5>. HIDE DEF mask
        <5>. QED  BY <1>1, <3>1, <4>1, <5>1, <5>2, <5>3 DEF NewWatcher, AddHandler
      <4>2. CASE watcher[fd] # 0
        <5>1. watcher' = watcher /\ [watcher EXCEPT ![fd] = watcher[fd]] = watcher
          BY <1>1, <3>1, <4>2 DEF SetReader, NewWatcher
        <5>2. /\ readers' = readers \cup {fd} /\ writers' = writers /\ fd \in writers
              /\ UpdateHandler(fd, ReadableMask \cup WritableMask) /\ UNCHANGED <<active, objects>>
          BY <1>1, <3>1, <4>2 DEF SetReader, NewWatcher, ViewsAgree
        <5>3. mask(fd \in readers', fd \in writers') = ReadableMask \cup WritableMask
          BY <5>2
        <5>4. fd \in handlers /\ watcher[fd] \in 0..MaxObjects
          BY <1>1, <4>2 DEF ViewsAgree
        <5>. HIDE DEF mask
        <5>. QED  BY <1>1, <4>2, <5>1, <5>2, <5>3, <5>4 DEF UpdateHandler
      <4>. QED  BY <4>1, <4>2
    <3>2. CASE SetWriter(fd)
      <4>1. CASE watcher[fd] = 0
        <5>1. NewWatcher(fd) /\ objects + 1 # 0 /\ objects + 1 \in 0..MaxObjects
          BY <1>1, <3>2, <4>1 DEF SetWriter, NewWatcher
        <5>2. /\ writers' = writers \cup {fd} /\ readers' = readers /\ fd \notin readers
              /\ AddHandler(fd, WritableMask) /\ active' = active
          BY <1>1, <3>2, <4>1 DEF SetWriter, ViewsAgree
        <5>3. mask(fd \in readers', fd \in writers') = WritableMask
          BY <5>2
        <5>. HIDE DEF mask
        <5>. QED  BY <1>1, <3>2, <4>1, <5>1, <5>2, <5>3 DEF NewWatcher, AddHandler
      <4>2. CASE watcher[fd] # 0
        <5>1. watcher' = watcher /\ [watcher EXCEPT ![fd] = watcher[fd]] = watcher
          BY <1>1, <3>2, <4>2 DEF SetWriter, NewWatcher
        <5>2. /\ writers' = writers \cup {fd} /\ readers' = readers /\ fd \in readers
              /\ UpdateHandler(fd, ReadableMask \cup WritableMask) /\ UNCHANGED <<active, objects>>
          BY <1>1, <3>2, <4>2 DEF SetWriter, NewWatcher, ViewsAgree
        <5>3. mask(fd \in readers', fd \in writers') = ReadableMask \cup WritableMask
          BY <5>2
        <5>4. fd \in handlers /\ watcher[fd] \in 0..MaxObjects
          BY <1>1, <4>2 DEF ViewsAgree
        <5>. HIDE DEF mask
        <5>. QED  BY <1>1, <4>2, <5>1, <5>2, <5>3, <5>4 DEF UpdateHandler
      <4>. QED  BY <4>1, <4>2
    <3>3. CASE RemoveReader(fd)
      BY <1>1, <1>5, <3>3 DEF RemoveReader, DropWatcher, RemoveHandler, UpdateHandler,
         ViewsAgree, ReadableMask, WritableMask
    <3>4. CASE RemoveWriter(fd)
      BY <1>1, <1>5, <3>4 DEF RemoveWriter, DropWatcher, RemoveHandler, UpdateHandler,
         ViewsAgree, ReadableMask, WritableMask
    <3>. QED  BY <1>5, <3>1, <3>2, <3>3, <3>4
  <2>2. mask(fd \in readers', fd \in writers') \in SUBSET Interests
    BY DEF ReadableMask, WritableMask, Interests
  <2>3. /\ fdEvents' \in [Interests -> SUBSET Fds] /\ kernel' \in [Fds -> SUBSET Interests]
        /\ \A f \in Fds : kernel'[f] = IF active' THEN Interest(f)' ELSE {}
        /\ \A e \in Interests :
              fdEvents'[e] = IF e \in mask(fd \in readers', fd \in writers')
                             THEN fdEvents[e] \cup {fd} ELSE fdEvents[e] \ {fd}
    <3>1. PICK events \in SUBSET Interests : events = mask(fd \in readers', fd \in writers')
      BY <2>2
    <3>2. SetHandlerEvents(fd, events) /\ active' = active
      BY <2>1, <3>1
    <3>. QED  BY <3>1, <3>2, EventsSet
  <2>4. fdEvents'["READ"] = readers' /\ fdEvents'["WRITE"] = writers'
        /\ fdEvents'["ERROR"] = writers'
    BY <2>1, <2>3 DEF ViewsAgree, Interests, ReadableMask, WritableMask
  <2>5. \A f \in Fds \ {fd} : /\ watcher'[f] = watcher[f]
                              /\ f \in handlers' <=> f \in handlers
                              /\ f \in readers' <=> f \in readers
                              /\ f \in writers' <=> f \in writers
    BY <1>1, <2>1
  <2>6. ViewsAgree'
    BY <2>1, <2>3, <2>4, <2>5 DEF ViewsAgree
  <2>. QED  BY <1>1, <2>1, <2>3, <2>6
<1>. QED  BY <1>3, <1>4, <1>5 DEF Next

-----------------------------------------------------------------------------
(* Dispatch.                                                               *)

\* A callback of the application that removes a watcher takes its events along.
LEMMA RegistrationFrames ==
    ASSUME PollerInv, NEW fd \in Fds,
           SetReader(fd) \/ SetWriter(fd) \/ RemoveReader(fd) \/ RemoveWriter(fd)
    PROVE  Current' /\ Nested' /\ Owned' /\ Len(frames') <= MaxDepth /\ frames' \in Seq(Frames)
<1>1. TypeOK /\ Nested /\ Owned /\ Current
  BY DEF PollerInv
<1>2. polls' = polls /\ \A f \in Fds \ {fd} : watcher'[f] = watcher[f]
  BY <1>1 DEF SetReader, SetWriter, RemoveReader, RemoveWriter, DropWatcher, NewWatcher, TypeOK
<1>3. CASE frames' = frames
  <2>1. frames # <<>> /\ Top.map[fd] # {} => watcher'[fd] = watcher[fd]
    <3>1. CASE watcher[fd] = 0
      BY <1>1, <3>1 DEF Current
    <3>2. CASE SetReader(fd) /\ watcher[fd] # 0
      BY <3>2 DEF SetReader, NewWatcher
    <3>3. CASE SetWriter(fd) /\ watcher[fd] # 0
      BY <3>3 DEF SetWriter, NewWatcher
    <3>4. CASE DropWatcher(fd)
      <4>. SUFFICES ASSUME frames # <<>>, Top.map[fd] # {} PROVE FALSE
        OBVIOUS
      <4>1. Top \in Frames
        BY <1>1, TopFrame DEF TypeOK
      <4>2. [Top EXCEPT !.map[fd] = {}] \in Frames
        BY <4>1 DEF Frames
      <4>3. Top' = [Top EXCEPT !.map[fd] = {}]
        BY <1>1, <3>4, <4>2, TopChanged DEF TypeOK, DropWatcher, RemoveHandler
      <4>4. Top'.map[fd] = {}
        BY <4>1, <4>3 DEF Frames
      <4>5. Top' = Top
        BY <1>3 DEF Top
      <4>. QED  BY <4>4, <4>5
    <3>5. CASE (RemoveReader(fd) \/ RemoveWriter(fd)) /\ ~DropWatcher(fd)
      BY <3>5 DEF RemoveReader, RemoveWriter
    <3>. QED  BY <3>1, <3>2, <3>3, <3>4, <3>5
  <2>2. Top' = Top
    BY <1>3 DEF Top
  <2>3. Current'
    BY <1>1, <1>2, <1>3, <2>1, <2>2 DEF Current
  <2>. QED  BY <1>1, <1>3, <2>3 DEF Nested, Owned, TypeOK
<1>4. CASE frames' # frames
  <2>1. DropWatcher(fd) /\ frames # <<>>
    BY <1>4 DEF SetReader, SetWriter, RemoveReader, RemoveWriter, UpdateHandler, AddHandler,
       DropWatcher, RemoveHandler
  <2>. DEFINE frame == [Top EXCEPT !.map[fd] = {}]
  <2>2. Top \in Frames /\ OwnWatcher(Top)
    BY <1>1, <2>1, TopFrame DEF TypeOK, Owned
  <2>3. /\ frame \in Frames /\ frame.due = Top.due /\ frame.object = Top.object
        /\ frame.seen = Top.seen /\ frame.fd = Top.fd /\ frame.poll = Top.poll
        /\ \A f \in Fds : frame.map[f] = IF f = fd THEN {} ELSE Top.map[f]
    BY <2>2 DEF Frames
  <2>4. SetTop(frame)
    BY <2>1 DEF DropWatcher, RemoveHandler
  <2>. HIDE DEF frame
  <2>5. Top' = frame
    BY <1>1, <2>1, <2>3, <2>4, TopChanged DEF TypeOK
  <2>6. Current'
    BY <1>1, <1>2, <2>1, <2>3, <2>5 DEF Current
  <2>7. OwnWatcher(frame)
    BY <2>2, <2>3 DEF OwnWatcher
  <2>. QED  BY <2>1, <2>3, <2>4, <2>6, <2>7, OthersKept
<1>. QED  BY <1>3, <1>4

\* poll() serves nothing of the dispatch it is nested in.
LEMMA PollFrames ==
    ASSUME PollerInv, Poll
    PROVE  /\ Current' /\ Nested' /\ Owned' /\ Len(frames') <= MaxDepth
           /\ frames' \in Seq(Frames) /\ polls' \in 0..MaxPolls
<1>. DEFINE outer == IF frames = <<>> THEN <<>>
                     ELSE Front(frames) \o <<[Top EXCEPT !.map = NoEvents]>>
<1>1. /\ TypeOK /\ Nested /\ Owned /\ ViewsAgree /\ frames \in Seq(Frames) /\ Len(frames) \in Nat
      /\ UNCHANGED <<watcher, active>> /\ active
      /\ polls' = polls + 1 /\ polls' \in 1..MaxPolls /\ Len(frames) < MaxDepth
  BY LenProperties, BoundsAssumption DEF PollerInv, TypeOK, Poll, adapterVars
<1>2. PICK map \in Reports, fd \in Fds : frames' = Append(outer, NewFrame(fd, map))
  <2>1. (CHOOSE fd \in Fds : TRUE) \in Fds
    BY FdsAssumption
  <2>. QED  BY <2>1 DEF Poll
<1>. DEFINE new == NewFrame(fd, map)
<1>3. /\ new \in Frames /\ OwnWatcher(new) /\ new.map = map /\ new.poll = polls'
      /\ new.seen = watcher
  <2>1. map \in [Fds -> SUBSET Interests] /\ {f \in Fds : map[f] # {}} \in SUBSET Fds
    BY <1>2 DEF Reports
  <2>. QED  BY <1>1, <2>1, BoundsAssumption DEF NewFrame, Frames, OwnWatcher, TypeOK
<1>4. \A f \in Fds : map[f] # {} => watcher[f] # 0
  <2>. SUFFICES ASSUME NEW f \in Fds, map[f] # {} PROVE watcher[f] # 0
    OBVIOUS
  <2>1. kernel[f] # {}
    BY <1>2 DEF Reports
  <2>2. PICK e \in Interests : f \in fdEvents[e]
    BY <1>1, <2>1 DEF ViewsAgree, Interest
  <2>. QED  BY <1>1, <2>2 DEF ViewsAgree, Interests
<1>5. /\ outer \in Seq(Frames) /\ Len(outer) = Len(frames)
      /\ \A i \in 1 .. Len(frames) : outer[i].map = NoEvents /\ OwnWatcher(outer[i])
  <2>1. CASE frames = <<>>
    BY <1>1, <2>1
  <2>2. CASE frames # <<>>
    <3>. DEFINE frame == [Top EXCEPT !.map = NoEvents]
    <3>1. Top \in Frames /\ OwnWatcher(Top) /\ DOMAIN frames = 1 .. Len(frames)
      BY <1>1, <2>2, TopFrame DEF Owned
    <3>2. /\ frame \in Frames /\ frame.due = Top.due /\ frame.object = Top.object
          /\ frame.seen = Top.seen /\ frame.fd = Top.fd /\ frame.map = NoEvents
      BY <3>1 DEF Frames, NoEvents
    <3>3. OwnWatcher(frame)
      BY <3>1, <3>2 DEF OwnWatcher
    <3>4. outer = Front(frames) \o <<frame>>
      BY <2>2
    <3>. HIDE DEF frame, outer
    <3>5. /\ Front(frames) \in Seq(Frames) /\ Len(Front(frames)) = Len(frames) - 1
          /\ \A i \in 1 .. Len(frames) - 1 : Front(frames)[i] = frames[i]
      BY <1>1, <2>2, FrontFrames
    <3>6. <<frame>> \in Seq(Frames) /\ Len(<<frame>>) = 1 /\ <<frame>>[1] = frame
      BY <3>2
    <3>7. /\ outer \in Seq(Frames) /\ Len(outer) = Len(frames)
          /\ \A i \in 1 .. Len(frames) :
                outer[i] = IF i <= Len(frames) - 1 THEN frames[i] ELSE frame
      BY <1>1, <3>4, <3>5, <3>6, ConcatProperties
    <3>8. frame.map = NoEvents /\ OwnWatcher(frame)
      BY <3>2, <3>3
    <3>9. ASSUME NEW i \in 1 .. Len(frames)
          PROVE  outer[i].map = NoEvents /\ OwnWatcher(outer[i])
      <4>1. CASE i <= Len(frames) - 1
        <5>1. outer[i] = frames[i] /\ i \in DOMAIN frames /\ i < Len(frames)
          BY <1>1, <3>1, <3>7, <4>1
        <5>. QED  BY <1>1, <5>1 DEF Nested, Owned
      <4>2. CASE ~(i <= Len(frames) - 1)
        BY <3>7, <3>8, <4>2
      <4>. QED  BY <4>1, <4>2
    <3>. QED  BY <3>7, <3>9
  <2>. QED  BY <2>1, <2>2
<1>. HIDE DEF outer, new
<1>6. /\ frames' \in Seq(Frames) /\ Len(frames') = Len(frames) + 1
      /\ \A i \in 1 .. Len(frames) : frames'[i] = outer[i]
      /\ frames'[Len(frames) + 1] = new
  BY <1>2, <1>3, <1>5, AppendProperties DEF new
<1>7. DOMAIN frames' = 1 .. Len(frames) + 1 /\ Len(frames') <= MaxDepth
  BY <1>1, <1>6, LenProperties, BoundsAssumption
<1>8. Top' = new
  BY <1>6 DEF Top, Last
<1>9. Current'
  BY <1>1, <1>3, <1>4, <1>8 DEF Current
<1>10. Nested' /\ Owned'
  BY <1>1, <1>3, <1>5, <1>6, <1>7 DEF Nested, Owned
<1>. QED  BY <1>1, <1>6, <1>7, <1>9, <1>10

\* One key of the map: the handler of a descriptor that is still watched.
LEMMA DispatchFrames ==
    ASSUME PollerInv, NEW fd \in Fds, DispatchFd(fd)
    PROVE  /\ Current' /\ Nested' /\ Owned' /\ Len(frames') <= MaxDepth
           /\ frames' \in Seq(Frames)
           /\ Top'.fd = fd /\ (Top'.due # {} => Top.map[fd] # {})
<1>. DEFINE events == Top.map[fd] \cap Interest(fd)
            called == {c \in {"reader", "writer"} :
                        events \cap (IF c = "reader" THEN ReadableMask ELSE WritableMask) # {}}
            frame == [Top EXCEPT !.todo = @ \ {fd}, !.fd = fd, !.due = called,
                                 !.object = watcher[fd]]
<1>1. TypeOK /\ Current /\ frames # <<>> /\ SetTop(frame) /\ UNCHANGED <<watcher, polls>>
  BY DEF PollerInv, DispatchFd, Idle, adapterVars
<1>2. Top \in Frames /\ watcher[fd] \in 0..MaxObjects
  BY <1>1, TopFrame DEF TypeOK
<1>3. called \in SUBSET {"reader", "writer"} /\ (called # {} => Top.map[fd] # {})
  OBVIOUS
<1>. HIDE DEF called
<1>4. /\ frame \in Frames /\ frame.map = Top.map /\ frame.seen = Top.seen
      /\ frame.poll = Top.poll /\ frame.fd = fd /\ frame.due = called
      /\ frame.object = watcher[fd]
  BY <1>2, <1>3 DEF Frames
<1>. HIDE DEF frame
<1>5. OwnWatcher(frame)
  BY <1>1, <1>3, <1>4 DEF OwnWatcher, Current
<1>6. Top' = frame
  BY <1>1, <1>4, TopChanged DEF TypeOK
<1>7. Current'
  BY <1>1, <1>4, <1>6 DEF Current
<1>. QED  BY <1>1, <1>3, <1>4, <1>5, <1>6, <1>7, OthersKept

\* The reader or the writer of the watcher, and the return of a callback.
LEMMA CallbackFrames ==
    ASSUME PollerInv, CallBack \/ Return
    PROVE  /\ Current' /\ Nested' /\ Owned' /\ Len(frames') <= MaxDepth
           /\ frames' \in Seq(Frames)
<1>1. TypeOK /\ Current /\ Owned /\ frames # <<>> /\ UNCHANGED <<watcher, polls>>
  BY DEF PollerInv, CallBack, Return, InCallback, adapterVars
<1>2. Top \in Frames /\ OwnWatcher(Top)
  BY <1>1, TopFrame DEF TypeOK, Owned
<1>3. PICK frame \in Frames :
        /\ SetTop(frame) /\ frame.due \in SUBSET Top.due /\ frame.map = Top.map
        /\ frame.seen = Top.seen /\ frame.poll = Top.poll /\ frame.fd = Top.fd
        /\ frame.object = Top.object
  <2>1. CASE CallBack
    <3>1. PICK c \in {"reader", "writer"}, in \in {"reader", "writer", "none"} :
            SetTop([Top EXCEPT !.due = @ \ {c}, !.in = in])
      BY <2>1 DEF CallBack
    <3>2. /\ [Top EXCEPT !.due = @ \ {c}, !.in = in] \in Frames
          /\ [Top EXCEPT !.due = @ \ {c}, !.in = in].due \in SUBSET Top.due
      BY <1>2 DEF Frames
    <3>. QED  BY <1>2, <3>1, <3>2 DEF Frames
  <2>2. CASE Return
    <3>1. SetTop([Top EXCEPT !.in = "none"])
      BY <2>2 DEF Return
    <3>2. [Top EXCEPT !.in = "none"] \in Frames
      BY <1>2 DEF Frames
    <3>. QED  BY <1>2, <3>1, <3>2 DEF Frames
  <2>. QED  BY <2>1, <2>2
<1>4. OwnWatcher(frame)
  BY <1>2, <1>3 DEF OwnWatcher
<1>5. Top' = frame
  BY <1>1, <1>3, TopChanged DEF TypeOK
<1>6. Current'
  BY <1>1, <1>3, <1>5 DEF Current
<1>. QED  BY <1>1, <1>3, <1>4, <1>6, OthersKept

\* Whatever runs, the events that wait are for the watchers that are registered.
LEMMA NextFrames ==
    ASSUME PollerInv, [Next]_vars
    PROVE  /\ Current' /\ Nested' /\ Owned' /\ Len(frames') <= MaxDepth
           /\ frames' \in Seq(Frames) /\ polls' \in 0..MaxPolls
<1>1. TypeOK /\ Current /\ Nested /\ Owned
  BY DEF PollerInv
<1>2. CASE Poll
  BY <1>2, PollFrames
<1>3. CASE EndDispatch \/ Raise
  <2>1. frames # <<>> /\ frames' = Front(frames) /\ UNCHANGED <<watcher, polls>>
    BY <1>3 DEF EndDispatch, Raise, Idle, InCallback, adapterVars
  <2>. QED  BY <1>1, <2>1, TopLeft DEF TypeOK
<1>4. CASE CallBack \/ Return
  <2>1. polls' = polls
    BY <1>4 DEF CallBack, Return
  <2>. QED  BY <1>1, <1>4, <2>1, CallbackFrames DEF TypeOK
<1>5. CASE \E fd \in Fds : DispatchFd(fd)
  <2>1. PICK fd \in Fds : DispatchFd(fd)
    BY <1>5
  <2>2. polls' = polls
    BY <2>1 DEF DispatchFd
  <2>. QED  BY <1>1, <2>1, <2>2, DispatchFrames DEF TypeOK
<1>6. CASE \E fd \in Fds : SetReader(fd) \/ SetWriter(fd) \/ RemoveReader(fd) \/ RemoveWriter(fd)
  <2>1. PICK fd \in Fds : SetReader(fd) \/ SetWriter(fd) \/ RemoveReader(fd) \/ RemoveWriter(fd)
    BY <1>6
  <2>2. polls' = polls
    BY <2>1 DEF SetReader, SetWriter, RemoveReader, RemoveWriter
  <2>. QED  BY <1>1, <2>1, <2>2, RegistrationFrames DEF TypeOK
<1>7. CASE Activate \/ Deactivate \/ UNCHANGED vars
  <2>1. UNCHANGED <<watcher, frames, polls>>
    BY <1>7 DEF Activate, Deactivate, vars, adapterVars
  <2>. QED  BY <1>1, <2>1 DEF Current, Nested, Owned, TypeOK, Top
<1>. QED  BY <1>2, <1>3, <1>4, <1>5, <1>6, <1>7 DEF Next

\* The invariant is inductive.
LEMMA NextPoller == ASSUME PollerInv, [Next]_vars PROVE PollerInv'
<1>1. TypeOK /\ ViewsAgree
  BY DEF PollerInv
<1>2. /\ ViewsAgree'
      /\ watcher' \in [Fds -> 0..MaxObjects] /\ objects' \in 0..MaxObjects
      /\ readers' \subseteq Fds /\ writers' \subseteq Fds /\ handlers' \subseteq Fds
      /\ fdEvents' \in [Interests -> SUBSET Fds] /\ active' \in BOOLEAN
      /\ kernel' \in [Fds -> SUBSET Interests]
  BY <1>1, NextViews
<1>3. /\ Current' /\ Nested' /\ Owned' /\ Len(frames') <= MaxDepth
      /\ frames' \in Seq(Frames) /\ polls' \in 0..MaxPolls
  BY NextFrames
<1>4. \A i \in DOMAIN frames' : frames'[i].due # {} => frames'[i].object # 0
  BY <1>3 DEF Owned, OwnWatcher
<1>. QED  BY <1>2, <1>3, <1>4 DEF PollerInv, TypeOK

-----------------------------------------------------------------------------
\* The poller, the adapter and the dispatches under way always fit together.
THEOREM PollerInvariant == Spec => []PollerInv
<1>1. PollerInv /\ [Next]_vars => PollerInv'
  BY NextPoller
<1>. QED  BY <1>1, InitPoller, PTL DEF Spec

\* The state of the poller and of its dispatches is well typed.
THEOREM PollerTypeCorrect == Spec => []TypeOK
<1>1. PollerInv => TypeOK
  BY DEF PollerInv
<1>. QED  BY <1>1, PollerInvariant, PTL

\* The adapter, the poller and the polling object watch the same, whatever
\* callbacks of a dispatch register and unregister.
THEOREM ViewsAlwaysAgree == Spec => []ViewsAgree
<1>1. PollerInv => ViewsAgree
  BY DEF PollerInv
<1>. QED  BY <1>1, PollerInvariant, PTL

\* What EventsOfOwnRegistration says of one step.
OwnEvents ==
    /\ CallsHandler =>
           LET fd == Last(frames').fd
           IN /\ fd \in handlers /\ watcher[fd] # 0 /\ watcher[fd] = Top.seen[fd]
              /\ Top.poll = polls
    /\ CallsBack => watcher[Top.fd] = Top.seen[Top.fd]

\* Only a key of the map that still has its events calls a handler.
LEMMA HandlerCalls ==
    ASSUME PollerInv, [Next]_vars, CallsHandler
    PROVE  LET fd == Last(frames').fd
           IN /\ fd \in handlers /\ watcher[fd] # 0 /\ watcher[fd] = Top.seen[fd]
              /\ Top.poll = polls
<1>1. /\ TypeOK /\ ViewsAgree /\ Current /\ frames # <<>> /\ Idle
      /\ Len(frames') = Len(frames) /\ Last(frames').due # {}
      /\ ~Calling
  BY DEF PollerInv, CallsHandler, Idle, Calling, InCallback
<1>2. frames' # frames
  BY <1>1 DEF Idle, Top
<1>3. ~(EndDispatch \/ Raise)
  <2>1. Len(Front(frames)) # Len(frames)
    BY <1>1, FrontFrames, TopFrame DEF TypeOK
  <2>. QED  BY <1>1, <2>1 DEF EndDispatch, Raise
<1>4. \E fd \in Fds : DispatchFd(fd)
  BY <1>1, <1>2, <1>3 DEF Next, Activate, Deactivate, Poll, CallBack, Return, SetReader,
     SetWriter, RemoveReader, RemoveWriter, vars, Calling, Idle
<1>5. PICK fd \in Fds : DispatchFd(fd)
  BY <1>4
<1>6. Last(frames').fd = fd /\ Top.map[fd] # {}
  BY <1>1, <1>5, DispatchFrames DEF Top
<1>. QED  BY <1>1, <1>6 DEF Current, ViewsAgree

\* A reader or writer is called for the watcher that the poll has seen.
LEMMA CallsOwnWatcher ==
    ASSUME PollerInv, [Next]_vars, CallsBack
    PROVE  watcher[Top.fd] = Top.seen[Top.fd]
<1>1. /\ TypeOK /\ Owned /\ ~InCallback /\ InCallback' /\ Len(frames') = Len(frames)
      /\ frames \in Seq(Frames) /\ frames' # <<>>
  BY DEF PollerInv, CallsBack, InCallback, TypeOK
<1>2. frames # <<>>
  <2>1. frames' \in Seq(Frames)
    BY NextPoller DEF PollerInv, TypeOK
  <2>. QED  BY <1>1, <2>1, EmptySeq
<1>3. frames' # frames /\ ~Calling /\ Top.in = "none"
  BY <1>1, <1>2 DEF InCallback, Top, Calling
<1>4. ~(EndDispatch \/ Raise)
  <2>1. Len(Front(frames)) # Len(frames)
    BY <1>1, <1>2, FrontFrames, TopFrame
  <2>. QED  BY <1>1, <2>1 DEF EndDispatch, Raise
<1>5. ASSUME NEW fd \in Fds, DispatchFd(fd) PROVE FALSE
  <2>. DEFINE events == Top.map[fd] \cap Interest(fd)
              called == {c \in {"reader", "writer"} :
                          events \cap (IF c = "reader" THEN ReadableMask ELSE WritableMask) # {}}
              frame == [Top EXCEPT !.todo = @ \ {fd}, !.fd = fd, !.due = called,
                                   !.object = watcher[fd]]
  <2>1. SetTop(frame)
    BY <1>5 DEF DispatchFd
  <2>2. Top \in Frames /\ watcher[fd] \in 0..MaxObjects
    BY <1>1, <1>2, TopFrame DEF TypeOK
  <2>3. called \in SUBSET {"reader", "writer"}
    OBVIOUS
  <2>. HIDE DEF called
  <2>4. frame \in Frames /\ frame.in = "none"
    BY <1>3, <2>2, <2>3 DEF Frames
  <2>. HIDE DEF frame
  <2>5. Top' = frame
    BY <1>1, <1>2, <2>1, <2>4, TopChanged
  <2>. QED  BY <1>1, <2>4, <2>5 DEF InCallback
<1>6. CallBack
  BY <1>1, <1>2, <1>3, <1>4, <1>5 DEF Next, Activate, Deactivate, Poll, Return, SetReader,
     SetWriter, RemoveReader, RemoveWriter, vars, Calling, InCallback
<1>7. OwnWatcher(Top) /\ Top \in Frames
  BY <1>1, <1>2, TopFrame DEF Owned
<1>8. watcher[Top.fd] = Top.object
  <2>. SUFFICES ASSUME watcher[Top.fd] # Top.object PROVE FALSE
    OBVIOUS
  <2>1. PICK c \in {"reader", "writer"} : SetTop([Top EXCEPT !.due = @ \ {c}, !.in = "none"])
    BY <1>6 DEF CallBack
  <2>2. [Top EXCEPT !.due = @ \ {c}, !.in = "none"] \in Frames
    BY <1>7 DEF Frames
  <2>3. Top' = [Top EXCEPT !.due = @ \ {c}, !.in = "none"]
    BY <1>1, <1>2, <2>1, <2>2, TopChanged
  <2>4. Top'.in = "none"
    BY <1>7, <2>3 DEF Frames
  <2>. QED  BY <1>1, <2>4 DEF InCallback
<1>. QED  BY <1>6, <1>7, <1>8 DEF OwnWatcher, CallBack

\* An event is served for the registration it was reported for, although callbacks
\* of the same dispatch remove, replace and poll again.
THEOREM EventsAreOwn == Spec => EventsOfOwnRegistration
<1>1. PollerInv /\ [Next]_vars => [OwnEvents]_vars
  BY HandlerCalls, CallsOwnWatcher DEF OwnEvents
<1>. QED  BY <1>1, PollerInvariant, PTL DEF Spec, EventsOfOwnRegistration, OwnEvents
=============================================================================
