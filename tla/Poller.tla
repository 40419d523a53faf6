------------------------------- MODULE Poller -------------------------------
(***************************************************************************)
(* select_connection._PollerBase (as PollPoller and EPollPoller complete   *)
(* it) under its client selector_ioloop_adapter.SelectorIOServicesAdapter: *)
(* the registered descriptors, the adapter's watchers, and the dispatch of *)
(* the events of a poll while the callbacks change both, and poll again.   *)
(***************************************************************************)
EXTENDS Integers, Sequences, SequencesExt

CONSTANTS
    Fds,            \* file descriptor numbers; the system uses a number again
    MaxObjects,     \* bound on the watcher objects ever created
    MaxPolls,       \* bound on the polls
    MaxDepth        \* bound on the nesting of poll() in callbacks

ASSUME BoundsAssumption ==
    MaxObjects \in Nat /\ MaxPolls \in Nat /\ MaxDepth \in Nat
\* The loop always watches its own interrupt.
ASSUME FdsAssumption == Fds # {}

Interests == {"READ", "WRITE", "ERROR"}
ReadableMask == {"READ"}
WritableMask == {"WRITE", "ERROR"}
\* poll() reports errors unasked.  (The hang-up bit, that no mask clears, makes a
\* handler call without callbacks and is left out.)
Unasked == {"ERROR"}
NoEvents == [fd \in Fds |-> {}]

VARIABLES
    watcher,        \* _watchers[fd]: the number of the object, 0 when absent
    readers,        \* descriptors whose watcher has a reader
    writers,        \* descriptors whose watcher has a writer
    objects,        \* watcher objects created so far
    handlers,       \* the keys of _fd_handlers
    fdEvents,       \* _fd_events
    active,         \* the polling object exists
    kernel,         \* what the polling object watches
    frames,         \* the calls of _dispatch_fd_events under way
    polls           \* polls so far

adapterVars == <<watcher, readers, writers, objects>>
baseVars == <<handlers, fdEvents, kernel>>
vars == <<adapterVars, baseVars, active, frames, polls>>

\* todo: keys not yet visited; map: fd_event_map; fd, object, due: the handler
\* call under way, its watcher object and the callbacks it may still make;
\* in: the callback that runs; poll, seen: the poll's number and the watchers
\* registered when it returned (for the properties).
Frames == [todo: SUBSET Fds, map: [Fds -> SUBSET Interests],
           fd: Fds, object: 0..MaxObjects, due: SUBSET {"reader", "writer"},
           in: {"reader", "writer", "none"},
           poll: 1..MaxPolls, seen: [Fds -> 0..MaxObjects]]

TypeOK ==
    /\ watcher \in [Fds -> 0..MaxObjects] /\ objects \in 0..MaxObjects
    /\ readers \subseteq Fds /\ writers \subseteq Fds /\ handlers \subseteq Fds
    /\ fdEvents \in [Interests -> SUBSET Fds] /\ active \in BOOLEAN
    /\ kernel \in [Fds -> SUBSET Interests]
    /\ frames \in Seq(Frames) /\ Len(frames) <= MaxDepth
    /\ \A i \in DOMAIN frames : frames[i].due # {} => frames[i].object # 0
    /\ polls \in 0..MaxPolls

Init ==
    /\ watcher = [fd \in Fds |-> 0] /\ readers = {} /\ writers = {} /\ objects = 0
    /\ handlers = {} /\ fdEvents = [e \in Interests |-> {}]
    /\ active = FALSE /\ kernel = NoEvents /\ frames = <<>> /\ polls = 0

Top == Last(frames)
SetTop(frame) == frames' = Front(frames) \o <<frame>>
InCallback == frames # <<>> /\ Top.in # "none"
\* The application runs between polls and in callbacks.
Calling == frames = <<>> \/ InCallback
-----------------------------------------------------------------------------
(* _PollerBase.                                                            *)

Interest(fd) == {e \in Interests : fd \in fdEvents[e]}

SetHandlerEvents(fd, events) ==
    /\ fdEvents' = [e \in Interests |->
            IF e \in events THEN fdEvents[e] \cup {fd} ELSE fdEvents[e] \ {fd}]
    /\ kernel' = IF active THEN [kernel EXCEPT ![fd] = events] ELSE kernel

AddHandler(fd, events) ==
    /\ handlers' = handlers \cup {fd} /\ SetHandlerEvents(fd, events)
    /\ UNCHANGED frames

UpdateHandler(fd, events) ==
    /\ SetHandlerEvents(fd, events) /\ UNCHANGED <<handlers, frames>>

\* The map of an outer dispatch is empty already.
RemoveHandler(fd) ==
    /\ handlers' = handlers \ {fd} /\ SetHandlerEvents(fd, {})
    /\ IF frames = <<>> THEN UNCHANGED frames
       ELSE SetTop([Top EXCEPT !.map[fd] = {}])

Activate ==
    /\ ~active /\ frames = <<>> /\ active' = TRUE
    /\ kernel' = [fd \in Fds |-> Interest(fd)]
    /\ UNCHANGED <<adapterVars, handlers, fdEvents, frames, polls>>

Deactivate ==
    /\ active /\ frames = <<>> /\ active' = FALSE /\ kernel' = NoEvents
    /\ UNCHANGED <<adapterVars, handlers, fdEvents, frames, polls>>

NewFrame(fd, map) ==
    [todo |-> {f \in Fds : map[f] # {}}, map |-> map, fd |-> fd, object |-> 0,
     due |-> {}, in |-> "none", poll |-> polls + 1, seen |-> watcher]

Reports ==
    {map \in [Fds -> SUBSET Interests] : \A fd \in Fds :
        IF kernel[fd] = {} THEN map[fd] = {}
        ELSE map[fd] \subseteq kernel[fd] \cup Unasked}

\* Mutant: the dispatch that a nested poll interrupts goes on afterwards.
PollKeepsOuter ==
    /\ active /\ Calling /\ Len(frames) < MaxDepth /\ polls < MaxPolls
    /\ polls' = polls + 1
    /\ \E map \in Reports, fd \in Fds : frames' = Append(frames, NewFrame(fd, map))
    /\ UNCHANGED <<adapterVars, baseVars, active>>

\* poll() returns events, and _dispatch_fd_events clears the map of the
\* dispatch it is nested in.
Poll ==
    /\ active /\ Calling /\ Len(frames) < MaxDepth /\ polls < MaxPolls
    /\ polls' = polls + 1
    /\ LET outer == IF frames = <<>> THEN <<>>
                    ELSE Front(frames) \o <<[Top EXCEPT !.map = NoEvents]>>
       IN \E map \in Reports : frames' = Append(outer, NewFrame(CHOOSE fd \in Fds : TRUE, map))
    /\ UNCHANGED <<adapterVars, baseVars, active>>

Idle == frames # <<>> /\ Top.in = "none" /\ Top.due = {}

\* One key of fd_event_map: the interests are looked at again.  The handler
\* is the adapter's _on_reader_writer_fd_events.
DispatchFd(fd) ==
    /\ Idle /\ fd \in Top.todo
    /\ LET events == Top.map[fd] \cap Interest(fd)
           due == {c \in {"reader", "writer"} :
                      events \cap (IF c = "reader" THEN ReadableMask ELSE WritableMask) # {}}
       IN SetTop([Top EXCEPT !.todo = @ \ {fd}, !.fd = fd, !.due = due,
                             !.object = watcher[fd]])
    /\ UNCHANGED <<adapterVars, baseVars, active, polls>>

EndDispatch ==
    /\ Idle /\ Top.todo = {} /\ frames' = Front(frames)
    /\ UNCHANGED <<adapterVars, baseVars, active, polls>>
-----------------------------------------------------------------------------
(* SelectorIOServicesAdapter.                                              *)

\* The writer comes first.  A watcher that was removed has neither callback, and
\* one set for the same descriptor since is another object.
CallBack ==
    /\ frames # <<>> /\ Top.in = "none" /\ Top.due # {}
    /\ LET c == IF "writer" \in Top.due THEN "writer" ELSE "reader"
           set == /\ watcher[Top.fd] = Top.object
                  /\ Top.fd \in (IF c = "writer" THEN writers ELSE readers)
       IN SetTop([Top EXCEPT !.due = @ \ {c}, !.in = IF set THEN c ELSE "none"])
    /\ UNCHANGED <<adapterVars, baseVars, active, polls>>

Return ==
    /\ InCallback /\ SetTop([Top EXCEPT !.in = "none"])
    /\ UNCHANGED <<adapterVars, baseVars, active, polls>>

\* The exception leaves poll(); a callback around a nested poll may catch it.
Raise ==
    /\ InCallback /\ frames' = Front(frames)
    /\ UNCHANGED <<adapterVars, baseVars, active, polls>>

NewWatcher(fd) ==
    /\ watcher[fd] = 0 /\ objects < MaxObjects
    /\ objects' = objects + 1 /\ watcher' = [watcher EXCEPT ![fd] = objects + 1]

SetReader(fd) ==
    /\ Calling /\ readers' = readers \cup {fd}
    /\ \/ NewWatcher(fd) /\ AddHandler(fd, ReadableMask)
       \/ /\ watcher[fd] # 0 /\ fd \notin readers
          /\ UpdateHandler(fd, ReadableMask \cup WritableMask)
          /\ UNCHANGED <<watcher, objects>>
    /\ UNCHANGED <<writers, active, polls>>

SetWriter(fd) ==
    /\ Calling /\ writers' = writers \cup {fd}
    /\ \/ NewWatcher(fd) /\ AddHandler(fd, WritableMask)
       \/ /\ watcher[fd] # 0 /\ fd \notin writers
          /\ UpdateHandler(fd, ReadableMask \cup WritableMask)
          /\ UNCHANGED <<watcher, objects>>
    /\ UNCHANGED <<readers, active, polls>>

\* Mutant: the handler of a watcher that goes stays.
DropWatcherOnly(fd) ==
    watcher' = [watcher EXCEPT ![fd] = 0] /\ UNCHANGED <<baseVars, frames>>

DropWatcher(fd) == RemoveHandler(fd) /\ watcher' = [watcher EXCEPT ![fd] = 0]

\* Mutant: the handler goes although a writer is set.
RemoveReaderAndHandler(fd) ==
    /\ Calling /\ fd \in readers /\ readers' = readers \ {fd} /\ RemoveHandler(fd)
    /\ watcher' = IF fd \in writers THEN watcher ELSE [watcher EXCEPT ![fd] = 0]
    /\ UNCHANGED <<writers, objects, active, polls>>

RemoveReader(fd) ==
    /\ Calling /\ fd \in readers /\ readers' = readers \ {fd}
    /\ IF fd \in writers THEN UpdateHandler(fd, WritableMask) /\ UNCHANGED watcher
       ELSE DropWatcher(fd)
    /\ UNCHANGED <<writers, objects, active, polls>>

RemoveWriter(fd) ==
    /\ Calling /\ fd \in writers /\ writers' = writers \ {fd}
    /\ IF fd \in readers THEN UpdateHandler(fd, ReadableMask) /\ UNCHANGED watcher
       ELSE DropWatcher(fd)
    /\ UNCHANGED <<readers, objects, active, polls>>
-----------------------------------------------------------------------------
Next ==
    \/ Activate \/ Deactivate \/ Poll \/ EndDispatch \/ CallBack \/ Return \/ Raise
    \/ \E fd \in Fds : \/ DispatchFd(fd) \/ SetReader(fd) \/ SetWriter(fd)
                       \/ RemoveReader(fd) \/ RemoveWriter(fd)

Spec == Init /\ [][Next]_vars
-----------------------------------------------------------------------------
(* Properties.                                                             *)

\* Events reach the registration they are for, whatever the callbacks of the same
\* dispatch did.  A handler call is for a descriptor that has a handler and a
\* watcher, registered since before the poll (_fd_handlers[fileno] and
\* _watchers[fd] raise no KeyError, and a number that was closed and used again
\* inherits no event), and for an event of the last poll (a nested poll has served
\* those of the poll around it).  A reader or writer runs for its own
\* registration, although the writer of the same event may have replaced it.
CallsHandler == Idle /\ frames' # <<>> /\ Len(frames') = Len(frames) /\ Last(frames').due # {}
CallsBack == InCallback' /\ ~InCallback /\ Len(frames') = Len(frames)
EventsOfOwnRegistration ==
    [][/\ CallsHandler =>
              LET fd == Last(frames').fd
              IN /\ fd \in handlers /\ watcher[fd] # 0 /\ watcher[fd] = Top.seen[fd]
                 /\ Top.poll = polls
       /\ CallsBack => watcher[Top.fd] = Top.seen[Top.fd]]_vars

\* The three views of what is watched agree: the adapter's watchers, the handlers
\* and interests of the poller (the assertions of set_* and remove_*), and what
\* the polling object was told, also when handlers came and went while it was
\* not active.
ViewsAgree ==
    /\ \A fd \in Fds : watcher[fd] # 0 <=> fd \in handlers
    /\ \A fd \in Fds : watcher[fd] # 0 <=> fd \in readers \cup writers
    /\ fdEvents["READ"] = readers
    /\ fdEvents["WRITE"] = writers /\ fdEvents["ERROR"] = writers
    /\ \A fd \in Fds : kernel[fd] = IF active THEN Interest(fd) ELSE {}
=============================================================================
