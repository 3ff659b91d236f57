# QtAgOpenGPS in TLA+

QtAgOpenGPS guides a tractor over a field, turns it at the end of a row, switches
the sections of its implement on and off by GPS, and records the ground they have
worked. These modules model the parts of it where threads, timers, sockets, the
operator and the disk meet, check them with TLC and prove the central ones with
TLAPS.

File and line references are to the repository the modules stand beside.

## The system

| Part | State it keeps | Operations | Talks to |
|---|---|---|---|
| Section control (`formgps_position.cpp`, `formgps.cpp`, `csection.h`, QML buttons) | buttons, requests, valve and mapping timers of each section, bits of PGN 254, 239 and 229 | button clicks, master buttons, one frame per GPS fix, open and close of a field | patch strips (mapping flags), machine module (bits) |
| Patch strips (`formgps_position.cpp`, `cpatches.cpp`) | the strips, their edge sections, the set of mapping sections at the last change | change of status, clearing at the end of a field | section control, applied area |
| Applied area (`cpatches.cpp`, `formgps_saveopen.cpp`, `formgps_ui_field.cpp`) | patches, save list, `Sections.txt` per field | grow, cut off, save in the background, open, close, create, copy, import, delete | strips, disk, the write lock |
| Field files (`formgps_saveopen.cpp`, `formgps_ui_field.cpp`) | tracks, boundaries, headlands, flags, contour strips, tram lines, recorded path; eleven files per field | edit, save, load, create, copy, import, delete | everything that draws or guides |
| GPS fix (`formgps_position.cpp`, `formgps.cpp`, `pgnparser.cpp`, `formgps_sim.cpp`) | last position, raw and corrected fix, points of the heading, the reference point, counters | sentence, frame, tick of the simulator, switch between the two, jump | all of guidance, fields |
| Tracks and lines (`ctrack.cpp`, `cabline.cpp`, `cabcurve.cpp`) | list of tracks, index, cached line of each kind, points being recorded | select, cycle, nudge, snap, delete, record, build | autosteer, pool thread, files |
| U-turn and steering (`cyouturn.cpp`, `formgps_position.cpp`) | phase and path of the turn, row pattern, buttons, status byte of PGN 254, watchdog | draw, trigger, complete, cancel, skip, engage, release | steer module, tracks |
| Headland and lift (`formheadland.cpp`, `formheadache.cpp`, `cheadline.cpp`) | headland, headlines, index, backup, the byte of PGN 239 | two designers, lift button, frame | boundary, files, machine module |
| NTRIP client (`ntripworker.cpp`, `agioservice.cpp`) | running flag, connection state, header flag, attempts, timer, socket, packet buffer | start, stop, reconnect, socket signals, status check | AgIOService (posted commands), caster |
| AgIO network (`agioservice.cpp`, `agioservice_udp.cpp`) | socket, addresses, search, single shots | on, off, error, scan, set the subnet, configure | modules |
| AgIO serial (`serialworker.cpp`, `agioservice.cpp`) | ports, their names and flags, queued calls and signals | open, close, reconnect, error, data | devices, screen |
| Settings, rendering, QML layout | | | everything |

What makes these parts hard:

- **A frame is three steps on two threads.** The fix hands the painting of the
  look-ahead buffer to a pool thread, which posts the rest to the main thread;
  buttons and fields may change in between.
- **State outlives what it belongs to.** Mapping flags, save lists, the packet
  buffer, cached lines, a turn's crossing, a designer's first point: shared by all
  fields, tracks or connections, and reset by some of the operations that should.
- **Delays are counted twice**, for the valve and for the recording, and orders
  that contradict each other arrive while they run.
- **Single shots and signals are late.** They arrive after a stop, or inside the
  call that closes the socket, or after what they were meant for has been replaced.
- **Frames and sentences have different rates**, so that one fix is worked on
  several times.
- **The write lock is not recursive**, and handlers call handlers.

What would make each part correct: a section told to stop stops, at the module and
on the map; ground is recorded once and in its own field; a field that is opened is
the field that was closed; the vehicle is steered by the track that is selected, and
turned to a row not yet worked; a position is of the source in use; the implement is
lifted only where the lift is on; a module that is told its subnet gets it; a stopped
client or socket is silent and a running one never waits for nothing.

## The modules

| Module | Models | Composition |
|---|---|---|
| `Tool` | the sections of the implement | used by section control and strips |
| `SectionSwitch` | the promise made for one section, seen from outside | abstract specification |
| `SectionControl` | buttons, requests, delays, frames, section bits | implements `SectionSwitch` for every section |
| `PatchStrips` | which sections each strip records | |
| `FieldWork` | `SectionControl` and `PatchStrips` in one step per frame and per field | implements both |
| `PatchRecording` | patches, save list, `Sections.txt`, fields | |
| `FieldFiles` | the other files of a field | |
| `Tracks` | the list of tracks and its index | used by the next two |
| `Guidance` | U-turn, engagement, status byte | `Tracks`, `SkipPattern` |
| `SkipPattern` | the row patterns, as functions of a record | |
| `GuidanceLines` | cached lines, background builds, recording of tracks, snap | `Tracks` |
| `GPSFix` | from sentences to the position; simulator | `Sentences` |
| `Sentences` | what the parser makes of each sentence, as functions | |
| `Headland` | both designers, headlines, lift | |
| `NTRIPWorker` | the NTRIP client and its socket | |
| `AgIO` | UDP socket, search, configuration of a module | |
| `SerialPorts` | ports on the worker's thread and what the screen shows | |

`*_proofs` modules hold the theorems of the module they are named after;
`FieldWork_proofs` also those of the two modules it composes. `Communication_proofs`
holds those of `AgIO`, `NTRIPWorker`, `SerialPorts` and `GPSFix`, and `Tracks_proofs`
the lemmas about tracks that `GuidanceLines_proofs` and `Guidance_proofs` share. Modules
that are proved about together have names of their own (`SerialSpec`, `FixSpec`, ...).

### Section control

`section[j]` is a `CSection`. `sectionButtonState`, `autoBtnState`,
`manualBtnState` and `isJobStarted` carry the names of the code. `painting` is a
busy painter, `queued` counts the frames posted to the main thread, `pgn` holds
the sections whose bit is set and `sent` the bits the modules received last.

- `ClickSection`, `ManualOn`, `ManualOff`, `AutoOn` and `AutoOff` are whole click
  handlers, with everything they set off: checking one master button unchecks
  the other, and every write goes through `setSectionButtonState`.
- `UpdateFixPosition`, `PaintDone` and `ProcessFrame` are the three steps of a
  frame. `SectionStep` runs requests, valve timer, mapping timers, in that order.
- `CloseField`, `OpenField` and `SwitchField` are field operations as far as
  section control sees them.

The look-ahead is an input: for each section in Auto the ground is uncovered,
covered (or headland), outside the boundary, or the section is too slow. Every
combination is tried in every frame. One such value per section stands for the
painted buffer, so the properties hold whatever the geometry says.

### Patch strips, and both together

`PatchStrips` takes the set of mapping sections after a frame. With one colour
it goes on with all strips if there are as many zones as drawing strips, fewer
than three, each overlapping its own; otherwise it stops all and starts anew.
With many colours there is one strip per section. `FieldWork` runs it in the same
step as the frame, and clears the strips when a field closes. Neither
`lastNumber` nor the mapping flags are reset there, as in the code.

### Applied area

The area is counted in pairs of triangles; each is tagged with the field it was
recorded in. `TurnMappingOn`, `AddMappingPoint` and `TurnMappingOff` are operators
on a strip. `AfterClose` is what `FileSaveEverythingBeforeClosingField` leaves;
every operation on fields begins with it. `CreateFieldFrom` copies a field's
patches by way of the save list. `CreateFieldFromKML` takes the write lock before
it closes the open field: `isStuck` says that the main thread waits for itself.
`Crash` may happen at any time. `isMultiColoredSections` is chosen once.

### Field files

Everything the user makes (a track, a fence, a flag, a contour strip) is an edit with
a number; `madeIn` says in which field. `job` is what is in memory, `disk[f]` the
files of a field. `FileOpenField` is a function of the files, the memory left
behind and the flags of what to load; it follows the loaders in their order, with
their early returns. `kept` is what a field held when it was last closed, `origins`
the fields whose content it may have by copying. What was read wrong because of how
it was written is kept as a fact of the edit (`hasPoints`), not as text. `Kept` is what
`ReopenRestores` compares: which tracks in which order, which fences, which flags. The
points A and B are no part of it, and every track loses them (see below).

### GPS fix

Places are kilometres along a line, and a position carries its source. A fix carries
how often it was corrected. `onNmeaDataReady`, `OnGPSTimerTimeout` (a frame, through
`UpdateFixPosition`), `OnSimNewPosition` and `TmrWatchdog` are the four callers;
`ResetGPSState` is what the watchdog does when the simulator was switched, and
`HandleGPSJump` what a jump of the simulated position does to the field. All
sentences the parser knows are tried, good and bad, with `Sentences` saying what
comes of each.

### Tracks, lines and turns

`Tracks` keeps the list `gArr` and `idx`, 0 standing for the code's -1, with
`select`, `next`, `prev`, `delete_track`, `setVisible` and the loading of a field's
tracks, which selects the first, as operators.
`GuidanceLines` reduces geometry to whether a cached line is a pass of the present
shape of the track it was built for; `Frame` rebuilds it under the code's conditions.
`unruly` says why a line from before may still be there: the track was cycled to or
turned round, or a field was opened, none of which marks a line invalid; a build ends
it. Closing a field empties the list of a selected curve (`ResetCurveLine`).
A boundary track's line is built by jobs, which begin and end on their own. The
points recorded for a curve are numbered as they were driven; which buttons of which
dialog can be pressed is `dialog`.

`Guidance` is about turns: `yt` is the `CYouTurn` with its phase (0, 1, 2, 10, 11),
path, flags and counter; `path` remembers for which skip and side it was drawn.
`Frame` is `UpdateFixPosition` from the turn to the status byte. `rows` is where the
automatic turns alone have led. Whether a path can be drawn, whether the vehicle is
near the turn or off the line, are inputs. `SkipPattern` is `YouTurnTrigger`'s
counting.

### Headland

A headland is known by the boundary it was made for and the click that made it.
The two designers are `open`; their buttons are enabled by the counts the code
exports to QML, which is why `counts` is state. The first designer runs
`FormHeadLine_FormClosing` as it closes; the second has a slot of that name, which is
connected to nothing, so OK saves its headlines and Off the headland, and neither both.
`left` is the file that was written at the last closing. `lifted` says that the user switched
the lift on in this field. `JobClose` stands for every way a field is closed, a jump
of the position included.

### NTRIP client

Commands are posted to the worker's event loop (`posted`). The worker's flags
carry the code's names. Of `QTcpSocket` the model keeps four states and
`pendingClose`, a disconnect asked for while connecting. The parts marked
external in the map are Qt's: `connectToHost` on a socket in use is an error;
`disconnectFromHost` ends at once, or when the bytes still to be written are gone.
The byte stream is reduced to whether the packet cutter holds the head of a
packet, and of which connection.

### AgIO

`shots` counts the pending single shots of each kind; each is an action. One module
is on the other end: it has a subnet, may be restarting, and its answers to a search
are in `wire`, from where they are delivered or lost in any order. `undisturbed` says
that the last command ran alone and no answer to it was lost. It is assumed that a
shot of two seconds or more fires after the answers on the way have arrived or been
lost, and that a module restarts within three seconds, as the code assumes.

`SerialPorts` has a worker's ports, the calls queued to it and the signals queued
back. Switching AgIO off and on makes another worker beside the first, as in the
code. Ports are opened by the automatic reconnection only: the serial dialog calls
functions that do not exist (`SerialTerminalAgio.qml:456`).

## The runs

| Run | Shows | Bounds | States |
|---|---|---|---|
| `field_work` | a valve told to stop is counting down, and no section has two requests or two timers (`RequestsAreObeyed`); leaving the boundary shuts at once; strips record mapping sections, none twice, and agree with the flags (`RecordsMappingSections`); every section keeps the promise of `SectionSwitch`; a button left On or Off is followed to the end (`ButtonsAreFollowed`) | 2 sections, delays 3, 2 and 3 frames, 1 frame queued | 202,000 |
| `patch_strips` | the mapping sections are recorded all or not at all, none twice, drawing strips first; no patch jumps | 6 sections, every sequence of sets | 6,000 |
| `patch_recording` | the map is the file plus the save list; a file holds its own field's patches | 2 strips, 2 fields, patches of 2 pairs, 6 pairs in a field | 67,000 |
| `field_files` | a field comes back with the tracks, fences and flags it had (not with where the points of a track are); its files hold its own content; contour strips are saved once | 1 old and 1 new field, 6 edits (4 of them in the old field), 3 visits, two choices of what is copied | 1,510,000 |
| `gps_fix` | positions of the mode in use; corrected once; frames begin | 1 place of the receiver, 5 of the simulator, 2 switches, 1 visit, 2 frames of start (20 in the code) | 266,000 |
| `lines` | once a line has been built for the track selected, the line steered by is a pass of it; a recorded curve has its own points | 2 AB lines, 2 curves, 1 boundary track, 2 points, 4 clicks, 2 jobs, curves of more than 1 point (3 in the code) | 2,755,000 |
| `guidance` | rows are worked once; a waiting turn is one of the present pattern | 2 AB lines, 1 curve, widths 2 and 3 (3 is a wide turn), the three patterns, 2 clicks, 6 turns on end, 2 ticks between attempts (4 in the code) | |
| `headland` | the lift is of this field; what a designer saved as it was closed survives | 2 fields, 2 points, 2 boundaries, 2 headlines, 11 clicks | 1,326,000 |
| `ntrip_worker` | the worker does what it was told last; a retry is scheduled or none is left; stopped is quiet; data only after acceptance; off for good ends without a connection | 2 mounts, 5 attempts (the code's value), 3 commands | |
| `agio` | no socket without UDP; a command moves the module | 3 subnets, 2 of them searched, 2 commands | 1,090,000 |
| `serial_ports` | an open port is shown; what is said of a dynamic port is so | a legacy and a dynamic port, 2 devices, 2 workers, 4 events | 1,300,000 |
| `steering_off` | **violation**: with the steering on from the start, the only track is deleted, and the module is told for ever to steer by an angle that no frame computes | 1 AB line, 1 click | |

Why the bounds are enough. Sections touch each other only through the strips and
the master buttons, so two show every interplay of their timers; the delays are at
least 2, so each timer starts, runs, and is interrupted halfway. Six sections give up
to three zones, the number at which the strips give up going on, with zones that
split, join and shift. A patch of two pairs is cut off, set aside and begun again
within the six pairs of a field. Two edits beyond those of the old field are enough
for one to be made in each of two fields, or one beside another of its kind; three
visits close a field, open another and come back. Two switches lead to the simulator
and back, or the other way round, and the simulator's places hold one near its start,
one near the old field and one far from both. Four clicks record a curve and disturb
it, or select, nudge, select again. Six turns on end go through a whole round of each
pattern of width three. Eleven clicks make a headland, save it, close the field and
open it, with both designers. Two commands to a module give one that disturbs
another. A port has two devices, so that frames can be mixed, and four events unplug,
replug and reopen. The proofs depend on none of these numbers.

`CHECK_DEADLOCK FALSE` stands in four configurations. In `FieldFiles` and
`SerialPorts` the bounds on visits and events end a behaviour, and so does a main
thread that waits for itself. In `Guidance` (its two configurations) a program that has
read past the end of a list (`alive`) has no further step.

## Fairness

- `SectionControl`, `FieldWork`: weak fairness of the fix, the painter and the
  posted frame. `timerGPS` fires on a period, the thread pool runs what it is
  given, Qt's event loop runs what is posted. The operator owes nothing.
- `GPSFix`: weak fairness of the three timers (frames, simulator, watchdog), which
  are periodic and, the simulator's apart, never stopped. The receiver owes nothing.
- `NTRIPWorker`: weak fairness of commands, the retry timer, the end of an attempt
  to connect and the end of a close. The caster may be silent for ever.
- `Guidance`, in `steering_off`: weak fairness of frames and the watchdog, which a
  counterexample needs, or the system might simply stop.

The others claim nothing that needs fairness.

## The proofs

Each argument is an inductive invariant (`IInv` where it is more than the property),
checked by TLC first; no constant is given a value. The assumptions are those the
modules name: at least one section, delays that are natural numbers, `Home` among
the subnets searched, `None` no track, and so on. `None` is besides not one of the contents a file can have. `OwnPatches`, `Matches` and
the lemmas they rest on have one hypothesis more, that the last save of a field succeeds.

**`FieldWork_proofs`**, section control: `TypeCorrect`, `Obeyed` (from
`ValvesAreCounting` and `Directions`), `Outside`, `Refinement`. The invariant says of
the buttons, the queue and the bits that they are in range (`ControlsOK`), and of every
section record that its timers are within their settings, that an open valve told to
stop is counting, and that it has one direction (`SectionsOK`). The types are needed on
the way: a timer can be counted down only because it is a natural number, and it stays
within its setting only because the value it is armed with is one. The invariants
concern one section at a time, so the work is in lemmas about the operators on a record.
`CommandOfFacts` is why a button cannot leave a valve open and told to stop: it writes
the valve and both requests together. `RequestsFacts` gives each stage after it
exactly one request; `ValveFacts`, `StartMapTimersFacts` and `RunMapTimersFacts` say
what each stage keeps and changes, and `SectionStepFacts` chains them. `Outside` is a
fact about the operators in every state of the invariant. `Refinement` uses the
invariant before the step and shows that a command, the closing of a field and a frame
are each a step of `SectionSwitch` or none.

The strips: `StripsOnce` and `StripsDoNotJump`, for any sections and any sequence of
sets of mapping sections. First the zones: that the maximal runs of mapping sections,
numbered by how many runs start before them, cover the mapping sections and do not
meet is shown by induction over the sections. A strip may go on drawing because the
strips that draw are always the first ones, so that as many strips as zones means the
strips of the zones; this is the part of the invariant that the code never states.

The two together: `Implements` and `StripsImplemented`, the composition implements
section control and it implements the strips, so that everything above holds of it too
(`FWTypeCorrect`, `FWObeyed`, `FWOutside`, `FWRefinement`, `Records`); and
`StripsFollow`, that `lastNumber` is always the set of mapping sections, although
nothing resets either when a field is closed. `Records` follows from the last two.

**`PatchRecording_proofs`**: `OwnPatches`, for any fields, strips and patches. There is
one save list for all fields; the invariant says that it holds nothing but the open
field's patches. Whoever closes a field has stopped its strips, which puts their last
patches on the list, and has saved, which empties it, before another is opened.
`Matches` compares amounts: what an operation shows more is what it queues or writes.
The shown patches of all strips are summed by a fold; what that sum does when one strip
changes, or when two tables are added, is shown by induction over the finite subsets of
its domain. `TypeCorrect` holds whether the saves succeed or not.

**`FieldFiles_proofs`**: `Own`, `SavedOnce`, `ComesBack`, `TypeCorrect`, from one
invariant. Whose an edit is goes into the types: `Files(K)` and `Jobs(K)` are the files
and the memory that hold no edits but those of `K`, and what is open, or in the files of
a field, is of the edits known there. Every load and every save keeps `K`, one lemma for
each; what is left to say of the actions is what is in memory when no field is open:
boundaries and flags, and nothing of the others (`ClosedIsEmpty`). That no strip is saved
twice needs more. A strip in the save list is in no file (`ListIsNew`), so that the save
every half minute and the one on closing append what is new. `field_new_from` appends a
strip without looking, but to files that cannot have it: the new field has no
`Field.txt`, and the strips of one that has none, left over by a deletion, are in no
other field (`AloneOn`), since nothing can be copied from it. That a field comes back
with the tracks, fences and flags it was closed with (`ComesBack`) is because an open field is not kept, and the files of a kept one stay as the
last save left them (`KeptOn`). Loading filters the tracks by a recursive function;
that it exists is shown by induction over the length of the list.

**`Headland_proofs`**: `Lifted`, `Designs`, `TypeCorrect`. The state of the lift is spread over a
button, a flag and a byte that do not always agree; the property is inductive all the
same, because whatever closes a field puts the byte and the flag off together. For
`Designs` every action either leaves the designers' lines, their copies and the files
alone, or says that it changed the design without saving it, or saves it; a designer
that closes promises the file it wrote then and no other. Of the types,
the index of the headlines is the one that could be wrong: both designers set it, and it
fits the list only while the second is open.

**`Communication_proofs`**, the position: `FixTypeCorrect`, `Own`, `Once`. The state of
a frame is a record that every action changes in its own way. One lemma per operator
says what it keeps of `IsGood` (the ranges; as many points as a first heading needs) and
of `IsFree` (no position is of the other source), and its lemmas are chained in the
order a frame calls them. The invariant is `Modes` (timers and switch), `PositionOK` and `FieldOK`;
that the position is free of the other source is kept only while the watchdog has seen
the last switch. `Once` is a fact about every step from the invariant: the raw fix is
copied before it is corrected, whatever the frame does next.

The network: `TypeCorrect`, `NoSocket`, `CommandArrives`. That a socket is bound
only while UDP runs needs that every shot that binds asks first. `CommandArrives` rests
on where a command can be: it has called the module and nothing else is pending
(`Calling`), waits for the module's answers or has them (`Locating`), is about to
send to everybody (`Summoning`), or the module has kept the subnet (`Moved`). Each is
kept by the searches, the socket and the shots of other kinds that go on meanwhile;
a module that restarts has a shot waiting for it (`RestartIsAwaited`).

The NTRIP client: `NTRIPTypeCorrect`, `Follows`, `Retries`, `NTRIPQuiet`, `Accepted`.
The invariant is a conjunction of `QueueInv`, which says that the last command in the
queue is what was applied last, so that the empty queue leaves the worker agreeing
with it, and `ConnectionInv`, which relates the socket, the pending close, the header
flag and the timer; a step of the queue keeps the one by `NextQueueInv` and every
other action keeps the other by `NextConnectionInv`.

The serial ports: `SerialTypeCorrect`, `DynamicTruth`, `OpenIsShown`. The first two
rest on `Truthful` of every dynamic port of every worker: its flag, its name and its
device change together in each of the worker's functions, since a port is closed as a
whole before another is tried, and what waits in its buffer is of the device it is open
on, since closing empties it. Of the queues they need no more than that their calls and
signals are about ports there are, and that a reopening that is pending was ordered
with a worker. `OpenIsShown` is about what is left when both queues have run empty, so
its invariant (`SInv`) sums a queue up by the state it will leave: the last signal
about a port says whether it is open, the last call that opens one gives the device it
is configured for, and the two agree for every port that is open or going to be. The
lemmas say how the sum changes when an entry joins or leaves a queue.

**`GuidanceLines_proofs`**: `ByTheTrack`, `WholeCurves`, `TypeCorrect`.
`SteersByTheTrack` is about the line a frame used; what has to be kept between frames
is about the line that is there (`SelectedFits`): while it is marked valid it fits the
selected track, or it is known to have been spoilt. So every action that selects,
moves, deletes or loads a track has either to mark the line, to leave the selected
track the one it was (`RemovedFacts`), to leave none selected (`CloseFacts`), or to give
the reason why it spoils the line. Opening a field does the last (`OpenFacts`): it
selects the first track over whatever line is there. `BuildFacts` says what a frame finds or builds, and `AutoSnapFacts`
that the snap after it marks what it moves. For `WholeCurves` the points of a recording
that goes on are always those driven since A.

**`Guidance_proofs`**: `TypeCorrect`, `FollowsPattern`, `WorksOnce`. A turn that waits
was drawn in several frames, so what is kept is about every turn that can still be drawn
on or be triggered (`Fine`): it has no path, or one for the present skip and side of the
pattern. `DrawnFacts` to `BuildFacts` go through every phase of every kind of turn;
every click that gives the pattern another skip or side takes the turn away or is under
way in one (`FreeNext`), and switching the patterns off keeps both.

`WorksOnce` is for every width, and any number of turns and rounds. "Each turn leads to a
new row" is not inductive; its strengthening (`Plan`) is the closed form of the rows
worked so far, counted along the direction of the first turn. They are one or two
stretches without a gap, and where these end follows from the pattern, the round, and the
turns left of it:

| Pattern | About to | Rows worked, with `w` the width |
|---|---|---|
| 0 | go on (`Beyond`) | none further than the present one |
| 1 | take the big skip (`BigNext`) | `0..b+i` and `b+w..b+w+i-1` |
| 1 | take the small skip (`SmallNext`) | `0..b+i` and `b+w..b+w+i` |
| 2 | cross to the far side (`FarNext`) | `0..b+i` and `b+w-i+1..b+w` |
| 2 | come back to the near one (`NearNext`) | `0..b+i` and `b+w-i..b+w` |
| 2 | leave (`LeavesInside`) | `0..b+w` |
| 3, `w = 2h+1` | go on or back in the first round (`FirstOn`, `FirstBack`) | `-i..i` or `-i..i+1` |
| 3, `w = 2h+1` | leave (`LeavesOutside`) | `-h..b+h` |
| 3, `w = 2h+1` | go back or on in a later round (`LaterBack`, `LaterOn`) | `-h..b-h-1` and `b-i..b+i` or `b-i-1..b+i` |

`b` is where the round began (in pattern 3 its middle) and `i` the pairs of turns made in
it. `BigSmallTurn`, `InwardsTurn` and `OutwardsTurn` say what a turn makes of the pattern
and whether it keeps the side, `AtFacts` that the row it leads to is added to the
stretches, and `BigSmallRows`, `InwardsRows`, `OutwardsRows` that this gives the next line
of the table. The number of rows then is the number of turns and one (`CountedFacts`), and
that none is left behind is read off the stretches (`PlanBehind`). For pattern 3 with
an even width there is no such form: it comes back to worked rows.

Some proof attempts failed because the model was wrong, and changed it: deleting a
boundary leaves a designer's copy behind, a case the model had forgotten; a strip's
zone was a `CASE` with two arms that could both apply; headlines with the same A were
kept in order, which `std::sort` does not promise.

What is only model-checked is liveness (`ButtonsAreFollowed`, `StopsForGood`,
`FramesBegin`): the prover knows neither fairness nor `ENABLED`. Every invariant and every
action property that a run checks is the statement of a theorem.

## What does not hold

One run ends in a violation of what the code says of itself. In `steering_off` the
steering is on from the start and the only click deletes the only track
(`ctrack.cpp:1038`, "if we are using the track we are deleting, cancel"; `formgps.cpp:1074`,
"Make sure it is off when it should"): from then on every frame sends the status byte set,
with an angle that no frame computes. More such statements are kept in the modules with
the remark "Does not hold"; making them an invariant of the module's configuration shows
the behaviour.

Section control and applied area:

- `ClosedFieldShutsMachine` (`formgps.cpp:1338`, "turn off all the sections"): the bits
  of the last frame stay in PGN 254 after a field was closed, and go out with every fix.
- `OpenFieldRecordsMapping` (`formgps_saveopen.cpp:898`): neither the mapping flags nor
  `lastNumber` are reset with the field, so that a section may work without a trace
  until the set of mapping sections changes.
- `DrawingStripHasList` (`formgps_ui.cpp:1539`): after the applied area was deleted a
  strip goes on drawing into a null list.
- `MainThreadGoesOn` (`formgps_ui_field.cpp:102`, `394`): making a field from KML with
  another one open takes the write lock twice.
- `OwnPatchesOnly` and `MapMatchesFile` need the last save of a field to succeed
  (`CloseMayFail = FALSE`); nothing empties the list when it fails. Deleting the applied
  area saves the strips set aside before it again.

Field files:

- A damaged `TrackLines.txt` makes `FileLoadTracks` return with the lock held
  (`DamagedTracksAreRead`; the message at `formgps_saveopen.cpp:371` promises
  otherwise).
- `TracksKeepTheirPoints`: `FileSaveTracks` ends the lines of A and B with a comma, and
  `FileLoadTracks` takes all behind the first comma for the northing
  (`formgps_saveopen.cpp:268`, `376`), so that A and B of every track load with northing 0.
- `FileLoadABLines` never sets the northing of
  A; `FileLoadCurveLines` reads a line too many; the count of inner tram lines is
  written without a line end; `ActiveTrackIndex` is ignored.
- A missing headland or headlines file keeps the lines of the field before. Deleting a
  boundary saves nothing, and `Headland.txt` is matched to the boundaries by index. Dialogs left
  open write into the files of the field closed before.
- A field deleted while it is open is written again on closing, without `Field.txt`,
  and a later field of that name takes the files over. A new field made without an
  open one clears nothing; one made from another does not save boundary and headland.

GPS:

- `CorrectionsDoNotAddUp` (`formgps_position.cpp:3055`, "Prevents cascade
  corrections"): they do add up when the heading comes from the receiver.
- `FieldsKeepTheirPlace` (`formgps.cpp:731`): after a switch to the receiver the first
  position becomes the reference of a field opened meanwhile; a field made from another
  records the present position as its start.
- The last known position is updated by jumps only, so that driving or opening a field
  more than a kilometre away in the simulator counts as a jump and closes the field. The
  jump detection of the receiver's positions is never called. Headings and roll that
  modules send (PGN 211, 212, 253) do not reach what guidance uses. A datagram of several
  sentences is parsed as one.

Guidance:

- `WaitingTurnStartsAhead`: along an AB line the crossing found earlier is taken when the
  line driven now has none. A wide turn on a curve reads a list that is always empty.
- `OpeningResetsLines` (`formgps_saveopen.cpp:898`, "close the existing job and reset
  everything"): a field that is opened has its first track selected
  (`formgps_saveopen.cpp:1021`) and no line marked invalid, so that the first frame on the
  same pass steers by the line of the field before.
- `SteersByTheTrack` excepts that, and `next`, `prev` and `swapAB`, all of which leave the
  cached line until the pass changes. It excepts boundary tracks (`OneJobAtATime`,
  `JobsReadTheirTrack`): jobs overlap and keep a reference into the list of tracks.
- `SnapsOntoVehicle` (`formgps_position.cpp:896`): the snap moves by what was measured
  from a contour, a turn, or 32000. `ABLineHasItsEnd`: OK can be pressed before B.
- `RowsOnce` excepts pattern 3 with an even width, which comes back to worked rows. A
  click on the skip in the middle of a pattern starts it from the present, changed width.
  A cancelled turn does not take the pattern back. A triggered turn never ends
  while the contour is on or no track is selected.

Headland:

- `UndoHasBackup`: Undo is enabled by the points of a drawn line and empties the headland.
  `HeadlinesAreSaved`: the second designer's Off saves the headland only
  (`formheadache.cpp:1123`), and headlines deleted or made longer since they were last
  saved come back.
  `LiftOffIsSent`: the lift's QML button and both designers' Off leave the byte.
  `HeadlandFitsBoundary`, `DesignerHasBoundary`, `AIsOfThisBoundary`, `HeadlandOnHasLine`:
  a headland, a designer or its first point is used with a boundary it is not of.

NTRIP and AgIO:

- `AppliedSettingsAreUsed` (`NTrip.qml:244`, `ntripworker.cpp:74`): settings applied
  while the worker runs are dropped. `RoutedPacketsAreWhole` (`ntripworker.cpp:120`): a
  packet begun on one connection is completed with the bytes of the next.
- `SteeringReachesModule` (`agioservice.cpp:913`): a new subnet changes the broadcast
  address only. Hello replies of modules are taken for unknown packets
  (`agioservice_udp.cpp:508`). A module that falls silent stays active in the list of
  protocols (`agioservice.cpp:350`). A failed bind leaves UDP enabled.
- `StoppedHoldsNoPort` (`agioservice.cpp:1820`, "disable all communication workers"): AgIO
  switched off keeps its ports, and switched on again has two workers. The three legacy
  ports keep flag and name when reopening fails. `OpenPortIsShown` is about one worker.

## Not modelled

Floating point and geometry: fix filters, headings, look-ahead, the paths of turns and
lines, tram lines. Rendering, QML layout and the settings store, which keep no state
others depend on beyond constants and inputs of the modules. Unlocked memory: the pool
thread's reading of the patch lists is below the level of these modules. Zones of
several sections on one button, the work and steer switches, a change of the number of
sections while a field is open. Water pivots and tracks given by coordinates. Driving a
recorded path, which the present QML cannot start. Bluetooth, elevation and KML export.
What AgIO only displays: traffic counters, heartbeats, the lists of active protocols.
Code that nothing calls.

## What could follow

1. A composition of `GPSFix` with `FieldFiles`: which reference the files of a field are
   relative to.
2. The work and steer switches with `FieldWork` and `Guidance`.
