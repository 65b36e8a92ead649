---------------------------- MODULE DebugSession ----------------------------
(***************************************************************************)
(* The debugger: pause_before_instruction of crates/ricochet_vm/src/vm.rs, *)
(* and the web session around it (crates/ricochet_cli/src/lib.rs and       *)
(* debug_protocol.rs).                                                     *)
(*                                                                         *)
(* One thread runs the program and, in a pause, takes commands from a      *)
(* channel.  POST /control checks the session's status under a mutex and   *)
(* sends its command afterwards.  GET /events subscribes to a broadcast    *)
(* channel, then reads the latest event, then forwards what it receives.   *)
(*                                                                         *)
(* The program is any sequence of instructions: a line of the frame that   *)
(* is running, of a function that it calls, or of its caller.              *)
(***************************************************************************)
EXTENDS Integers, Sequences, FiniteSets, SequencesExt

CONSTANTS
    Browsers,        \* control requests that may run at the same time
    Viewers,         \* subscribers of /events
    CodeLines,       \* source lines
    BreakLines,      \* the sets of lines that --break may name
    FrameNames,      \* names of functions
    MaxDebugDepth,   \* bound: frames on the stack
    MaxInstructions, \* bound: instructions the program executes
    MaxControls,     \* bound: control requests that are accepted
    EventCapacity,   \* capacity of the broadcast channel (64)
    NotSet           \* Option::None

Resumes == {"step", "next", "out", "continue", "abort"}
Edits == {"add", "remove", "clear", "list"}

(* What a subscriber can be sent: a pause, the end, that it lagged, or     *)
(* what a command did to the breakpoints.                                  *)
DebugEvents ==
    [kind : {"pause", "terminal", "lagged"}, of : Nat]
        \cup [kind : {"breakpoints"}, of : Edits \X (CodeLines \cup {NotSet}) \X SUBSET CodeLines]

ASSUME DebugAssumption ==
    /\ IsFiniteSet(CodeLines) /\ IsFiniteSet(FrameNames) /\ FrameNames # {}
    /\ BreakLines \subseteq SUBSET CodeLines
    /\ {MaxInstructions, MaxControls} \subseteq Nat
    /\ {MaxDebugDepth, EventCapacity} \subseteq Nat \ {0}
    /\ NotSet \notin Int
    /\ NotSet \notin [event : DebugEvents, next : {"waiting", "over"}]

VARIABLES
    vmAt,            \* what the program's thread does
    codeAt,          \* the instruction: its line and the frames on the stack
    stepMode, stepOver, stepOut, \* step_mode, step_over_depth, step_out_depth
    suppressed,      \* suppressed_breakpoint
    breakpoints,     \* lines with a breakpoint
    pauseCount,      \* pauses so far
    paused, completed, pauseId,  \* DebugWebSessionStatus
    commandQueue,    \* the channel of commands
    control,         \* each browser: the accepted command it has yet to send
    latest,          \* latest_event
    events,          \* what was broadcast
    unsent,          \* the event being published, and the step after it
    viewer,          \* each subscriber: step, cursor, last_sent and (history) the
                     \* last pause that it was shown
    executed, controls, \* counters behind the bounds
    asked            \* history: the last resume, and the depth it was given at

stepVars == <<codeAt, stepMode, stepOver, stepOut, suppressed, executed, asked>>
statusVars == <<paused, completed, pauseId>>
publishVars == <<latest, events, unsent>>
requestVars == <<commandQueue, control, controls>>
debugVars == <<vmAt, stepVars, breakpoints, pauseCount, statusVars, publishVars, requestVars, viewer>>

NoViewer == [step |-> "none", cursor |-> 0, last |-> NotSet, saw |-> 0]

(* prepare_debug_ui_run: the lines of --break have breakpoints, and the    *)
(* program is stepped through when asked for or when there are none.       *)
DebugInit ==
    /\ vmAt = "resumed"
    /\ codeAt = [line |-> NotSet, stack |-> << CHOOSE f \in FrameNames : TRUE >>]
    /\ breakpoints \in BreakLines /\ stepMode \in BOOLEAN /\ (breakpoints = {} => stepMode)
    /\ stepOver = NotSet /\ stepOut = NotSet /\ suppressed = NotSet /\ pauseCount = 0
    /\ paused = FALSE /\ completed = FALSE /\ pauseId = 0
    /\ commandQueue = << >> /\ control = [b \in Browsers |-> NotSet]
    /\ latest = NotSet /\ events = << >> /\ unsent = NotSet
    /\ viewer = [v \in Viewers |-> NoViewer]
    /\ executed = 0 /\ controls = 0
    /\ asked = [action |-> IF stepMode THEN "step" ELSE "continue", depth |-> 0]

-----------------------------------------------------------------------------
(* The program's thread *)

Depth(code) == Len(code.stack)
SiteOf(code) == [frame |-> Last(code.stack), line |-> code.line]

Reach(stack) == {stack} \cup {Append(stack, f) : f \in FrameNames}
                        \cup (IF Len(stack) > 1 THEN {Front(stack)} ELSE {})

(* Mutant: step out also stops in the frame that it was asked in.          *)
OutOrBeside(code) == stepOut # NotSet /\ Depth(code) <= stepOut

OutOf(code) == stepOut # NotSet /\ Depth(code) < stepOut

(* pause_before_instruction up to the pause                                *)
ExecuteTo(stack, line) ==
    LET code == [line |-> line, stack |-> stack]
        quiet == IF suppressed = SiteOf(code) THEN suppressed ELSE NotSet
        breakpointHit == line \in breakpoints /\ quiet = NotSet
        overHit == stepOver # NotSet /\ Depth(code) <= stepOver
        outHit == OutOf(code)
    IN /\ vmAt \in {"running", "resumed"} /\ executed < MaxInstructions
       /\ Len(stack) <= MaxDebugDepth
       /\ executed' = executed + 1
       /\ codeAt' = code
       /\ suppressed' = quiet
       /\ stepOver' = IF overHit THEN NotSet ELSE stepOver
       /\ stepOut' = IF outHit THEN NotSet ELSE stepOut
       /\ vmAt' = IF breakpointHit THEN "breakpoint"
                  ELSE IF stepMode \/ overHit \/ outHit THEN "stepped" ELSE "running"
       /\ UNCHANGED <<stepMode, asked, breakpoints, pauseCount, statusVars, publishVars, requestVars, viewer>>

(* publish_debug_web_event: latest_event first, then the broadcast         *)
StartPublish(event, next) == unsent' = [event |-> event, next |-> next]

Pausing == vmAt \in {"breakpoint", "stepped"}

(* The controller is called: the status, then the pause event.  A pause at *)
(* a breakpoint suppresses it whatever the action will be, except abort,   *)
(* after which nothing runs.                                               *)
EnterPause ==
    /\ Pausing
    /\ pauseCount' = pauseCount + 1
    /\ paused' = TRUE /\ completed' = FALSE /\ pauseId' = pauseCount + 1
    /\ suppressed' = IF vmAt = "breakpoint" THEN SiteOf(codeAt) ELSE suppressed
    /\ StartPublish([kind |-> "pause", of |-> pauseCount + 1], "waiting")
    /\ vmAt' = "publishing"
    /\ UNCHANGED <<codeAt, stepMode, stepOver, stepOut, executed, asked, breakpoints,
                   latest, events, requestVars, viewer>>

SetLatest ==
    /\ vmAt = "publishing"
    /\ latest' = unsent.event
    /\ vmAt' = "broadcasting"
    /\ UNCHANGED <<stepVars, breakpoints, pauseCount, statusVars, events, unsent, requestVars, viewer>>

Broadcast ==
    /\ vmAt = "broadcasting"
    /\ events' = Append(events, unsent.event)
    /\ unsent' = NotSet
    /\ vmAt' = unsent.next
    /\ UNCHANGED <<stepVars, breakpoints, pauseCount, statusVars, latest, requestVars, viewer>>

(* apply_debug_control_command on a command that does not resume           *)
Edited(edit) ==
    CASE edit.kind = "add" -> breakpoints \cup {edit.line}
      [] edit.kind = "remove" -> breakpoints \ {edit.line}
      [] edit.kind = "clear" -> {}
      [] edit.kind = "list" -> breakpoints

EditBreakpoints ==
    /\ vmAt = "waiting" /\ commandQueue # << >>
    /\ Head(commandQueue).kind \in Edits
    /\ commandQueue' = Tail(commandQueue)
    /\ breakpoints' = Edited(Head(commandQueue))
    /\ StartPublish([kind |-> "breakpoints",
                     of |-> <<Head(commandQueue).kind, Head(commandQueue).line, breakpoints'>>], "waiting")
    /\ vmAt' = "publishing"
    /\ UNCHANGED <<stepVars, pauseCount, statusVars, latest, events, control, controls, viewer>>

(* What the action makes of the three step targets                         *)
StepTargets(action) ==
    /\ stepMode' = (action = "step")
    /\ stepOver' = IF action = "next" THEN Depth(codeAt) ELSE NotSet
    /\ stepOut' = IF action = "out" THEN Depth(codeAt) ELSE NotSet

(* A command that resumes: the status, then the rest of                    *)
(* pause_before_instruction                                                *)
ResumeProgram ==
    /\ vmAt = "waiting" /\ commandQueue # << >>
    /\ Head(commandQueue).kind \in Resumes
    /\ commandQueue' = Tail(commandQueue)
    /\ paused' = FALSE
    /\ IF Head(commandQueue).kind = "abort"
       THEN vmAt' = "ended" /\ UNCHANGED <<stepMode, stepOver, stepOut, asked>>
       ELSE /\ vmAt' = "resumed"
            /\ StepTargets(Head(commandQueue).kind)
            /\ asked' = [action |-> Head(commandQueue).kind, depth |-> Depth(codeAt)]
    /\ UNCHANGED <<codeAt, suppressed, executed, breakpoints, pauseCount, completed, pauseId,
                   publishVars, control, controls, viewer>>

(* The program ends or faults.                                             *)
ProgramEnds ==
    /\ vmAt \in {"running", "resumed"}
    /\ vmAt' = "ended"
    /\ UNCHANGED <<stepVars, breakpoints, pauseCount, statusVars, publishVars, requestVars, viewer>>

(* mark_debug_web_session_completed, then the last event                   *)
CompleteSession ==
    /\ vmAt = "ended"
    /\ paused' = FALSE /\ completed' = TRUE
    /\ StartPublish([kind |-> "terminal", of |-> pauseCount], "over")
    /\ vmAt' = "publishing"
    /\ UNCHANGED <<stepVars, breakpoints, pauseCount, pauseId, latest, events, requestVars, viewer>>

-----------------------------------------------------------------------------
(* debug_web_control *)

(* Mutant: an accepted resume leaves the session paused.                   *)
StaysPaused(kind) == paused

PausedAfter(kind) == IF kind \in Resumes THEN FALSE ELSE paused

(* With the status mutex held.  A refused request changes nothing.         *)
AcceptControl(b, kind, line, given) ==
    /\ control[b] = NotSet /\ controls < MaxControls
    /\ ~completed /\ paused /\ given \in {NotSet, pauseId}
    /\ controls' = controls + 1
    /\ paused' = PausedAfter(kind)
    /\ control' = [control EXCEPT ![b] = [kind |-> kind, line |-> line, at |-> pauseId]]
    /\ UNCHANGED <<vmAt, stepVars, breakpoints, pauseCount, completed, pauseId, publishVars,
                   commandQueue, viewer>>

SendCommand(b) ==
    /\ control[b] # NotSet
    /\ commandQueue' = Append(commandQueue, control[b])
    /\ control' = [control EXCEPT ![b] = NotSet]
    /\ UNCHANGED <<vmAt, stepVars, breakpoints, pauseCount, statusVars, publishVars, controls, viewer>>

-----------------------------------------------------------------------------
(* debug_web_events and forward_debug_web_sse_events *)

Terminal(event) == event.kind = "terminal"

Subscribe(v) ==
    /\ viewer[v].step = "none"
    /\ viewer' = [viewer EXCEPT ![v] = [NoViewer EXCEPT !.step = "subscribed", !.cursor = Len(events)]]
    /\ UNCHANGED <<vmAt, stepVars, breakpoints, pauseCount, statusVars, publishVars, requestVars>>

(* The event goes to the viewer; a terminal one ends the stream.           *)
Shown(v, event, cursor) ==
    [step |-> IF Terminal(event) THEN "closed" ELSE "following", cursor |-> cursor, last |-> event,
     saw |-> IF event.kind = "pause" THEN event.of ELSE viewer[v].saw]

ReadLatest(v) ==
    /\ viewer[v].step = "subscribed"
    /\ viewer' = [viewer EXCEPT ![v] =
                     IF latest = NotSet THEN [viewer[v] EXCEPT !.step = "following"]
                     ELSE Shown(v, latest, viewer[v].cursor)]
    /\ UNCHANGED <<vmAt, stepVars, breakpoints, pauseCount, statusVars, publishVars, requestVars>>

Lagging(v) == Len(events) - viewer[v].cursor > EventCapacity

AlreadyShown(v, event) == event = viewer[v].last

Forward(v) ==
    LET i == viewer[v].cursor + 1 IN
    /\ viewer[v].step = "following" /\ i <= Len(events) /\ ~Lagging(v)
    /\ viewer' = [viewer EXCEPT ![v] =
                     IF AlreadyShown(v, events[i]) THEN [viewer[v] EXCEPT !.cursor = i]
                     ELSE Shown(v, events[i], i)]
    /\ UNCHANGED <<vmAt, stepVars, breakpoints, pauseCount, statusVars, publishVars, requestVars>>

(* RecvError::Lagged: the receiver goes on with the oldest event kept.     *)
ForwardLagged(v) ==
    /\ viewer[v].step = "following" /\ Lagging(v)
    /\ viewer' = [viewer EXCEPT ![v] =
                     Shown(v, [kind |-> "lagged", of |-> 0], Len(events) - EventCapacity)]
    /\ UNCHANGED <<vmAt, stepVars, breakpoints, pauseCount, statusVars, publishVars, requestVars>>

-----------------------------------------------------------------------------
DebugNext ==
    \/ \E stack \in Reach(codeAt.stack), line \in CodeLines : ExecuteTo(stack, line)
    \/ EnterPause \/ SetLatest \/ Broadcast \/ EditBreakpoints \/ ResumeProgram
    \/ ProgramEnds \/ CompleteSession
    \/ \E b \in Browsers :
          \/ \E given \in {NotSet} \cup 1 .. MaxInstructions :
                \/ \E kind \in Resumes \cup {"clear", "list"} : AcceptControl(b, kind, NotSet, given)
                \/ \E kind \in {"add", "remove"}, line \in CodeLines : AcceptControl(b, kind, line, given)
          \/ SendCommand(b)
    \/ \E v \in Viewers : Subscribe(v) \/ ReadLatest(v) \/ Forward(v) \/ ForwardLagged(v)

DebugSpec == DebugInit /\ [][DebugNext]_debugVars

-----------------------------------------------------------------------------
(* Every variable has its type.                                            *)
DebugTypeOK ==
    /\ vmAt \in {"running", "resumed", "breakpoint", "stepped", "publishing", "broadcasting",
                 "waiting", "ended", "over"}
    /\ codeAt.line \in CodeLines \cup {NotSet} /\ Depth(codeAt) \in 1 .. MaxDebugDepth
    /\ {stepMode, paused, completed} \subseteq BOOLEAN
    /\ {stepOver, stepOut} \subseteq {NotSet} \cup 1 .. MaxDebugDepth
    /\ breakpoints \subseteq CodeLines
    /\ pauseCount \in 0 .. executed /\ pauseId \in 0 .. executed
    /\ (vmAt \in {"publishing", "broadcasting"}) = (unsent # NotSet)
    /\ \A v \in Viewers :
          /\ viewer[v].step \in {"none", "subscribed", "following", "closed"}
          /\ viewer[v].cursor \in 0 .. Len(events)
    /\ executed \in 0 .. MaxInstructions /\ controls \in 0 .. MaxControls

(* Does the last resume make the program stop at this instruction?         *)
Due ==
    \/ asked.action = "step"
    \/ asked.action = "next" /\ Depth(codeAt) <= asked.depth
    \/ asked.action = "out" /\ Depth(codeAt) < asked.depth

(* The program pauses where the last resume asked for it, however calls,   *)
(* returns, breakpoints and earlier resumes alternate: never at another    *)
(* instruction without a breakpoint, and it runs past no instruction it    *)
(* should stop at.                                                         *)
PausesWhereAsked ==
    /\ vmAt = "running" => ~Due
    /\ vmAt = "stepped" => Due
    /\ vmAt = "breakpoint" => codeAt.line \in breakpoints

(* Two browsers cannot resume one pause twice: at most one resume is on    *)
(* its way, it was accepted in the pause the program is in, and while it   *)
(* is on its way no other is accepted.                                     *)
ResumesMatchPauses ==
    LET inFlight == {b \in Browsers : control[b] # NotSet /\ control[b].kind \in Resumes}
        sent == {i \in DOMAIN commandQueue : commandQueue[i].kind \in Resumes}
    IN /\ Cardinality(inFlight) + Cardinality(sent) <= 1
       /\ \A b \in inFlight : control[b].at = pauseCount
       /\ \A i \in sent : commandQueue[i].at = pauseCount
       /\ inFlight # {} \/ sent # {} \/ completed => ~paused
       /\ inFlight # {} \/ sent # {} \/ paused => vmAt \in {"publishing", "broadcasting", "waiting"}

(* A subscriber that received everything shows the latest event, wherever  *)
(* its subscription fell between the two halves of publish, and also when  *)
(* it lagged.                                                              *)
ViewersCurrent ==
    \A v \in Viewers :
        viewer[v].step = "following" /\ viewer[v].cursor = Len(events) /\ unsent = NotSet
            => viewer[v].last = latest

(* The program, its resumes and the pages agree: it pauses where the last  *)
(* resume asked, a resume is for the pause it was given in, and the pages  *)
(* show the latest event.                                                  *)
DebugSessionCoherent == PausesWhereAsked /\ ResumesMatchPauses /\ ViewersCurrent

(* docs/debugger-integrations.html: /events "replays the latest pause to   *)
(* late subscribers": a page that opens while the session is paused is     *)
(* shown that pause.                                                       *)
LateViewersSeePause ==
    \A v \in Viewers :
        viewer[v].step = "following" /\ paused /\ vmAt = "waiting" /\ viewer[v].cursor = Len(events)
            => viewer[v].saw = pauseCount

=============================================================================
