-------------------------- MODULE QuickJSDebugger --------------------------
(***************************************************************************)
(* The in-thread debugger of the QuickJS engine: quickjs-debugger.c, the   *)
(* hooks in quickjs.c that call it, and the socket to the client.          *)
(*                                                                         *)
(* The script thread runs js_debugger_check before every opcode, blocks in *)
(* js_process_debugger_messages while it is paused, and otherwise peeks at *)
(* the socket every now and then.  The client sends whenever it likes and  *)
(* may vanish.  Code is abstracted to regions: a function is the sequence  *)
(* of lines its pc2line table lists, and a frame stands at one of them.    *)
(*                                                                         *)
(* Gaps: one function per file; Java attaches while no script runs, as the *)
(* README shows; the environment variables that attach by themselves are   *)
(* unset; what an inspection computes, and the events for new and freed    *)
(* contexts, are left out; nothing is sent in pieces.                      *)
(***************************************************************************)
EXTENDS Naturals, Sequences

CONSTANTS
    Lines,        \* per file, the lines of its function's pc2line table in order
    Paths,        \* files the client sets breakpoints in, loaded or not
    LineSets,     \* sets of lines a client puts breakpoints on
    Openings,     \* what a client may have written before it is accepted
    Kinds,        \* kinds of message the client sends
    PeekEvery,    \* checks between two peeks at the socket (10000)
    MaxDepth,     \* bound: frames on the stack
    MaxSends,     \* bound: messages clients send after they have connected
    MaxSessions   \* bound: attachments

Files == DOMAIN Lines
Resumes == {"continue", "next", "stepIn", "stepOut"}
Messages ==
    [kind : (Resumes \cup {"bareContinue", "pause"}) \cap Kinds]
    \cup [kind : {"breakpoints"} \cap Kinds, file : Paths, lines : LineSets]
    \cup [kind : {"stopOnException"} \cap Kinds, on : BOOLEAN]
    \cup [kind : {"inspect"} \cap Kinds, frame : 0 .. MaxDepth - 1, late : BOOLEAN]

ASSUME DebuggerAssumption ==
    /\ Files \subseteq Paths
    /\ \A f \in Files : Lines[f] \in Seq(Nat \ {0}) /\ Lines[f] # <<>>
    /\ Openings \subseteq Seq(Messages)
    /\ \A o \in Openings : \A i \in 1 .. Len(o) : o[i].kind # "inspect"
    /\ \A s \in LineSets : s \subseteq Nat \ {0}
    /\ {PeekEvery, MaxDepth, MaxSends, MaxSessions} \subseteq Nat \ {0}

VARIABLES
    info,     \* rt->debugger_info
    cache,    \* per function, JSDebuggerFunctionInfo
    pc,       \* where the script's thread is
    caller,   \* who called js_process_debugger_messages
    stack,    \* rt->current_stack_frame, innermost first
    inbox,    \* messages on their way from the client
    lost,     \* the client is gone
    sent,     \* messages sent so far
    session,  \* attachments so far
    told,     \* "running", or the reason of the last stop the client was told of
    left,     \* the frame that was last resumed has been left
    fault     \* what brought the process down

vars == <<info, cache, pc, caller, stack, inbox, lost, sent, session, told, left, fault>>
scriptVars == <<stack, left>>
wireVars == <<inbox, lost, sent, session>>

LineAt(frame) == Lines[frame.file][frame.at]

NoLocation == [file |-> "none", line |-> 0]
Depth == Len(stack)
Location == IF stack = <<>> THEN NoLocation
            ELSE [file |-> Head(stack).file, line |-> LineAt(Head(stack))]

Init ==
    /\ info = [transport |-> FALSE, paused |-> FALSE, stepping |-> "no",
               stepOver |-> NoLocation, stepDepth |-> 0, onException |-> FALSE,
               dirty |-> 0, breakpoints |-> [p \in Paths |-> [dirty |-> 0, lines |-> {}]],
               buffer |-> FALSE, bufferLength |-> 0, ticks |-> 0, shouldPeek |-> FALSE]
    /\ cache = [f \in Files |-> [dirty |-> 0, marked |-> {}, lastLine |-> 0]]
    /\ pc = "idle" /\ caller = "none" /\ stack = <<>>
    /\ inbox = <<>> /\ lost = FALSE /\ sent = 0 /\ session = 0
    /\ told = "running" /\ left = TRUE /\ fault = "none"

Abort(why) ==
    /\ fault' = why
    /\ pc' = "aborted"

\* js_debugger_free.  The length of the buffer, stepping, is_paused and
\* exception_breakpoint stay as they are.
Freed(i) ==
    IF i.transport
    THEN [i EXCEPT !.transport = FALSE, !.buffer = FALSE,
                   !.breakpoints = [p \in Paths |-> [dirty |-> 0, lines |-> {}]]]
    ELSE i

\* js_send_stopped_event and the wait for messages that follows it.
StopFor(reason, by) ==
    /\ told' = reason
    /\ pc' = "messages"
    /\ caller' = by

------------------------------------------------------------------------------
(* The client and Java.                                                    *)

\* The client writes a message.  It inspects a frame it was told of;
\* `late` records that it had already asked to resume.
Send(m) ==
    /\ info.transport /\ ~lost /\ pc # "aborted"
    /\ sent < MaxSends
    /\ m.kind = "inspect" =>
         /\ pc = "messages" /\ m.frame < Depth
         /\ m.late = \E i \in DOMAIN inbox :
                        inbox[i].kind \in Resumes \cup {"bareContinue"}
    /\ inbox' = Append(inbox, m)
    /\ sent' = sent + 1
    /\ UNCHANGED <<info, cache, pc, caller, scriptVars, lost, session, told, fault>>

\* The client exits or the connection breaks; what was written can still be read.
LoseClient ==
    /\ info.transport /\ ~lost /\ pc # "aborted"
    /\ lost' = TRUE
    /\ UNCHANGED <<info, cache, pc, caller, scriptVars, inbox, sent, session, told, fault>>

\* waitForDebugger: accept, then js_debugger_attach.  The client may already have
\* written what it starts with.
Attach ==
    /\ pc = "idle"
    /\ session < MaxSessions
    /\ session' = session + 1
    /\ info' = [Freed(info) EXCEPT !.transport = TRUE, !.paused = TRUE]
    /\ inbox' \in Openings
    /\ lost' = FALSE
    /\ StopFor("entry", "attach")
    /\ UNCHANGED <<cache, scriptVars, sent, fault>>

\* cooperateDebugger, between evaluations or from a callback.
Cooperate ==
    /\ pc \in {"idle", "exec"}
    /\ info' = [info EXCEPT !.shouldPeek = TRUE]
    /\ UNCHANGED <<cache, pc, caller, scriptVars, wireVars, told, fault>>

------------------------------------------------------------------------------
(* The script.                                                             *)

\* A frame is pushed, by Java's evaluate or by a call.  Its first check reads a pc
\* that is not yet set: any position, the last one for an address outside of the
\* bytecode (find_line_num answers the last line, no breakpoint is found).
Call ==
    /\ pc \in {"idle", "exec"}
    /\ Depth < MaxDepth
    /\ \E f \in Files : \E i \in 1 .. Len(Lines[f]) :
          stack' = <<[file |-> f, at |-> i]>> \o stack
    /\ pc' = "check"
    /\ UNCHANGED <<info, cache, caller, wireVars, told, left, fault>>

\* An opcode runs; the next one is in the same region or in any other.
RunOpcode ==
    /\ pc = "exec"
    /\ \E i \in 1 .. Len(Lines[Head(stack).file]) : stack' = [stack EXCEPT ![1].at = i]
    /\ pc' = "check"
    /\ UNCHANGED <<info, cache, caller, wireVars, told, left, fault>>

\* The frame returned to, or where an exception is caught, goes on with an opcode in the
\* same region or in any other.
PopTo(s) ==
    /\ IF s = <<>> THEN stack' = s
       ELSE \E i \in 1 .. Len(Lines[s[1].file]) : stack' = [s EXCEPT ![1].at = i]
    /\ left' = (left \/ Len(s) < info.stepDepth)
    /\ pc' = IF s = <<>> THEN "idle" ELSE "check"

Return ==
    /\ pc = "exec"
    /\ PopTo(Tail(stack))
    /\ UNCHANGED <<info, cache, caller, wireVars, told, fault>>

\* Mutant: js_debugger_exception does not pause.
ThrowRunning ==
    /\ pc = "exec"
    /\ IF ~info.onException
       THEN pc' = "unwind" /\ UNCHANGED <<info, caller, told, fault>>
       ELSE IF ~info.transport
       THEN Abort("context") /\ UNCHANGED <<info, caller, told>>
       ELSE StopFor("exception", "exception") /\ UNCHANGED <<info, fault>>
    /\ UNCHANGED <<cache, scriptVars, wireVars>>

\* JS_Throw, with js_debugger_exception: the stopped event is built with
\* debugging_ctx, which is NULL once the debugger is gone.
Throw ==
    /\ pc = "exec"
    /\ IF ~info.onException
       THEN pc' = "unwind" /\ UNCHANGED <<info, caller, told, fault>>
       ELSE IF ~info.transport
       THEN Abort("context") /\ UNCHANGED <<info, caller, told>>
       ELSE /\ StopFor("exception", "exception")
            /\ info' = [info EXCEPT !.paused = TRUE]
            /\ UNCHANGED fault
    /\ UNCHANGED <<cache, scriptVars, wireVars>>

\* The exception is caught in some frame, or in Java.
Unwind ==
    /\ pc = "unwind"
    /\ \E n \in 1 .. Depth + 1 : PopTo(SubSeq(stack, n, Depth))
    /\ UNCHANGED <<info, cache, caller, wireVars, told, fault>>

------------------------------------------------------------------------------
(* js_debugger_check.                                                      *)

\* The positions a scan of the table marks for breakpoints on the given lines:
\* per line the last region before the table first passes it, if that region is
\* on the line.  A line beyond a known last line is not looked for.
Marked(f, lines) ==
    {i \in 1 .. Len(Lines[f]) - 1 :
        /\ Lines[f][i] \in lines
        /\ Lines[f][i + 1] > Lines[f][i]
        /\ \A j \in 1 .. i : Lines[f][j] <= Lines[f][i]}

Rescanned(f) ==
    LET c == cache[f]
        lines == {b \in info.breakpoints[f].lines : c.lastLine = 0 \/ b <= c.lastLine}
        n == Len(Lines[f])
        \* some scan reached the end of the table
        ended == \E b \in lines : \A j \in 1 .. n - 1 : Lines[f][j] <= b
    IN [dirty |-> info.dirty,
        marked |-> Marked(f, lines),
        lastLine |-> IF ended THEN Lines[f][n] ELSE c.lastLine]

\* Mutant: the file's own counter is compared with the new value of the function's.
RefreshedLate(f) ==
    IF \/ info.breakpoints[f].dirty = 0
       \/ info.breakpoints[f].dirty # info.dirty
    THEN [cache[f] EXCEPT !.dirty = info.dirty]
    ELSE Rescanned(f)

\* js_debugger_check_breakpoint: the function's marks, brought up to date.  A file
\* nothing was said about has no counter (0 here; the first is 1).
Refreshed(f) ==
    IF cache[f].dirty = info.dirty
    THEN cache[f]
    ELSE IF info.breakpoints[f].dirty \in {0, cache[f].dirty}
    THEN [cache[f] EXCEPT !.dirty = info.dirty]
    ELSE Rescanned(f)

AtStep == info.stepping # "no" /\ info.stepDepth = Depth /\ info.stepOver = Location

\* Mutant: stepOut stops in the frame it is to leave.
VerdictInFrame ==
    IF AtStep THEN "skip"
    ELSE IF Head(stack).at \in Refreshed(Head(stack).file).marked THEN "breakpoint"
    ELSE CASE info.stepping = "stepIn" -> "stepIn"
           [] info.stepping = "stepOut" -> IF Depth > info.stepDepth THEN "pass" ELSE "stepOut"
           [] info.stepping = "next" ->
                IF Location = info.stepOver \/ Depth > info.stepDepth THEN "pass" ELSE "step"
           [] OTHER -> "go"

\* What a check decides.  skip: still at the place that was resumed; pass: a step
\* goes on; go: no step is under way, and the socket is next.
Verdict ==
    IF AtStep THEN "skip"
    ELSE IF Head(stack).at \in Refreshed(Head(stack).file).marked THEN "breakpoint"
    ELSE CASE info.stepping = "stepIn" -> "stepIn"
           [] info.stepping = "stepOut" -> IF Depth >= info.stepDepth THEN "pass" ELSE "stepOut"
           [] info.stepping = "next" ->
                IF Location = info.stepOver \/ Depth > info.stepDepth THEN "pass" ELSE "step"
           [] OTHER -> "go"

Checking == pc = "check" /\ info.transport

Refresh == cache' = [cache EXCEPT ![Head(stack).file] = Refreshed(Head(stack).file)]

CheckDisconnected ==
    /\ pc = "check" /\ ~info.transport
    /\ pc' = "exec"
    /\ UNCHANGED <<info, cache, caller, scriptVars, wireVars, told, fault>>

CheckSkips ==
    /\ Checking /\ Verdict = "skip"
    /\ pc' = "exec"
    /\ UNCHANGED <<info, cache, caller, scriptVars, wireVars, told, fault>>

CheckPasses ==
    /\ Checking /\ Verdict = "pass"
    /\ Refresh
    /\ pc' = "exec"
    /\ UNCHANGED <<info, caller, scriptVars, wireVars, told, fault>>

CheckStops ==
    /\ Checking /\ Verdict \in {"breakpoint", "step", "stepIn", "stepOut"}
    /\ Refresh
    /\ info' = [info EXCEPT !.stepping = "no", !.paused = TRUE]
    /\ StopFor(Verdict, "check")
    /\ UNCHANGED <<scriptVars, wireVars, fault>>

\* Mutant: ticks are not counted.
CheckGoesOn ==
    /\ Checking /\ Verdict = "go"
    /\ Refresh
    /\ LET go == [info EXCEPT !.stepping = "no"]
       IN IF info.paused
          THEN info' = go /\ pc' = "messages" /\ caller' = "check"
          ELSE IF ~info.shouldPeek
          THEN info' = go /\ pc' = "exec" /\ UNCHANGED caller
          ELSE info' = [go EXCEPT !.shouldPeek = FALSE]
               /\ pc' = "peek" /\ UNCHANGED caller
    /\ UNCHANGED <<scriptVars, wireVars, told, fault>>

\* Mutant: the counter is compared after it is incremented past its limit.
CheckGoesLate ==
    /\ Checking /\ Verdict = "go" /\ ~info.paused
    /\ Refresh
    /\ info' = [info EXCEPT !.stepping = "no", !.ticks = IF @ > PeekEvery THEN 0 ELSE @ + 1]
    /\ pc' = IF info.ticks > PeekEvery THEN "peek" ELSE "exec"
    /\ UNCHANGED <<caller, scriptVars, wireVars, told, fault>>

\* No stop: a pause left by a failed exchange is taken up again, else the socket
\* is looked at every PeekEvery checks or when Java asked for it.
CheckGoes ==
    /\ Checking /\ Verdict = "go"
    /\ Refresh
    /\ LET go == [info EXCEPT !.stepping = "no"]
       IN IF info.paused
          THEN info' = go /\ pc' = "messages" /\ caller' = "check"
          ELSE IF info.ticks < PeekEvery /\ ~info.shouldPeek
          THEN info' = [go EXCEPT !.ticks = @ + 1] /\ pc' = "exec" /\ UNCHANGED caller
          ELSE info' = [go EXCEPT !.ticks = 0, !.shouldPeek = FALSE]
               /\ pc' = "peek" /\ UNCHANGED caller
    /\ UNCHANGED <<scriptVars, wireVars, told, fault>>

\* transport_peek: poll answers 1 for data and for a hang-up.
Peek ==
    /\ pc = "peek"
    /\ IF inbox = <<>> /\ ~lost THEN pc' = "exec" /\ UNCHANGED caller
       ELSE pc' = "messages" /\ caller' = "peek"
    /\ UNCHANGED <<info, cache, scriptVars, wireVars, told, fault>>

------------------------------------------------------------------------------
(* js_process_debugger_messages.                                           *)

\* Where its callers go on, when it succeeds and when it fails.
Resumed == CASE caller = "attach" -> "idle"
             [] caller = "exception" -> "unwind"
             [] caller = "peek" -> "peek"
             [] caller = "check" -> "exec"

\* Mutant: a failed exchange is tried again.
FailRetrying(i, rest) ==
    /\ info' = i
    /\ inbox' = rest
    /\ UNCHANGED pc

\* Reading fails.  js_debugger_attach and js_debugger_exception ignore it,
\* js_debugger_check frees the debugger.
Fail(i, rest) ==
    /\ IF caller \in {"attach", "exception"}
       THEN info' = i /\ inbox' = rest /\ pc' = Resumed
       ELSE info' = Freed(i) /\ inbox' = <<>> /\ pc' = "exec"

\* js_transport_read_fully at the end of the stream.
ReadEnd ==
    /\ pc = "messages" /\ inbox = <<>> /\ lost
    /\ Fail(info, <<>>)
    /\ UNCHANGED <<cache, caller, scriptVars, lost, sent, session, told, fault>>

\* Breakpoints come in longer messages than anything else.
Length(m) == IF m.kind = "breakpoints" THEN 2 ELSE 1

\* Mutant: a buffer that is too short is freed and not allocated again.
BufferedOnce(m) ==
    IF Length(m) > info.bufferLength
    THEN [info EXCEPT !.buffer = ~@, !.bufferLength = Length(m)]
    ELSE info

\* The message's length is read and the buffer grown if it is too short.
Buffered(m) ==
    IF Length(m) > info.bufferLength
    THEN [info EXCEPT !.buffer = TRUE, !.bufferLength = Length(m)]
    ELSE info

\* Reading into a null buffer fails with the body still on the wire.
ReadNoBuffer ==
    /\ pc = "messages" /\ inbox # <<>> /\ Head(inbox).kind # "body"
    /\ ~Buffered(Head(inbox)).buffer
    /\ Fail(info, <<[kind |-> "body"]>> \o Tail(inbox))
    /\ UNCHANGED <<cache, caller, scriptVars, lost, sent, session, told, fault>>

\* A body is taken for a length: strtol answers 0 and the assertion fails.
ReadBody ==
    /\ pc = "messages" /\ inbox # <<>> /\ Head(inbox).kind = "body"
    /\ Abort("length")
    /\ UNCHANGED <<info, cache, caller, scriptVars, wireVars, told>>

\* A whole message is in the buffer.
Reading(m) ==
    /\ pc = "messages" /\ inbox # <<>>
    /\ m = Head(inbox) /\ m.kind # "body"
    /\ Buffered(m).buffer
    /\ inbox' = Tail(inbox)

\* Another round while paused.
Processed(i) ==
    /\ info' = i
    /\ pc' = IF i.paused THEN "messages" ELSE Resumed

\* continue, next, stepIn, stepOut; the bare continue sets no step and is not
\* answered.
Resume(m) ==
    /\ Reading(m) /\ m.kind \in Resumes \cup {"bareContinue"}
    /\ Processed(IF m.kind = "bareContinue" THEN [Buffered(m) EXCEPT !.paused = FALSE]
                 ELSE [Buffered(m) EXCEPT !.stepping = m.kind, !.stepOver = Location,
                                          !.stepDepth = Depth, !.paused = FALSE])
    /\ left' = IF m.kind = "bareContinue" THEN left ELSE FALSE
    /\ told' = "running"
    /\ UNCHANGED <<cache, caller, stack, lost, sent, session, fault>>

Pause(m) ==
    /\ Reading(m) /\ m.kind = "pause"
    /\ Processed([Buffered(m) EXCEPT !.paused = TRUE])
    /\ told' = "pause"
    /\ UNCHANGED <<cache, caller, scriptVars, lost, sent, session, fault>>

\* js_process_breakpoints: the file's table is replaced.
SetBreakpoints(m) ==
    /\ Reading(m) /\ m.kind = "breakpoints"
    /\ Processed([Buffered(m) EXCEPT
                    !.dirty = @ + 1,
                    !.breakpoints[m.file] = [dirty |-> info.dirty + 1, lines |-> m.lines]])
    /\ UNCHANGED <<cache, caller, scriptVars, lost, sent, session, told, fault>>

StopOnException(m) ==
    /\ Reading(m) /\ m.kind = "stopOnException"
    /\ Processed([Buffered(m) EXCEPT !.onException = m.on])
    /\ UNCHANGED <<cache, caller, scriptVars, lost, sent, session, told, fault>>

\* stackTrace, scopes, evaluate and variables: answered, nothing is kept.  That the
\* frame whose variables are asked for is on the stack is asserted.
Inspect(m) ==
    /\ Reading(m) /\ m.kind = "inspect"
    /\ IF m.frame < Depth
       THEN Processed(Buffered(m)) /\ UNCHANGED fault
       ELSE Abort(IF m.late THEN "lateFrame" ELSE "frame") /\ UNCHANGED info
    /\ UNCHANGED <<cache, caller, scriptVars, lost, sent, session, told>>

------------------------------------------------------------------------------
ReadMessage ==
    \/ ReadEnd \/ ReadNoBuffer \/ ReadBody
    \/ \E m \in Messages :
          \/ Resume(m) \/ Pause(m) \/ SetBreakpoints(m)
          \/ StopOnException(m) \/ Inspect(m)

Check == CheckDisconnected \/ CheckSkips \/ CheckPasses \/ CheckStops \/ CheckGoes

Script == (pc = "exec" /\ Call) \/ RunOpcode \/ Return \/ Throw \/ Unwind

Next ==
    \/ LoseClient \/ Attach \/ Cooperate \/ (pc = "idle" /\ Call)
    \/ \E m \in Messages : Send(m)
    \/ Script \/ Check \/ Peek \/ ReadMessage

Spec == Init /\ [][Next]_vars

\* The script's thread is scheduled.  A script may run on one line for ever.
Fairness == WF_vars(Script \/ Check \/ Peek \/ ReadMessage)

FairSpec == Spec /\ Fairness

------------------------------------------------------------------------------
(* Correctness.                                                            *)

Stops == {"entry", "exception", "pause", "breakpoint", "step", "stepIn", "stepOut"}

\* JSDebuggerInfo and JSDebuggerFunctionInfo keep their kinds, the tick counter of
\* js_debugger_check its limit, and no function is ahead of the dirty counter.
TypeOK ==
    /\ info.stepping \in Resumes \cup {"no"}
    /\ info.ticks \in 0 .. PeekEvery
    /\ \A f \in Files :
          /\ cache[f].dirty <= info.dirty /\ info.breakpoints[f].dirty <= info.dirty
          /\ cache[f].marked \subseteq 1 .. Len(Lines[f])
    /\ pc \in {"idle", "check", "exec", "unwind", "peek", "messages", "aborted"}
    /\ caller \in {"none", "attach", "exception", "peek", "check"}
    /\ stack \in Seq([file : Files, at : Nat]) /\ Depth <= MaxDepth
    /\ inbox \in Seq(Messages \cup [kind : {"body"}])
    /\ told \in Stops \cup {"running"}
    /\ fault \in {"none", "context", "length", "frame", "lateFrame"}

\* js_send_stopped_event and the answers to resuming requests: whatever crosses on
\* the wire, the client of the first session believes the script stopped exactly
\* while it is.
ClientViewRight ==
    session = 1 /\ info.transport /\ ~lost => (told = "running" <=> ~info.paused)

\* js_debugger_check and the per-function marks of js_debugger_check_breakpoint: in
\* the first session an opcode away from the place last resumed stops the script if
\* and only if the breakpoints last received for its file ask for it, whichever
\* files' tables changed since the function was last entered.
BreakpointsObeyed ==
    [][pc = "check" /\ pc' # "check" /\ info.transport /\ session = 1 /\ ~AtStep
       => LET top == Head(stack)
          IN (pc' = "messages" /\ told' = "breakpoint")
             <=> top.at \in Marked(top.file, info.breakpoints[top.file].lines)]_vars

\* The stepping branches of js_debugger_check compare depths; what the client asked
\* for is about frames.  A stop for stepOut comes after the frame was left; one for
\* next, never in a call the frame made, nor where it was.
StopsWhereAsked ==
    pc = "messages" /\ info.transport =>
        /\ told = "stepOut" => left
        /\ told = "step" => left \/ (Depth = info.stepDepth /\ Location # info.stepOver)
        /\ told = "stepIn" => left \/ Depth > info.stepDepth \/ Location # info.stepOver

\* The assertions and the null context of quickjs-debugger.c: a first client never
\* trips the one on a message's length, nor the one on a frame unless it resumed the
\* script before it asked; the missing context bites only when a client has gone.
FaultsExplained ==
    /\ fault # "frame"
    /\ fault = "length" => session > 1
    /\ fault = "context" => lost

\* js_transport_read_fully fails at the end of the stream: a script paused when its
\* client vanishes goes on.
PausedIsReleased == (pc = "messages" /\ lost) ~> (pc # "messages")

Heard == ~info.transport \/ pc \in {"idle", "messages", "aborted"}

\* While no step is under way the peek in js_debugger_check hears a client that has
\* written something or has gone, even if the script never leaves its line.  (Under
\* a step it may not: the check returns before it peeks.)
RunningClientHeard ==
    (info.transport /\ info.stepping = "no" /\ (inbox # <<>> \/ lost)) ~> Heard
=============================================================================
