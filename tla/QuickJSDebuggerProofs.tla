------------------------ MODULE QuickJSDebuggerProofs ------------------------
(***************************************************************************)
(* The debugger of QuickJS for any functions, breakpoints, numbers of      *)
(* messages, depth of the stack and number of attachments.                 *)
(***************************************************************************)
EXTENDS QuickJSDebugger, SequenceTheorems, TLAPS

FrameRecord == [file : Files, at : Nat]
PathBreakpoints == [dirty : Nat, lines : SUBSET Nat]
InfoRecord ==
    [transport : BOOLEAN, paused : BOOLEAN, stepping : Resumes \cup {"no"},
     stepOver : [file : Files \cup {"none"}, line : Nat], stepDepth : Nat,
     onException : BOOLEAN, dirty : Nat, breakpoints : [Paths -> PathBreakpoints],
     buffer : BOOLEAN, bufferLength : Nat, ticks : 0 .. PeekEvery, shouldPeek : BOOLEAN]
FunctionRecord == [dirty : Nat, marked : SUBSET Nat, lastLine : Nat]

TypeInv ==
    /\ TypeOK
    /\ info \in InfoRecord
    /\ cache \in [Files -> FunctionRecord]
    /\ \A i \in 1 .. Len(stack) : stack[i].at \in 1 .. Len(Lines[stack[i].file])
    /\ lost \in BOOLEAN /\ left \in BOOLEAN /\ session \in Nat

\* Where the script's thread can be with an empty stack, without a client, unpaused.
ThreadInv ==
    /\ pc \in {"check", "exec", "peek"} => stack # <<>>
    /\ pc = "messages" =>
          /\ caller # "none"
          /\ caller \in {"check", "peek"} => stack # <<>>
          /\ caller # "peek" => info.paused
    /\ pc \in {"messages", "peek"} => info.transport
    /\ info.transport => session > 0
    /\ pc # "aborted" => fault = "none"

BufferOK == info.bufferLength > 0 => info.buffer
HeadBody == inbox # <<>> /\ Head(inbox).kind = "body"

\* Reading into a freed buffer takes a second session, and happens before anything
\* else in it; exceptions are only stopped at, without a client, after one has gone.
BufferInv ==
    /\ session <= 1 => \A i \in 1 .. Len(inbox) : inbox[i].kind # "body"
    /\ session <= 1 /\ info.transport => BufferOK
    /\ session = 0 => BufferOK
    /\ info.transport => \/ BufferOK \/ lost \/ HeadBody
                         \/ pc = "messages" /\ caller = "attach"
    /\ ~info.transport => lost \/ ~info.onException

\* A request for a frame that was sent before any request to resume finds the script
\* where it was when the request was sent.
InspectInv ==
    ~HeadBody =>
        \A i \in 1 .. Len(inbox) : inbox[i].kind = "inspect" /\ ~inbox[i].late =>
            /\ inbox[i].frame < Depth
            /\ pc \in {"messages", "peek", "aborted"}
            /\ \A j \in 1 .. i : inbox[j].kind \notin Resumes \cup {"bareContinue"}

\* Stops of js_debugger_check are over when js_process_debugger_messages returns.
ToldInv ==
    info.transport /\ told \in {"breakpoint", "step", "stepIn", "stepOut"} =>
        pc = "aborted" \/ (pc = "messages" /\ caller = "check")

\* A frame above the depth of the step is not the one that was resumed.
LeftInv == Depth < info.stepDepth => left

IInv ==
    /\ TypeInv /\ ThreadInv /\ BufferInv /\ InspectInv /\ ToldInv /\ LeftInv
    /\ ClientViewRight /\ StopsWhereAsked /\ FaultsExplained

\* Tables that end on their largest line: for another, last_line_num hides breakpoints.
Rising == \A f \in Files : \A j \in 1 .. Len(Lines[f]) : Lines[f][j] <= Lines[f][Len(Lines[f])]

\* A function's marks are those of the table it was last brought up to date with.
CacheInv ==
    session = 0 \/ (session = 1 /\ info.transport) =>
        \A f \in Files :
            /\ info.breakpoints[f].dirty <= cache[f].dirty =>
                  cache[f].marked = Marked(f, info.breakpoints[f].lines)
            /\ cache[f].lastLine \in {0, Lines[f][Len(Lines[f])]}

------------------------------------------------------------------------------
(* Messages, sequences and the records of the debugger.                    *)

\* What the messages of each kind carry.
LEMMA MessageFields ==
    ASSUME NEW m \in Messages
    PROVE  /\ m.kind # "body"
           /\ m.kind = "breakpoints" => m.file \in Paths /\ m.lines \in LineSets
           /\ m.kind = "stopOnException" => m.on \in BOOLEAN
           /\ m.kind = "inspect" => m.frame \in Nat /\ m.late \in BOOLEAN
<1>1. CASE m \in [kind : (Resumes \cup {"bareContinue", "pause"}) \cap Kinds]
  BY <1>1 DEF Resumes
<1>2. CASE m \in [kind : {"breakpoints"} \cap Kinds, file : Paths, lines : LineSets]
  BY <1>2
<1>3. CASE m \in [kind : {"stopOnException"} \cap Kinds, on : BOOLEAN]
  BY <1>3
<1>4. CASE m \in [kind : {"inspect"} \cap Kinds, frame : 0 .. MaxDepth - 1, late : BOOLEAN]
  BY <1>4, DebuggerAssumption
<1> QED
  BY <1>1, <1>2, <1>3, <1>4 DEF Messages

Parcels == Messages \cup [kind : {"body"}]

\* A message arrives behind the others.
LEMMA AppendSeq ==
    ASSUME NEW S, NEW s \in Seq(S), NEW x \in S
    PROVE  /\ Append(s, x) \in Seq(S)
           /\ Len(Append(s, x)) = Len(s) + 1
           /\ Append(s, x)[Len(s) + 1] = x
           /\ \A i \in 1 .. Len(s) : Append(s, x)[i] = s[i]
           /\ Head(Append(s, x)) = IF s = <<>> THEN x ELSE Head(s)
           /\ Append(s, x) # <<>>
  OBVIOUS

\* The first message, or the innermost frame, is taken off.
LEMMA TailSeq ==
    ASSUME NEW S, NEW s \in Seq(S), s # <<>>
    PROVE  /\ Tail(s) \in Seq(S) /\ Len(Tail(s)) = Len(s) - 1 /\ Len(s) \in Nat \ {0}
           /\ \A i \in 1 .. Len(Tail(s)) : Tail(s)[i] = s[i + 1] /\ i + 1 \in 1 .. Len(s)
           /\ Head(s) = s[1] /\ Head(s) \in S /\ 1 \in 1 .. Len(s)
  OBVIOUS

\* Something is put in front.
LEMMA ConsSeq ==
    ASSUME NEW S, NEW s \in Seq(S), NEW x \in S
    PROVE  /\ <<x>> \o s \in Seq(S) /\ Len(<<x>> \o s) = Len(s) + 1
           /\ (<<x>> \o s)[1] = x /\ Head(<<x>> \o s) = x /\ <<x>> \o s # <<>>
           /\ \A i \in 2 .. Len(s) + 1 : (<<x>> \o s)[i] = s[i - 1] /\ i - 1 \in 1 .. Len(s)
  OBVIOUS

\* Frames are unwound.
LEMMA SuffixSeq ==
    ASSUME NEW S, NEW s \in Seq(S), NEW n \in 1 .. Len(s) + 1
    PROVE  /\ SubSeq(s, n, Len(s)) \in Seq(S)
           /\ Len(SubSeq(s, n, Len(s))) = Len(s) - n + 1
           /\ \A i \in 1 .. Len(s) - n + 1 :
                 SubSeq(s, n, Len(s))[i] = s[n + i - 1] /\ n + i - 1 \in 1 .. Len(s)
<1>1. \A i \in n .. Len(s) : s[i] \in S
  OBVIOUS
<1>2. /\ SubSeq(s, n, Len(s)) \in Seq(S)
      /\ Len(SubSeq(s, n, Len(s))) = IF n <= Len(s) THEN Len(s) - n + 1 ELSE 0
      /\ \A i \in 1 .. Len(s) - n + 1 : SubSeq(s, n, Len(s))[i] = s[n + i - 1]
  BY <1>1, SubSeqProperties
<1> QED
  BY <1>2

\* What js_debugger_free leaves.
LEMMA FreedInfo ==
    ASSUME NEW i \in InfoRecord
    PROVE  /\ Freed(i) \in InfoRecord /\ ~Freed(i).transport
           /\ Freed(i).paused = i.paused /\ Freed(i).stepping = i.stepping
           /\ Freed(i).stepOver = i.stepOver /\ Freed(i).stepDepth = i.stepDepth
           /\ Freed(i).onException = i.onException /\ Freed(i).dirty = i.dirty
           /\ Freed(i).bufferLength = i.bufferLength /\ Freed(i).ticks = i.ticks
           /\ \A f \in Paths : Freed(i).breakpoints[f].dirty \in {0, i.breakpoints[f].dirty}
           /\ ~i.transport => Freed(i) = i
<1>1. CASE i.transport
  <2>1. [q \in Paths |-> [dirty |-> 0, lines |-> {}]] \in [Paths -> PathBreakpoints]
    BY DEF PathBreakpoints
  <2> QED
    BY <1>1, <2>1 DEF Freed, InfoRecord
<1>2. CASE ~i.transport
  BY <1>2 DEF Freed
<1> QED
  BY <1>1, <1>2

\* What growing the message buffer changes.
LEMMA BufferedInfo ==
    ASSUME info \in InfoRecord, NEW m
    PROVE  /\ Buffered(m) \in InfoRecord
           /\ Buffered(m).transport = info.transport /\ Buffered(m).paused = info.paused
           /\ Buffered(m).stepping = info.stepping /\ Buffered(m).stepOver = info.stepOver
           /\ Buffered(m).stepDepth = info.stepDepth
           /\ Buffered(m).onException = info.onException /\ Buffered(m).dirty = info.dirty
           /\ Buffered(m).breakpoints = info.breakpoints /\ Buffered(m).ticks = info.ticks
           /\ BufferOK => Buffered(m).buffer
<1>1. Length(m) \in {1, 2}
  BY DEF Length
<1>2. CASE Length(m) > info.bufferLength
  <2>1. PICK n \in Nat : Buffered(m) = [info EXCEPT !.buffer = TRUE, !.bufferLength = n]
    BY <1>1, <1>2 DEF Buffered
  <2>2. Buffered(m) \in InfoRecord /\ Buffered(m).buffer
    BY <2>1 DEF InfoRecord
  <2> QED
    BY <2>1, <2>2 DEF InfoRecord
<1>3. CASE ~(Length(m) > info.bufferLength)
  BY <1>1, <1>3 DEF Buffered, InfoRecord, BufferOK
<1> QED
  BY <1>2, <1>3

\* A position of a function has a line.
LEMMA LocationType ==
    ASSUME TypeInv PROVE Location \in [file : Files \cup {"none"}, line : Nat]
<1>1. CASE stack = <<>>
  BY <1>1 DEF Location, NoLocation
<1>2. CASE stack # <<>>
  <2>1. Head(stack) \in FrameRecord /\ Head(stack).at \in 1 .. Len(Lines[Head(stack).file])
    <3>1. stack \in Seq(FrameRecord)
      BY DEF TypeInv, TypeOK, FrameRecord
    <3>2. Head(stack) = stack[1] /\ Head(stack) \in FrameRecord /\ 1 \in 1 .. Len(stack)
      BY <1>2, <3>1, TailSeq
    <3>3. \A i \in 1 .. Len(stack) : stack[i].at \in 1 .. Len(Lines[stack[i].file])
      BY DEF TypeInv
    <3> QED
      BY <3>2, <3>3
  <2>2. Lines[Head(stack).file] \in Seq(Nat)
    BY <2>1, DebuggerAssumption DEF FrameRecord
  <2>3. LineAt(Head(stack)) \in Nat
    BY <2>1, <2>2 DEF LineAt
  <2> QED
    BY <1>2, <2>1, <2>3 DEF Location, FrameRecord
<1> QED
  BY <1>1, <1>2

\* What js_debugger_check_breakpoint leaves of a function's marks.
LEMMA RefreshedType ==
    ASSUME TypeInv, NEW f \in Files
    PROVE  /\ Refreshed(f) \in FunctionRecord
           /\ Refreshed(f).dirty = info.dirty
           /\ Refreshed(f).marked \subseteq 1 .. Len(Lines[f])
<1>1. /\ cache[f] \in FunctionRecord /\ info.dirty \in Nat
      /\ cache[f].marked \subseteq 1 .. Len(Lines[f])
      /\ Lines[f] \in Seq(Nat) /\ Len(Lines[f]) \in Nat \ {0}
  <2>1. cache \in [Files -> FunctionRecord] /\ info \in InfoRecord
    BY DEF TypeInv
  <2>2. info.dirty \in Nat
    BY <2>1 DEF InfoRecord
  <2>3. cache[f].marked \subseteq 1 .. Len(Lines[f])
    BY DEF TypeInv, TypeOK
  <2>4. Lines[f] \in Seq(Nat \ {0}) /\ Lines[f] # <<>>
    BY DebuggerAssumption
  <2>5. Lines[f] \in Seq(Nat) /\ Len(Lines[f]) \in Nat \ {0}
    BY <2>4
  <2> QED
    BY <2>1, <2>2, <2>3, <2>5
<1>2. ASSUME NEW l PROVE Marked(f, l) \subseteq 1 .. Len(Lines[f]) /\ Marked(f, l) \in SUBSET Nat
  BY <1>1 DEF Marked
<1>3. Rescanned(f) \in FunctionRecord /\ Rescanned(f).dirty = info.dirty
      /\ Rescanned(f).marked \subseteq 1 .. Len(Lines[f])
  <2>1. Lines[f][Len(Lines[f])] \in Nat /\ cache[f].lastLine \in Nat
    BY <1>1 DEF FunctionRecord
  <2> QED
    BY <1>1, <1>2, <2>1 DEF Rescanned, FunctionRecord
<1> QED
  BY <1>1, <1>3 DEF Refreshed, FunctionRecord

\* Requests that wait in the inbox, when nothing is read or written.
LEMMA SameInbox ==
    ASSUME InspectInv, inbox' = inbox,
           \/ pc \notin {"messages", "peek", "aborted"}
           \/ Depth' = Depth /\ pc' \in {"messages", "peek", "aborted"}
    PROVE  InspectInv'
  BY DEF InspectInv, HeadBody

\* Nothing is attached yet.
LEMMA InitIInv == Init => IInv
<1> USE DebuggerAssumption
<1> SUFFICES ASSUME Init PROVE IInv
  OBVIOUS
<1>1. info \in InfoRecord
  <2>1. [q \in Paths |-> [dirty |-> 0, lines |-> {}]] \in [Paths -> PathBreakpoints]
    BY DEF PathBreakpoints
  <2>2. NoLocation \in [file : Files \cup {"none"}, line : Nat]
    BY DEF NoLocation
  <2> QED
    BY <2>1, <2>2 DEF Init, InfoRecord
<1>2. cache \in [Files -> FunctionRecord]
  BY DEF Init, FunctionRecord
<1>3. stack = <<>> /\ inbox = <<>> /\ Len(stack) = 0 /\ Len(inbox) = 0
  BY DEF Init
<1>4. \A f \in Files : /\ cache[f].dirty = 0 /\ info.breakpoints[f].dirty = 0
                       /\ cache[f].marked = {} /\ info.dirty = 0
  BY DEF Init
<1>5. /\ info.stepping = "no" /\ info.ticks = 0 /\ ~info.transport /\ ~info.paused
      /\ ~info.onException /\ info.stepDepth = 0 /\ info.bufferLength = 0
  BY DEF Init
<1>6. TypeOK
  <2>1. stack \in Seq([file : Files, at : Nat]) /\ Depth <= MaxDepth
    BY <1>3 DEF Depth
  <2>2. inbox \in Seq(Messages \cup [kind : {"body"}])
    BY <1>3
  <2>3. \A f \in Files :
          /\ cache[f].dirty <= info.dirty /\ info.breakpoints[f].dirty <= info.dirty
          /\ cache[f].marked \subseteq 1 .. Len(Lines[f])
    BY <1>4
  <2>4. info.stepping \in Resumes \cup {"no"} /\ info.ticks \in 0 .. PeekEvery
    BY <1>5
  <2> QED
    BY <2>1, <2>2, <2>3, <2>4 DEF Init, TypeOK, Stops
<1>7. TypeInv
  <2>1. lost \in BOOLEAN /\ left \in BOOLEAN /\ session \in Nat
    BY DEF Init
  <2>2. \A i \in 1 .. Len(stack) : stack[i].at \in 1 .. Len(Lines[stack[i].file])
    BY <1>3
  <2> QED
    BY <1>1, <1>2, <1>6, <2>1, <2>2 DEF TypeInv
<1>8. ThreadInv
  BY <1>5 DEF Init, ThreadInv
<1>10. BufferInv /\ InspectInv
  BY <1>3, <1>5 DEF Init, BufferInv, BufferOK, InspectInv
<1>9. ToldInv /\ LeftInv /\ ClientViewRight /\ StopsWhereAsked /\ FaultsExplained
  BY <1>3, <1>5 DEF Init, ToldInv, LeftInv, ClientViewRight, StopsWhereAsked, FaultsExplained, Depth
<1> QED
  BY <1>7, <1>8, <1>9, <1>10 DEF IInv

------------------------------------------------------------------------------
(* The client and Java.                                                    *)

\* A message is sent.
LEMMA SendKeeps == ASSUME IInv, NEW m \in Messages, Send(m) PROVE IInv'
<1> USE DebuggerAssumption
<1>1. /\ inbox' = Append(inbox, m) /\ info.transport /\ pc # "aborted"
      /\ UNCHANGED <<info, cache, pc, caller, stack, left, lost, session, told, fault>>
  BY DEF Send, scriptVars
<1>2. inbox \in Seq(Parcels) /\ m \in Parcels
  BY DEF IInv, TypeInv, TypeOK, Parcels
<1>3. /\ inbox' \in Seq(Parcels) /\ Len(inbox') = Len(inbox) + 1
      /\ inbox'[Len(inbox) + 1] = m /\ \A i \in 1 .. Len(inbox) : inbox'[i] = inbox[i]
      /\ Head(inbox') = (IF inbox = <<>> THEN m ELSE Head(inbox)) /\ inbox' # <<>>
      /\ Len(inbox) \in Nat
  BY <1>1, <1>2, AppendSeq
<1>4. m.kind # "body"
  BY MessageFields
<1>5. HeadBody' <=> HeadBody
  BY <1>3, <1>4 DEF HeadBody
<1>6. TypeInv'
  BY <1>1, <1>3 DEF IInv, TypeInv, TypeOK, Parcels, Depth
<1>7. InspectInv'
  <2> SUFFICES ASSUME ~HeadBody, NEW i \in 1 .. Len(inbox) + 1,
                      inbox'[i].kind = "inspect", ~inbox'[i].late
               PROVE  /\ inbox'[i].frame < Depth /\ pc \in {"messages", "peek", "aborted"}
                      /\ \A j \in 1 .. i : inbox'[j].kind \notin Resumes \cup {"bareContinue"}
    BY <1>1, <1>3, <1>5 DEF InspectInv, Depth
  <2>1. CASE i = Len(inbox) + 1
    <3>1. m.kind = "inspect" /\ ~m.late
      BY <1>3, <2>1
    <3>2. /\ pc = "messages" /\ m.frame < Depth
          /\ ~\E k \in DOMAIN inbox : inbox[k].kind \in Resumes \cup {"bareContinue"}
      BY <3>1 DEF Send
    <3>3. DOMAIN inbox = 1 .. Len(inbox)
      BY <1>2
    <3> QED
      BY <1>3, <2>1, <3>1, <3>2, <3>3 DEF Resumes
  <2>2. CASE i \in 1 .. Len(inbox)
    BY <1>3, <2>2 DEF IInv, InspectInv
  <2> QED
    BY <1>3, <2>1, <2>2
<1>8. BufferInv'
  <2>1. session <= 1 => \A i \in 1 .. Len(inbox) + 1 : inbox'[i].kind # "body"
    BY <1>3, <1>4 DEF IInv, BufferInv
  <2> QED
    BY <1>1, <1>3, <1>5, <2>1 DEF IInv, BufferInv, BufferOK
<1>9. ThreadInv' /\ ToldInv' /\ LeftInv'
  BY <1>1 DEF IInv, ThreadInv, ToldInv, LeftInv, Depth
<1>10. ClientViewRight' /\ StopsWhereAsked' /\ FaultsExplained'
  BY <1>1 DEF IInv, ClientViewRight, StopsWhereAsked, FaultsExplained, Depth, Location, LineAt
<1> QED
  BY <1>6, <1>7, <1>8, <1>9, <1>10 DEF IInv

\* The client is lost.
LEMMA LoseKeeps == ASSUME IInv, LoseClient PROVE IInv'
<1>1. /\ lost' = TRUE /\ info.transport /\ pc # "aborted"
      /\ UNCHANGED <<info, cache, pc, caller, stack, left, inbox, session, told, fault>>
  BY DEF LoseClient, scriptVars
<1>2. TypeInv'
  BY <1>1 DEF IInv, TypeInv, TypeOK, Depth
<1>3. ThreadInv' /\ BufferInv' /\ InspectInv' /\ ToldInv' /\ LeftInv'
  BY <1>1 DEF IInv, ThreadInv, BufferInv, BufferOK, HeadBody, InspectInv, ToldInv, LeftInv, Depth
<1>4. ClientViewRight' /\ StopsWhereAsked' /\ FaultsExplained'
  BY <1>1 DEF IInv, ClientViewRight, StopsWhereAsked, FaultsExplained, Depth, Location, LineAt
<1> QED
  BY <1>2, <1>3, <1>4 DEF IInv

\* Java attaches a debugger.
LEMMA AttachKeeps == ASSUME IInv, Attach PROVE IInv'
<1> USE DebuggerAssumption
<1> DEFINE i == Freed(info)
<1>1. /\ pc = "idle" /\ session' = session + 1 /\ inbox' \in Openings /\ lost' = FALSE
      /\ told' = "entry" /\ pc' = "messages" /\ caller' = "attach"
      /\ info' = [i EXCEPT !.transport = TRUE, !.paused = TRUE]
      /\ UNCHANGED <<cache, stack, left, fault>>
  BY DEF Attach, StopFor, scriptVars
<1>2. info \in InfoRecord
  BY DEF IInv, TypeInv
<1>3. /\ i \in InfoRecord /\ i.stepping = info.stepping /\ i.stepDepth = info.stepDepth
      /\ i.dirty = info.dirty /\ i.ticks = info.ticks /\ i.bufferLength = info.bufferLength
      /\ \A f \in Paths : i.breakpoints[f].dirty \in {0, info.breakpoints[f].dirty}
      /\ ~info.transport => i = info
  BY <1>2, FreedInfo
<1> HIDE DEF i
<1>4. /\ info' \in InfoRecord /\ info'.transport /\ info'.paused
      /\ info'.stepping = info.stepping /\ info'.stepDepth = info.stepDepth
      /\ info'.dirty = info.dirty /\ info'.ticks = info.ticks
      /\ info'.breakpoints = i.breakpoints
      /\ info'.buffer = i.buffer /\ info'.bufferLength = i.bufferLength
  BY <1>1, <1>3 DEF InfoRecord
<1>5. /\ inbox' \in Seq(Messages)
      /\ \A k \in 1 .. Len(inbox') : inbox'[k].kind \notin {"inspect", "body"}
  BY <1>1, MessageFields
<1>6. TypeInv'
  <2>1. inbox' \in Seq(Messages \cup [kind : {"body"}])
    BY <1>5
  <2>2. session' \in Nat
    BY <1>1 DEF IInv, TypeInv
  <2>3. \A f \in Files : info'.breakpoints[f].dirty <= info'.dirty
    <3>1. info.dirty \in Nat
      BY <1>2 DEF InfoRecord
    <3>2. \A f \in Files : f \in Paths /\ info.breakpoints[f].dirty <= info.dirty
      BY DEF IInv, TypeInv, TypeOK
    <3> QED
      BY <1>3, <1>4, <3>1, <3>2
  <2>4. TypeOK'
    BY <1>1, <1>4, <2>1, <2>3 DEF IInv, TypeInv, TypeOK, Depth, Stops
  <2> QED
    BY <1>1, <1>4, <2>2, <2>4 DEF IInv, TypeInv
<1>7. InspectInv'
  BY <1>5 DEF InspectInv
<1>8. ThreadInv'
  BY <1>1, <1>4 DEF IInv, TypeInv, ThreadInv
<1>9. session' <= 1 => session = 0
  BY <1>1 DEF IInv, TypeInv
<1>10. session = 0 => ~info.transport
  BY DEF IInv, ThreadInv
<1>11. BufferInv'
  BY <1>1, <1>3, <1>4, <1>5, <1>9, <1>10 DEF IInv, TypeInv, BufferInv, BufferOK
<1>12. ToldInv' /\ LeftInv' /\ ClientViewRight' /\ StopsWhereAsked'
  BY <1>1, <1>4 DEF IInv, ToldInv, LeftInv, ClientViewRight, StopsWhereAsked, Depth
<1>13. FaultsExplained'
  <2>1. fault = "none"
    BY <1>1 DEF IInv, ThreadInv
  <2> QED
    BY <1>1, <2>1 DEF IInv, FaultsExplained
<1> QED
  BY <1>6, <1>7, <1>8, <1>11, <1>12, <1>13 DEF IInv

\* Java asks for a look at the socket.
LEMMA CooperateKeeps == ASSUME IInv, Cooperate PROVE IInv'
<1>1. /\ info' = [info EXCEPT !.shouldPeek = TRUE]
      /\ UNCHANGED <<cache, pc, caller, stack, left, inbox, lost, session, told, fault>>
  BY DEF Cooperate, scriptVars, wireVars
<1>2. /\ info' \in InfoRecord /\ info'.transport = info.transport /\ info'.paused = info.paused
      /\ info'.stepping = info.stepping /\ info'.stepDepth = info.stepDepth
      /\ info'.stepOver = info.stepOver /\ info'.onException = info.onException
      /\ info'.dirty = info.dirty /\ info'.ticks = info.ticks
      /\ info'.breakpoints = info.breakpoints
      /\ info'.buffer = info.buffer /\ info'.bufferLength = info.bufferLength
  BY <1>1 DEF IInv, TypeInv, InfoRecord
<1>3. TypeInv'
  BY <1>1, <1>2 DEF IInv, TypeInv, TypeOK, Depth
<1>4. ThreadInv' /\ BufferInv' /\ InspectInv' /\ ToldInv' /\ LeftInv'
  BY <1>1, <1>2 DEF IInv, ThreadInv, BufferInv, BufferOK, HeadBody, InspectInv, ToldInv, LeftInv, Depth
<1>5. ClientViewRight' /\ StopsWhereAsked' /\ FaultsExplained'
  BY <1>1, <1>2 DEF IInv, ClientViewRight, StopsWhereAsked, FaultsExplained, Depth, Location, LineAt
<1> QED
  BY <1>3, <1>4, <1>5 DEF IInv

------------------------------------------------------------------------------
(* The script.                                                             *)

\* A stack of frames, each at a position of its function.
Stacked(s) ==
    /\ s \in Seq(FrameRecord) /\ Len(s) <= MaxDepth
    /\ \A i \in 1 .. Len(s) : s[i].at \in 1 .. Len(Lines[s[i].file])

\* The script moves between two checks.
LEMMA ScriptMoves ==
    ASSUME IInv, pc \in {"idle", "exec", "unwind"}, pc' \in {"idle", "check"},
           UNCHANGED <<info, cache, caller, inbox, lost, session, told, fault>>,
           Stacked(stack'), pc' = "check" => stack' # <<>>,
           left' \in BOOLEAN, Len(stack') < info.stepDepth => left'
    PROVE  IInv'
<1>1. TypeInv'
  BY DEF IInv, TypeInv, TypeOK, Depth, Stacked, FrameRecord
<1>2. ThreadInv' /\ ToldInv' /\ LeftInv'
  BY DEF IInv, ThreadInv, ToldInv, LeftInv, Depth
<1>3. BufferInv'
  BY DEF IInv, BufferInv, BufferOK, HeadBody
<1>4. InspectInv'
  BY SameInbox DEF IInv
<1>5. ClientViewRight' /\ StopsWhereAsked' /\ FaultsExplained'
  BY DEF IInv, ClientViewRight, StopsWhereAsked, FaultsExplained
<1> QED
  BY <1>1, <1>2, <1>3, <1>4, <1>5 DEF IInv

\* A function is called.
LEMMA CallKeeps == ASSUME IInv, Call PROVE IInv'
<1> USE DebuggerAssumption
<1>1. /\ pc \in {"idle", "exec"} /\ Len(stack) < MaxDepth /\ pc' = "check"
      /\ UNCHANGED <<info, cache, caller, inbox, lost, session, told, left, fault>>
  BY DEF Call, wireVars, Depth
<1>2. PICK f \in Files : \E i \in 1 .. Len(Lines[f]) :
          stack' = <<[file |-> f, at |-> i]>> \o stack
  BY DEF Call
<1>3. PICK i \in 1 .. Len(Lines[f]) : stack' = <<[file |-> f, at |-> i]>> \o stack
  BY <1>2
<1> DEFINE x == [file |-> f, at |-> i]
<1>4. Len(Lines[f]) \in Nat
  OBVIOUS
<1>5. x \in FrameRecord /\ x.at \in 1 .. Len(Lines[x.file])
  BY <1>4 DEF FrameRecord
<1>6. stack' = <<x>> \o stack
  BY <1>3
<1> HIDE DEF x
<1>7. stack \in Seq(FrameRecord) /\ MaxDepth \in Nat /\ Len(stack) \in Nat
  BY DEF IInv, TypeInv, TypeOK, FrameRecord
<1>8. /\ stack' \in Seq(FrameRecord) /\ Len(stack') = Len(stack) + 1
      /\ stack'[1] = x /\ stack' # <<>>
      /\ \A k \in 2 .. Len(stack) + 1 : stack'[k] = stack[k - 1] /\ k - 1 \in 1 .. Len(stack)
  BY <1>5, <1>6, <1>7, ConsSeq
<1>9. Stacked(stack')
  <2>1. ASSUME NEW k \in 1 .. Len(stack') PROVE stack'[k].at \in 1 .. Len(Lines[stack'[k].file])
    <3>1. CASE k = 1
      BY <1>5, <1>8, <3>1
    <3>2. CASE k # 1
      <4>1. stack'[k] = stack[k - 1] /\ k - 1 \in 1 .. Len(stack)
        BY <1>7, <1>8, <3>2
      <4> QED
        BY <4>1 DEF IInv, TypeInv
    <3> QED
      BY <3>1, <3>2
  <2> QED
    BY <1>1, <1>7, <1>8, <2>1 DEF Stacked
<1>10. Len(stack') < info.stepDepth => left'
  <2>1. info.stepDepth \in Nat
    BY DEF IInv, TypeInv, InfoRecord
  <2> QED
    BY <1>1, <1>7, <1>8, <2>1 DEF IInv, LeftInv, Depth
<1>11. left' \in BOOLEAN
  BY <1>1 DEF IInv, TypeInv
<1> QED
  BY <1>1, <1>8, <1>9, <1>10, <1>11, ScriptMoves

\* An opcode runs.
LEMMA OpcodeKeeps == ASSUME IInv, RunOpcode PROVE IInv'
<1> USE DebuggerAssumption
<1>1. /\ pc = "exec" /\ pc' = "check"
      /\ UNCHANGED <<info, cache, caller, inbox, lost, session, told, left, fault>>
  BY DEF RunOpcode, wireVars
<1>2. PICK i \in 1 .. Len(Lines[Head(stack).file]) : stack' = [stack EXCEPT ![1].at = i]
  BY DEF RunOpcode
<1>3. /\ stack \in Seq(FrameRecord) /\ stack # <<>> /\ Len(stack) <= MaxDepth
      /\ \A k \in 1 .. Len(stack) : stack[k].at \in 1 .. Len(Lines[stack[k].file])
  BY <1>1 DEF IInv, TypeInv, TypeOK, ThreadInv, FrameRecord, Depth
<1>4. Head(stack) = stack[1] /\ stack[1] \in FrameRecord /\ 1 \in 1 .. Len(stack)
  BY <1>3, TailSeq
<1>5. i \in Nat
  <2>1. Len(Lines[Head(stack).file]) \in Nat
    BY <1>4 DEF FrameRecord
  <2> QED
    BY <2>1
<1> DEFINE x == [stack[1] EXCEPT !.at = i]
<1>6. x \in FrameRecord /\ x.at = i /\ x.file = stack[1].file
  BY <1>4, <1>5 DEF FrameRecord
<1>7. stack' = [stack EXCEPT ![1] = x]
  BY <1>2
<1> HIDE DEF x
<1>8. /\ stack' \in Seq(FrameRecord) /\ Len(stack') = Len(stack) /\ stack' # <<>>
      /\ stack'[1] = x /\ \A k \in 1 .. Len(stack) : k # 1 => stack'[k] = stack[k]
  BY <1>3, <1>4, <1>6, <1>7
<1>9. Stacked(stack')
  <2>1. ASSUME NEW k \in 1 .. Len(stack') PROVE stack'[k].at \in 1 .. Len(Lines[stack'[k].file])
    <3>1. CASE k = 1
      BY <1>2, <1>4, <1>6, <1>8, <3>1
    <3>2. CASE k # 1
      BY <1>3, <1>8, <3>2
    <3> QED
      BY <3>1, <3>2
  <2> QED
    BY <1>3, <1>8, <2>1 DEF Stacked
<1>10. Len(stack') < info.stepDepth => left'
  BY <1>1, <1>8 DEF IInv, LeftInv, Depth
<1>11. left' \in BOOLEAN
  BY <1>1 DEF IInv, TypeInv
<1> QED
  BY <1>1, <1>8, <1>9, <1>10, <1>11, ScriptMoves

\* Frames are popped by a return or an exception.
LEMMA PopKeeps ==
    ASSUME IInv, pc \in {"exec", "unwind"}, NEW s, Stacked(s), PopTo(s),
           UNCHANGED <<info, cache, caller, inbox, lost, session, told, fault>>
    PROVE  IInv'
<1>1. /\ left' = (left \/ Len(s) < info.stepDepth)
      /\ pc' = IF s = <<>> THEN "idle" ELSE "check"
  BY DEF PopTo
<1>2. CASE s = <<>>
  <2>1. stack' = s
    BY <1>2 DEF PopTo
  <2> QED
    BY <1>1, <2>1, ScriptMoves DEF IInv, TypeInv
<1>3. CASE s # <<>>
  <2>1. PICK i \in 1 .. Len(Lines[s[1].file]) : stack' = [s EXCEPT ![1].at = i]
    BY <1>3 DEF PopTo
  <2>2. s \in Seq(FrameRecord) /\ 1 \in 1 .. Len(s) /\ s[1] \in FrameRecord
    BY <1>3 DEF Stacked
  <2>3. i \in Nat
    <3>1. Len(Lines[s[1].file]) \in Nat
      BY <2>2, DebuggerAssumption DEF FrameRecord
    <3> QED
      BY <3>1
  <2> DEFINE x == [s[1] EXCEPT !.at = i]
  <2>4. x \in FrameRecord /\ x.at = i /\ x.file = s[1].file
    BY <2>2, <2>3 DEF FrameRecord
  <2>5. stack' = [s EXCEPT ![1] = x]
    BY <2>1
  <2> HIDE DEF x
  <2>6. /\ stack' \in Seq(FrameRecord) /\ Len(stack') = Len(s) /\ stack' # <<>>
        /\ stack'[1] = x /\ \A k \in 1 .. Len(s) : k # 1 => stack'[k] = s[k]
    BY <1>3, <2>2, <2>4, <2>5
  <2>7. Stacked(stack')
    <3>1. ASSUME NEW k \in 1 .. Len(stack') PROVE stack'[k].at \in 1 .. Len(Lines[stack'[k].file])
      <4>1. CASE k = 1
        BY <2>1, <2>4, <2>6, <4>1
      <4>2. CASE k # 1
        BY <2>6, <4>2 DEF Stacked
      <4> QED
        BY <4>1, <4>2
    <3> QED
      BY <2>6, <3>1 DEF Stacked
  <2> QED
    BY <1>1, <1>3, <2>6, <2>7, ScriptMoves DEF IInv, TypeInv
<1> QED
  BY <1>2, <1>3

\* A function returns.
LEMMA ReturnKeeps == ASSUME IInv, Return PROVE IInv'
<1>1. /\ stack \in Seq(FrameRecord) /\ stack # <<>> /\ pc = "exec" /\ Len(stack) <= MaxDepth
      /\ \A k \in 1 .. Len(stack) : stack[k].at \in 1 .. Len(Lines[stack[k].file])
  BY DEF Return, IInv, TypeInv, TypeOK, ThreadInv, FrameRecord, Depth
<1>2. Stacked(Tail(stack))
  BY <1>1, TailSeq, DebuggerAssumption DEF Stacked
<1> QED
  BY <1>1, <1>2, PopKeeps DEF Return, wireVars

\* An exception is caught.
LEMMA UnwindKeeps == ASSUME IInv, Unwind PROVE IInv'
<1>1. PICK n \in 1 .. Len(stack) + 1 : PopTo(SubSeq(stack, n, Len(stack)))
  BY DEF Unwind, Depth
<1>2. /\ stack \in Seq(FrameRecord) /\ Len(stack) <= MaxDepth /\ Len(stack) \in Nat
      /\ \A k \in 1 .. Len(stack) : stack[k].at \in 1 .. Len(Lines[stack[k].file])
  BY DEF IInv, TypeInv, TypeOK, FrameRecord, Depth
<1> DEFINE s == SubSeq(stack, n, Len(stack))
<1>3. /\ s \in Seq(FrameRecord) /\ Len(s) = Len(stack) - n + 1
      /\ \A i \in 1 .. Len(stack) - n + 1 : s[i] = stack[n + i - 1] /\ n + i - 1 \in 1 .. Len(stack)
  BY <1>2, SuffixSeq
<1>4. PopTo(s)
  BY <1>1
<1> HIDE DEF s
<1>5. Stacked(s)
  <2>1. MaxDepth \in Nat
    BY DebuggerAssumption
  <2>2. Len(s) <= MaxDepth
    BY <1>2, <1>3, <2>1
  <2> QED
    BY <1>2, <1>3, <2>2 DEF Stacked
<1> QED
  BY <1>4, <1>5, PopKeeps DEF Unwind, wireVars

\* An exception is thrown.
LEMMA ThrowKeeps == ASSUME IInv, Throw PROVE IInv'
<1>1. /\ pc = "exec" /\ UNCHANGED <<cache, stack, left, inbox, lost, session>>
  BY DEF Throw, scriptVars, wireVars
<1>2. CASE ~info.onException
  <2>1. pc' = "unwind" /\ UNCHANGED <<info, caller, told, fault>>
    BY <1>2 DEF Throw
  <2>2. TypeInv'
    BY <1>1, <2>1 DEF IInv, TypeInv, TypeOK, Depth
  <2>3. ThreadInv' /\ BufferInv' /\ ToldInv' /\ LeftInv'
    BY <1>1, <2>1 DEF IInv, ThreadInv, BufferInv, BufferOK, HeadBody, ToldInv, LeftInv, Depth
  <2>4. InspectInv'
    BY <1>1, <2>1, SameInbox DEF IInv
  <2>5. ClientViewRight' /\ StopsWhereAsked' /\ FaultsExplained'
    BY <1>1, <2>1 DEF IInv, ClientViewRight, StopsWhereAsked, FaultsExplained
  <2> QED
    BY <2>2, <2>3, <2>4, <2>5 DEF IInv
<1>3. CASE info.onException /\ ~info.transport
  <2>1. pc' = "aborted" /\ fault' = "context" /\ UNCHANGED <<info, caller, told>>
    BY <1>3 DEF Throw, Abort
  <2>2. TypeInv'
    BY <1>1, <2>1 DEF IInv, TypeInv, TypeOK, Depth
  <2>3. ThreadInv' /\ BufferInv' /\ ToldInv' /\ LeftInv'
    BY <1>1, <1>3, <2>1 DEF IInv, ThreadInv, BufferInv, BufferOK, HeadBody, ToldInv, LeftInv, Depth
  <2>4. InspectInv'
    BY <1>1, <2>1, SameInbox DEF IInv
  <2>5. ClientViewRight' /\ StopsWhereAsked' /\ FaultsExplained'
    BY <1>1, <1>3, <2>1 DEF IInv, BufferInv, ClientViewRight, StopsWhereAsked, FaultsExplained
  <2> QED
    BY <2>2, <2>3, <2>4, <2>5 DEF IInv
<1>4. CASE info.onException /\ info.transport
  <2>1. /\ pc' = "messages" /\ told' = "exception" /\ caller' = "exception"
        /\ info' = [info EXCEPT !.paused = TRUE] /\ UNCHANGED fault
    BY <1>4 DEF Throw, StopFor
  <2>2. /\ info' \in InfoRecord /\ info'.transport = info.transport /\ info'.paused
        /\ info'.stepping = info.stepping /\ info'.stepDepth = info.stepDepth
        /\ info'.onException = info.onException
        /\ info'.dirty = info.dirty /\ info'.ticks = info.ticks
        /\ info'.breakpoints = info.breakpoints
        /\ info'.buffer = info.buffer /\ info'.bufferLength = info.bufferLength
    BY <2>1 DEF IInv, TypeInv, InfoRecord
  <2>3. TypeInv'
    BY <1>1, <2>1, <2>2 DEF IInv, TypeInv, TypeOK, Depth, Stops
  <2>4. ThreadInv' /\ BufferInv' /\ ToldInv' /\ LeftInv'
    BY <1>1, <1>4, <2>1, <2>2
       DEF IInv, ThreadInv, BufferInv, BufferOK, HeadBody, ToldInv, LeftInv, Depth
  <2>5. InspectInv'
    BY <1>1, <2>1, SameInbox DEF IInv
  <2>6. ClientViewRight' /\ StopsWhereAsked' /\ FaultsExplained'
    BY <1>1, <2>1, <2>2 DEF IInv, ClientViewRight, StopsWhereAsked, FaultsExplained
  <2> QED
    BY <2>3, <2>4, <2>5, <2>6 DEF IInv
<1> QED
  BY <1>2, <1>3, <1>4 DEF IInv, TypeInv, InfoRecord

------------------------------------------------------------------------------
(* js_debugger_check and the peek.                                         *)

\* A function's marks are brought up to date.
LEMMA RefreshType ==
    ASSUME TypeInv, stack # <<>>, Refresh
    PROVE  /\ Head(stack).file \in Files
           /\ cache' \in [Files -> FunctionRecord]
           /\ \A f \in Files : /\ cache'[f].dirty <= info.dirty
                               /\ cache'[f].marked \subseteq 1 .. Len(Lines[f])
<1>1. Head(stack).file \in Files
  <2>1. stack \in Seq(FrameRecord)
    BY DEF TypeInv, TypeOK, FrameRecord
  <2>2. Head(stack) \in FrameRecord
    BY <2>1, TailSeq
  <2> QED
    BY <2>2 DEF FrameRecord
<1> DEFINE g == Head(stack).file
<1>2. cache' = [cache EXCEPT ![g] = Refreshed(g)]
  BY DEF Refresh
<1>3. /\ Refreshed(g) \in FunctionRecord /\ Refreshed(g).dirty = info.dirty
      /\ Refreshed(g).marked \subseteq 1 .. Len(Lines[g]) /\ info.dirty \in Nat
  BY <1>1, RefreshedType DEF TypeInv, InfoRecord
<1> HIDE DEF g
<1>4. cache'[g] = Refreshed(g) /\ \A f \in Files \ {g} : cache'[f] = cache[f]
  BY <1>1, <1>2 DEF TypeInv, g
<1> QED
  BY <1>1, <1>2, <1>3, <1>4 DEF TypeInv, TypeOK, g

\* Nothing but the cache of a function changes, and the script goes on or is peeked at.
LEMMA CheckMoves ==
    ASSUME IInv, pc = "check", pc' \in {"exec", "peek"}, pc' = "peek" => info.transport,
           info' \in InfoRecord, info'.transport = info.transport, info'.paused = info.paused,
           info'.stepDepth = info.stepDepth, info'.onException = info.onException,
           info'.dirty = info.dirty, info'.breakpoints = info.breakpoints,
           info'.buffer = info.buffer, info'.bufferLength = info.bufferLength,
           cache' = cache \/ Refresh,
           UNCHANGED <<caller, stack, left, inbox, lost, session, told, fault>>
    PROVE  IInv'
<1>1. stack # <<>>
  BY DEF IInv, ThreadInv
<1>2. /\ cache' \in [Files -> FunctionRecord]
      /\ \A f \in Files : /\ cache'[f].dirty <= info.dirty
                          /\ cache'[f].marked \subseteq 1 .. Len(Lines[f])
  <2>1. CASE cache' = cache
    BY <2>1 DEF IInv, TypeInv, TypeOK
  <2>2. CASE Refresh
    BY <1>1, <2>2, RefreshType DEF IInv
  <2> QED
    BY <2>1, <2>2
<1>3. TypeInv'
  <2>1. info'.stepping \in Resumes \cup {"no"} /\ info'.ticks \in 0 .. PeekEvery
    BY DEF InfoRecord
  <2> QED
    BY <1>2, <2>1 DEF IInv, TypeInv, TypeOK, Depth
<1>4. ThreadInv' /\ BufferInv' /\ ToldInv' /\ LeftInv'
  BY <1>1 DEF IInv, ThreadInv, BufferInv, BufferOK, HeadBody, ToldInv, LeftInv, Depth
<1>5. InspectInv'
  BY SameInbox DEF IInv
<1>6. ClientViewRight' /\ StopsWhereAsked' /\ FaultsExplained'
  BY DEF IInv, ClientViewRight, StopsWhereAsked, FaultsExplained
<1> QED
  BY <1>3, <1>4, <1>5, <1>6 DEF IInv

\* The check lets the script go on.
LEMMA GoOnKeeps ==
    ASSUME IInv, CheckDisconnected \/ CheckSkips \/ CheckPasses PROVE IInv'
<1>1. /\ pc = "check" /\ pc' = "exec" /\ (cache' = cache \/ Refresh)
      /\ UNCHANGED <<info, caller, stack, left, inbox, lost, session, told, fault>>
  BY DEF CheckDisconnected, CheckSkips, CheckPasses, Checking, scriptVars, wireVars
<1>2. info \in InfoRecord
  BY DEF IInv, TypeInv
<1>3. pc' \in {"exec", "peek"} /\ (pc' = "peek" => info.transport)
  BY <1>1
<1> QED
  BY <1>1, <1>2, <1>3, CheckMoves

\* The check stops the script.
LEMMA StopKeeps == ASSUME IInv, CheckStops PROVE IInv'
<1>1. /\ pc = "check" /\ info.transport /\ Refresh
      /\ Verdict \in {"breakpoint", "step", "stepIn", "stepOut"}
      /\ info' = [info EXCEPT !.stepping = "no", !.paused = TRUE]
      /\ told' = Verdict /\ pc' = "messages" /\ caller' = "check"
      /\ UNCHANGED <<stack, left, inbox, lost, session, fault>>
  BY DEF CheckStops, Checking, StopFor, scriptVars, wireVars
<1>2. stack # <<>>
  BY <1>1 DEF IInv, ThreadInv
<1>3. /\ info' \in InfoRecord /\ info'.transport = info.transport /\ info'.paused
      /\ info'.stepping = "no" /\ info'.stepDepth = info.stepDepth
      /\ info'.stepOver = info.stepOver /\ info'.onException = info.onException
      /\ info'.dirty = info.dirty /\ info'.ticks = info.ticks
      /\ info'.breakpoints = info.breakpoints
      /\ info'.buffer = info.buffer /\ info'.bufferLength = info.bufferLength
  BY <1>1 DEF IInv, TypeInv, InfoRecord
<1>4. TypeInv'
  BY <1>1, <1>2, <1>3, RefreshType DEF IInv, TypeInv, TypeOK, Depth, Stops
<1>5. ThreadInv' /\ BufferInv' /\ ToldInv' /\ LeftInv'
  BY <1>1, <1>2, <1>3
     DEF IInv, ThreadInv, BufferInv, BufferOK, HeadBody, ToldInv, LeftInv, Depth
<1>6. InspectInv'
  BY <1>1, SameInbox DEF IInv
<1>7. StopsWhereAsked'
  <2>1. Depth \in Nat /\ info.stepDepth \in Nat
    BY DEF IInv, TypeInv, TypeOK, InfoRecord, Depth
  <2>2. Verdict = "stepOut" => left
    BY <2>1 DEF IInv, LeftInv, Verdict
  <2>3. Verdict = "step" => left \/ (Depth = info.stepDepth /\ Location # info.stepOver)
    BY <2>1 DEF IInv, LeftInv, Verdict
  <2>4. Verdict = "stepIn" => left \/ Depth > info.stepDepth \/ Location # info.stepOver
    BY <2>1 DEF IInv, LeftInv, Verdict, AtStep
  <2>5. Depth' = Depth /\ Location' = Location
    BY <1>1 DEF Depth, Location, LineAt
  <2> QED
    BY <1>1, <1>3, <2>2, <2>3, <2>4, <2>5 DEF StopsWhereAsked
<1>8. ClientViewRight' /\ FaultsExplained'
  BY <1>1, <1>3 DEF IInv, ClientViewRight, FaultsExplained
<1> QED
  BY <1>4, <1>5, <1>6, <1>7, <1>8 DEF IInv

\* The check looks at the socket, counts, or takes a pause up again.
LEMMA GoesKeeps == ASSUME IInv, CheckGoes PROVE IInv'
<1> USE DebuggerAssumption
<1> DEFINE go == [info EXCEPT !.stepping = "no"]
<1>1. /\ pc = "check" /\ info.transport /\ Refresh /\ stack # <<>>
      /\ UNCHANGED <<stack, left, inbox, lost, session, told, fault>>
  BY DEF CheckGoes, Checking, scriptVars, wireVars, IInv, ThreadInv
<1>2. info \in InfoRecord /\ PeekEvery \in Nat
  BY DEF IInv, TypeInv
<1>6. /\ go \in InfoRecord /\ go.transport = info.transport /\ go.paused = info.paused
      /\ go.stepDepth = info.stepDepth /\ go.onException = info.onException
      /\ go.dirty = info.dirty /\ go.breakpoints = info.breakpoints /\ go.ticks = info.ticks
      /\ go.buffer = info.buffer /\ go.bufferLength = info.bufferLength
  BY <1>2 DEF InfoRecord
<1>3. CASE info.paused
  <2>1. info' = go /\ pc' = "messages" /\ caller' = "check"
    BY <1>3 DEF CheckGoes
  <2>2. /\ info' \in InfoRecord /\ info'.transport = info.transport /\ info'.paused = info.paused
        /\ info'.stepping = "no" /\ info'.stepDepth = info.stepDepth
        /\ info'.onException = info.onException
        /\ info'.dirty = info.dirty /\ info'.ticks = info.ticks
        /\ info'.breakpoints = info.breakpoints
        /\ info'.buffer = info.buffer /\ info'.bufferLength = info.bufferLength
    BY <1>2, <2>1 DEF InfoRecord
  <2>3. TypeInv'
    BY <1>1, <2>1, <2>2, RefreshType DEF IInv, TypeInv, TypeOK, Depth
  <2>4. ThreadInv' /\ BufferInv' /\ ToldInv' /\ LeftInv'
    BY <1>1, <1>3, <2>1, <2>2
       DEF IInv, ThreadInv, BufferInv, BufferOK, HeadBody, ToldInv, LeftInv, Depth
  <2>5. InspectInv'
    BY <1>1, <2>1, SameInbox DEF IInv
  <2>6. told \notin {"breakpoint", "step", "stepIn", "stepOut"}
    BY <1>1 DEF IInv, ToldInv
  <2>7. ClientViewRight' /\ StopsWhereAsked' /\ FaultsExplained'
    BY <1>1, <2>1, <2>2, <2>6 DEF IInv, ClientViewRight, StopsWhereAsked, FaultsExplained
  <2> QED
    BY <2>3, <2>4, <2>5, <2>7 DEF IInv
<1>4. CASE ~info.paused /\ info.ticks < PeekEvery /\ ~info.shouldPeek
  <2>1. info' = [go EXCEPT !.ticks = @ + 1] /\ pc' = "exec" /\ UNCHANGED caller
    BY <1>4 DEF CheckGoes
  <2>2. /\ info' \in InfoRecord /\ info'.transport = info.transport /\ info'.paused = info.paused
        /\ info'.stepDepth = info.stepDepth /\ info'.onException = info.onException
        /\ info'.dirty = info.dirty /\ info'.breakpoints = info.breakpoints
        /\ info'.buffer = info.buffer /\ info'.bufferLength = info.bufferLength
    <3> HIDE DEF go
    <3>1. go.ticks + 1 \in 0 .. PeekEvery
      BY <1>2, <1>4, <1>6 DEF InfoRecord
    <3> QED
      BY <1>6, <2>1, <3>1 DEF InfoRecord
  <2> HIDE DEF go
  <2> QED
    BY <1>1, <2>1, <2>2, CheckMoves
<1>5. CASE ~info.paused /\ ~(info.ticks < PeekEvery /\ ~info.shouldPeek)
  <2>1. info' = [go EXCEPT !.ticks = 0, !.shouldPeek = FALSE] /\ pc' = "peek" /\ UNCHANGED caller
    BY <1>5 DEF CheckGoes
  <2>2. /\ info' \in InfoRecord /\ info'.transport = info.transport /\ info'.paused = info.paused
        /\ info'.stepDepth = info.stepDepth /\ info'.onException = info.onException
        /\ info'.dirty = info.dirty /\ info'.breakpoints = info.breakpoints
        /\ info'.buffer = info.buffer /\ info'.bufferLength = info.bufferLength
    <3> HIDE DEF go
    <3>1. 0 \in 0 .. PeekEvery
      BY <1>2
    <3> QED
      BY <1>6, <2>1, <3>1 DEF InfoRecord
  <2> HIDE DEF go
  <2> QED
    BY <1>1, <2>1, <2>2, CheckMoves
<1> QED
  BY <1>3, <1>4, <1>5

\* The socket is looked at.
LEMMA PeekKeeps == ASSUME IInv, Peek PROVE IInv'
<1>1. /\ pc = "peek" /\ UNCHANGED <<info, cache, stack, left, inbox, lost, session, told, fault>>
  BY DEF Peek, scriptVars, wireVars
<1>2. \/ inbox = <<>> /\ pc' = "exec" /\ UNCHANGED caller
      \/ pc' = "messages" /\ caller' = "peek"
  BY DEF Peek
<1>3. TypeInv'
  BY <1>1, <1>2 DEF IInv, TypeInv, TypeOK, Depth
<1>4. ThreadInv' /\ BufferInv' /\ ToldInv' /\ LeftInv'
  BY <1>1, <1>2 DEF IInv, ThreadInv, BufferInv, BufferOK, HeadBody, ToldInv, LeftInv, Depth
<1>5. InspectInv'
  <2>1. CASE inbox = <<>>
    <3>1. Len(inbox) = 0
      BY <2>1
    <3> QED
      BY <1>1, <3>1 DEF InspectInv
  <2>2. CASE pc' = "messages"
    BY <1>1, <2>2, SameInbox DEF IInv, Depth
  <2> QED
    BY <1>2, <2>1, <2>2
<1>6. told \notin {"breakpoint", "step", "stepIn", "stepOut"}
  BY <1>1 DEF IInv, ToldInv, ThreadInv
<1>7. ClientViewRight' /\ StopsWhereAsked' /\ FaultsExplained'
  BY <1>1, <1>6 DEF IInv, ClientViewRight, StopsWhereAsked, FaultsExplained
<1> QED
  BY <1>3, <1>4, <1>5, <1>7 DEF IInv

------------------------------------------------------------------------------
(* js_process_debugger_messages.                                           *)

\* Where its callers go on.
LEMMA ResumedCases ==
    ASSUME IInv, pc = "messages"
    PROVE  \/ caller = "attach" /\ Resumed = "idle" /\ info.paused
           \/ caller = "exception" /\ Resumed = "unwind" /\ info.paused
           \/ caller = "peek" /\ Resumed = "peek" /\ stack # <<>>
           \/ caller = "check" /\ Resumed = "exec" /\ stack # <<>> /\ info.paused
<1>1. /\ caller \in {"attach", "exception", "peek", "check"}
      /\ caller \in {"check", "peek"} => stack # <<>>
      /\ caller # "peek" => info.paused
  BY DEF IInv, ThreadInv, TypeInv, TypeOK
<1> QED
  BY <1>1 DEF Resumed

\* Reading fails.
LEMMA FailKeeps ==
    ASSUME IInv, pc = "messages", NEW rest \in Seq(Parcels), Fail(info, rest),
           \/ lost /\ rest = <<>>
           \/ session > 1 /\ rest # <<>> /\ Head(rest).kind = "body",
           caller \in {"check", "peek"} => lost,
           UNCHANGED <<cache, caller, stack, left, lost, session, told, fault>>
    PROVE  IInv'
<1>1. info \in InfoRecord /\ info.transport /\ session \in Nat /\ session > 0 /\ fault = "none"
  BY DEF IInv, TypeInv, ThreadInv
<1>2. CASE caller \in {"attach", "exception"}
  <2>1. info' = info /\ inbox' = rest /\ pc' \in {"idle", "unwind"}
    BY <1>2, ResumedCases DEF Fail
  <2>2. told \notin {"breakpoint", "step", "stepIn", "stepOut"}
    BY <1>1, <1>2 DEF IInv, ToldInv
  <2>3. TypeInv'
    BY <2>1 DEF IInv, TypeInv, TypeOK, Depth, Parcels
  <2>4. ThreadInv' /\ ToldInv' /\ LeftInv'
    BY <1>1, <2>1, <2>2 DEF IInv, ThreadInv, ToldInv, LeftInv, Depth
  <2>5. BufferInv'
    <3>1. CASE lost /\ rest = <<>>
      <4>1. Len(inbox') = 0
        BY <2>1, <3>1
      <4> QED
        BY <1>1, <2>1, <3>1, <4>1 DEF IInv, BufferInv, BufferOK
    <3>2. CASE session > 1 /\ rest # <<>> /\ Head(rest).kind = "body"
      BY <1>1, <2>1, <3>2 DEF IInv, BufferInv, BufferOK, HeadBody
    <3> QED
      BY <3>1, <3>2
  <2>6. InspectInv'
    <3>1. CASE rest = <<>>
      <4>1. Len(inbox') = 0
        BY <2>1, <3>1
      <4> QED
        BY <4>1 DEF InspectInv
    <3>2. CASE rest # <<>> /\ Head(rest).kind = "body"
      BY <2>1, <3>2 DEF InspectInv, HeadBody
    <3> QED
      BY <3>1, <3>2
  <2>7. ClientViewRight' /\ StopsWhereAsked' /\ FaultsExplained'
    BY <1>1, <2>1 DEF IInv, ClientViewRight, StopsWhereAsked, FaultsExplained
  <2> QED
    BY <2>3, <2>4, <2>5, <2>6, <2>7 DEF IInv
<1>3. CASE caller \in {"peek", "check"}
  <2>1. info' = Freed(info) /\ inbox' = <<>> /\ pc' = "exec" /\ lost /\ stack # <<>>
    BY <1>3, ResumedCases DEF Fail
  <2>2. /\ info' \in InfoRecord /\ ~info'.transport /\ info'.stepping = info.stepping
        /\ info'.stepDepth = info.stepDepth /\ info'.dirty = info.dirty
        /\ info'.ticks = info.ticks /\ info.dirty \in Nat
        /\ \A f \in Paths : info'.breakpoints[f].dirty \in {0, info.breakpoints[f].dirty}
    BY <1>1, <2>1, FreedInfo DEF InfoRecord
  <2>3. Len(inbox') = 0 /\ inbox' \in Seq(Messages \cup [kind : {"body"}])
    BY <2>1
  <2>4. \A f \in Files : info'.breakpoints[f].dirty <= info'.dirty
    <3>1. \A f \in Files : f \in Paths /\ info.breakpoints[f].dirty <= info.dirty
      BY DebuggerAssumption DEF IInv, TypeInv, TypeOK
    <3> QED
      BY <2>2, <3>1
  <2>5. TypeInv'
    BY <2>1, <2>2, <2>3, <2>4 DEF IInv, TypeInv, TypeOK, Depth
  <2>6. ThreadInv' /\ ToldInv' /\ LeftInv' /\ BufferInv' /\ InspectInv'
    BY <1>1, <2>1, <2>2, <2>3
       DEF IInv, ThreadInv, ToldInv, LeftInv, Depth, BufferInv, InspectInv
  <2>7. ClientViewRight' /\ StopsWhereAsked' /\ FaultsExplained'
    BY <1>1, <2>1, <2>2 DEF ClientViewRight, StopsWhereAsked, FaultsExplained
  <2> QED
    BY <2>5, <2>6, <2>7 DEF IInv
<1> QED
  BY <1>2, <1>3, ResumedCases

\* The stream ends.
LEMMA EndKeeps == ASSUME IInv, ReadEnd PROVE IInv'
<1>1. /\ pc = "messages" /\ lost /\ Fail(info, <<>>)
      /\ UNCHANGED <<cache, caller, stack, left, lost, session, told, fault>>
  BY DEF ReadEnd, scriptVars
<1>2. <<>> \in Seq(Parcels)
  OBVIOUS
<1> QED
  BY <1>1, <1>2, FailKeeps

\* A message meets the freed buffer.
LEMMA NoBufferKeeps == ASSUME IInv, ReadNoBuffer PROVE IInv'
<1> DEFINE body == [kind |-> "body"]
<1> DEFINE rest == <<body>> \o Tail(inbox)
<1>1. /\ pc = "messages" /\ inbox # <<>> /\ ~HeadBody /\ Fail(info, rest)
      /\ ~Buffered(Head(inbox)).buffer
      /\ UNCHANGED <<cache, caller, stack, left, lost, session, told, fault>>
  BY DEF ReadNoBuffer, scriptVars, HeadBody
<1>2. inbox \in Seq(Parcels) /\ body \in Parcels
  BY DEF IInv, TypeInv, TypeOK, Parcels
<1>3. Tail(inbox) \in Seq(Parcels)
  BY <1>1, <1>2, TailSeq
<1>4. rest \in Seq(Parcels) /\ rest # <<>> /\ Head(rest) = body
  <2> HIDE DEF body
  <2> QED
    BY <1>2, <1>3, ConsSeq
<1>5. ~BufferOK
  BY <1>1, BufferedInfo DEF IInv, TypeInv
<1>6. info.transport /\ session \in Nat /\ session > 0
  BY <1>1 DEF IInv, TypeInv, ThreadInv
<1>7. session > 1 /\ (lost \/ caller = "attach")
  BY <1>1, <1>5, <1>6 DEF IInv, BufferInv
<1>8. Head(rest).kind = "body"
  BY <1>4
<1> HIDE DEF rest
<1> QED
  BY <1>1, <1>4, <1>7, <1>8, FailKeeps

\* The body left on the wire is taken for a length.
LEMMA BodyKeeps == ASSUME IInv, ReadBody PROVE IInv'
<1>1. /\ pc = "messages" /\ inbox # <<>> /\ Head(inbox).kind = "body"
      /\ pc' = "aborted" /\ fault' = "length"
      /\ UNCHANGED <<info, cache, caller, stack, left, inbox, lost, session, told>>
  BY DEF ReadBody, Abort, scriptVars, wireVars
<1>2. inbox \in Seq(Parcels) /\ session \in Nat
  BY DEF IInv, TypeInv, TypeOK, Parcels
<1>3. session > 1
  BY <1>1, <1>2, TailSeq DEF IInv, BufferInv
<1>4. TypeInv'
  BY <1>1 DEF IInv, TypeInv, TypeOK, Depth
<1>5. ThreadInv' /\ ToldInv' /\ LeftInv' /\ BufferInv'
  BY <1>1, <1>2, <1>3
     DEF IInv, ThreadInv, ToldInv, LeftInv, Depth, BufferInv, BufferOK, HeadBody
<1>6. InspectInv'
  BY <1>1, SameInbox DEF IInv, Depth
<1>7. ClientViewRight' /\ StopsWhereAsked' /\ FaultsExplained'
  BY <1>1, <1>3 DEF IInv, ClientViewRight, StopsWhereAsked, FaultsExplained
<1> QED
  BY <1>4, <1>5, <1>6, <1>7 DEF IInv

\* The first message of the inbox is taken.
LEMMA ReadingFacts ==
    ASSUME IInv, NEW m \in Messages, Reading(m)
    PROVE  /\ pc = "messages" /\ info.transport /\ info \in InfoRecord /\ ~HeadBody
           /\ Buffered(m).buffer /\ fault = "none" /\ session \in Nat \ {0}
           /\ inbox' \in Seq(Parcels) /\ inbox[1] = m /\ 1 \in 1 .. Len(inbox)
           /\ Len(inbox') \in Nat
           /\ \A i \in 1 .. Len(inbox') : inbox'[i] = inbox[i + 1] /\ i + 1 \in 1 .. Len(inbox)
<1>1. /\ pc = "messages" /\ inbox # <<>> /\ m = Head(inbox) /\ m.kind # "body"
      /\ Buffered(m).buffer /\ inbox' = Tail(inbox)
  BY DEF Reading
<1>2. inbox \in Seq(Parcels)
  BY DEF IInv, TypeInv, TypeOK, Parcels
<1>3. /\ inbox' \in Seq(Parcels) /\ inbox[1] = m /\ 1 \in 1 .. Len(inbox)
      /\ \A i \in 1 .. Len(inbox') : inbox'[i] = inbox[i + 1] /\ i + 1 \in 1 .. Len(inbox)
  BY <1>1, <1>2, TailSeq
<1>4. Len(inbox') \in Nat
  BY <1>3
<1>5. info.transport /\ info \in InfoRecord /\ fault = "none" /\ session \in Nat \ {0}
  BY <1>1 DEF IInv, TypeInv, ThreadInv
<1> QED
  BY <1>1, <1>3, <1>4, <1>5 DEF HeadBody

\* What was sent with a message behind the one that is read stays right.
LEMMA InspectTail ==
    ASSUME IInv, NEW m \in Messages, Reading(m), Depth' = Depth,
           \/ m.kind \in Resumes \cup {"bareContinue"}
           \/ pc' \in {"messages", "peek", "aborted"}
    PROVE  InspectInv'
<1> SUFFICES ASSUME NEW i \in 1 .. Len(inbox'), inbox'[i].kind = "inspect", ~inbox'[i].late
             PROVE  /\ inbox'[i].frame < Depth'
                    /\ pc' \in {"messages", "peek", "aborted"}
                    /\ \A j \in 1 .. i : inbox'[j].kind \notin Resumes \cup {"bareContinue"}
  BY DEF InspectInv
<1>1. /\ ~HeadBody /\ inbox[1] = m /\ 1 \in 1 .. Len(inbox) /\ Len(inbox') \in Nat
      /\ \A k \in 1 .. Len(inbox') : inbox'[k] = inbox[k + 1] /\ k + 1 \in 1 .. Len(inbox)
  BY ReadingFacts
<1>2. /\ inbox[i + 1].frame < Depth
      /\ \A j \in 1 .. i + 1 : inbox[j].kind \notin Resumes \cup {"bareContinue"}
  BY <1>1 DEF IInv, InspectInv
<1>3. m.kind \notin Resumes \cup {"bareContinue"}
  BY <1>1, <1>2
<1>4. ASSUME NEW j \in 1 .. i PROVE inbox'[j].kind \notin Resumes \cup {"bareContinue"}
  <2>1. j \in 1 .. Len(inbox') /\ j + 1 \in 1 .. i + 1
    BY <1>1
  <2> QED
    BY <1>1, <1>2, <2>1
<1> QED
  BY <1>1, <1>2, <1>3, <1>4

\* A message is processed.
LEMMA ProcessedKeeps ==
    ASSUME IInv, NEW m \in Messages, Reading(m), Processed(info'),
           info' \in InfoRecord, info'.transport = info.transport, info'.buffer,
           \A f \in Files : /\ cache[f].dirty <= info'.dirty
                            /\ info'.breakpoints[f].dirty <= info'.dirty,
           \/ /\ m.kind \in Resumes \cup {"bareContinue"}
              /\ ~info'.paused /\ told' = "running"
              /\ left' \in BOOLEAN /\ (Depth < info'.stepDepth => left')
           \/ /\ info'.stepDepth = info.stepDepth /\ info'.stepOver = info.stepOver
              /\ left' = left
              /\ \/ info'.paused /\ told' = "pause"
                 \/ info'.paused = info.paused /\ told' = told,
           UNCHANGED <<cache, caller, stack, lost, session, fault>>
    PROVE  IInv'
<1>1. /\ pc = "messages" /\ info.transport /\ ~HeadBody
      /\ fault = "none" /\ session \in Nat \ {0}
      /\ inbox' \in Seq(Parcels) /\ inbox[1] = m /\ 1 \in 1 .. Len(inbox)
      /\ \A i \in 1 .. Len(inbox') : inbox'[i] = inbox[i + 1] /\ i + 1 \in 1 .. Len(inbox)
  BY ReadingFacts
<1>2. pc' = IF info'.paused THEN "messages" ELSE Resumed
  BY DEF Processed
<1>3. Depth' = Depth /\ Location' = Location
  BY DEF Depth, Location, LineAt
<1>4. TypeInv'
  <2>1. pc' \in {"idle", "check", "exec", "unwind", "peek", "messages", "aborted"}
    BY <1>1, <1>2, ResumedCases
  <2>2. told' \in Stops \cup {"running"} /\ left' \in BOOLEAN
    BY DEF IInv, TypeInv, TypeOK, Stops
  <2>3. info'.stepping \in Resumes \cup {"no"} /\ info'.ticks \in 0 .. PeekEvery
    BY DEF InfoRecord
  <2>4. TypeOK'
    BY <1>1, <1>3, <2>1, <2>2, <2>3 DEF IInv, TypeInv, TypeOK, Parcels
  <2> QED
    BY <2>2, <2>4 DEF IInv, TypeInv
<1>5. ThreadInv'
  BY <1>1, <1>2, ResumedCases DEF IInv, ThreadInv
<1>6. BufferInv'
  <2>1. session <= 1 => \A i \in 1 .. Len(inbox') : inbox'[i].kind # "body"
    BY <1>1 DEF IInv, BufferInv
  <2> QED
    BY <1>1, <2>1 DEF BufferInv, BufferOK
<1>7. InspectInv'
  <2>1. \/ m.kind \in Resumes \cup {"bareContinue"}
        \/ info'.paused \/ info'.paused = info.paused
    OBVIOUS
  <2>2. \/ m.kind \in Resumes \cup {"bareContinue"}
        \/ pc' \in {"messages", "peek", "aborted"}
    BY <1>1, <1>2, <2>1, ResumedCases
  <2> QED
    BY <1>3, <2>2, InspectTail
<1>8. ToldInv'
  BY <1>1, <1>2, ResumedCases DEF IInv, ToldInv
<1>9. LeftInv'
  BY <1>3 DEF IInv, LeftInv
<1>10. ClientViewRight' /\ FaultsExplained'
  BY <1>1 DEF IInv, ClientViewRight, FaultsExplained
<1>11. StopsWhereAsked'
  BY <1>1, <1>3 DEF IInv, StopsWhereAsked
<1> QED
  BY <1>4, <1>5, <1>6, <1>7, <1>8, <1>9, <1>10, <1>11 DEF IInv

\* continue, next, stepIn and stepOut.
LEMMA ResumeKeeps == ASSUME IInv, NEW m \in Messages, Resume(m) PROVE IInv'
<1> DEFINE i == Buffered(m)
<1>1. /\ Reading(m) /\ m.kind \in Resumes \cup {"bareContinue"}
      /\ told' = "running" /\ left' = (IF m.kind = "bareContinue" THEN left ELSE FALSE)
      /\ info' = IF m.kind = "bareContinue" THEN [i EXCEPT !.paused = FALSE]
                 ELSE [i EXCEPT !.stepping = m.kind, !.stepOver = Location,
                                !.stepDepth = Depth, !.paused = FALSE]
      /\ pc' = IF info'.paused THEN "messages" ELSE Resumed
      /\ UNCHANGED <<cache, caller, stack, lost, session, fault>>
  BY DEF Resume, Processed
<1>2. info \in InfoRecord /\ i.buffer
  BY <1>1, ReadingFacts
<1>3. /\ i \in InfoRecord /\ i.transport = info.transport /\ i.stepDepth = info.stepDepth
      /\ i.dirty = info.dirty /\ i.breakpoints = info.breakpoints
  BY <1>2, BufferedInfo
<1> HIDE DEF i
<1>4. Location \in [file : Files \cup {"none"}, line : Nat] /\ Depth \in Nat
  BY LocationType DEF IInv, TypeInv, TypeOK, Depth
<1>5. /\ info' \in InfoRecord /\ info'.transport = info.transport /\ info'.buffer
      /\ ~info'.paused /\ info'.dirty = info.dirty /\ info'.breakpoints = info.breakpoints
      /\ info'.stepDepth = IF m.kind = "bareContinue" THEN info.stepDepth ELSE Depth
  <2>1. CASE m.kind = "bareContinue"
    BY <1>1, <1>2, <1>3, <2>1 DEF InfoRecord
  <2>2. CASE m.kind # "bareContinue"
    BY <1>1, <1>2, <1>3, <1>4, <2>2 DEF InfoRecord
  <2> QED
    BY <2>1, <2>2
<1>6. left' \in BOOLEAN /\ (Depth < info'.stepDepth => left')
  <2>1. left \in BOOLEAN /\ (Depth < info.stepDepth => left)
    BY DEF IInv, TypeInv, LeftInv
  <2>2. m.kind # "bareContinue" => ~(Depth < info'.stepDepth)
    BY <1>4, <1>5
  <2>3. m.kind = "bareContinue" => info'.stepDepth = info.stepDepth /\ left' = left
    BY <1>1, <1>5
  <2> QED
    BY <1>1, <2>1, <2>2, <2>3
<1>7. \A f \in Files : cache[f].dirty <= info'.dirty /\ info'.breakpoints[f].dirty <= info'.dirty
  BY <1>5 DEF IInv, TypeInv, TypeOK
<1>8. Processed(info')
  BY <1>1 DEF Processed
<1> QED
  BY <1>1, <1>5, <1>6, <1>7, <1>8, ProcessedKeeps

\* pause.
LEMMA PauseKeeps == ASSUME IInv, NEW m \in Messages, Pause(m) PROVE IInv'
<1> DEFINE i == Buffered(m)
<1>1. /\ Reading(m) /\ told' = "pause" /\ info' = [i EXCEPT !.paused = TRUE]
      /\ Processed([i EXCEPT !.paused = TRUE])
      /\ UNCHANGED <<cache, caller, stack, left, lost, session, fault>>
  BY DEF Pause, Processed, scriptVars
<1>2. info \in InfoRecord /\ i.buffer
  BY <1>1, ReadingFacts
<1>3. /\ i \in InfoRecord /\ i.transport = info.transport /\ i.stepDepth = info.stepDepth
      /\ i.stepOver = info.stepOver
      /\ i.dirty = info.dirty /\ i.breakpoints = info.breakpoints
  BY <1>2, BufferedInfo
<1> HIDE DEF i
<1>4. /\ info' \in InfoRecord /\ info'.transport = info.transport /\ info'.buffer
      /\ info'.paused /\ info'.dirty = info.dirty /\ info'.breakpoints = info.breakpoints
      /\ info'.stepDepth = info.stepDepth /\ info'.stepOver = info.stepOver
  BY <1>1, <1>2, <1>3 DEF InfoRecord
<1>5. \A f \in Files : cache[f].dirty <= info'.dirty /\ info'.breakpoints[f].dirty <= info'.dirty
  BY <1>4 DEF IInv, TypeInv, TypeOK
<1>6. Processed(info')
  BY <1>1
<1> QED
  BY <1>1, <1>4, <1>5, <1>6, ProcessedKeeps

\* What js_process_breakpoints leaves.
LEMMA SetBreakpointsFacts ==
    ASSUME IInv, NEW m \in Messages, SetBreakpoints(m)
    PROVE  /\ Reading(m) /\ m.file \in Paths /\ m.lines \in SUBSET Nat
           /\ info' \in InfoRecord /\ info'.transport = info.transport /\ info'.buffer
           /\ info'.paused = info.paused /\ info'.dirty = info.dirty + 1
           /\ info'.stepDepth = info.stepDepth /\ info'.stepOver = info.stepOver
           /\ info'.breakpoints[m.file] = [dirty |-> info.dirty + 1, lines |-> m.lines]
           /\ \A f \in Paths \ {m.file} : info'.breakpoints[f] = info.breakpoints[f]
<1> DEFINE i == Buffered(m)
<1> DEFINE entry == [dirty |-> info.dirty + 1, lines |-> m.lines]
<1>1. /\ Reading(m) /\ m.kind = "breakpoints"
      /\ info' = [i EXCEPT !.dirty = @ + 1, !.breakpoints[m.file] = entry]
  BY DEF SetBreakpoints, Processed
<1>2. info \in InfoRecord /\ i.buffer
  BY <1>1, ReadingFacts
<1>3. /\ i \in InfoRecord /\ i.transport = info.transport /\ i.stepDepth = info.stepDepth
      /\ i.stepOver = info.stepOver /\ i.paused = info.paused
      /\ i.dirty = info.dirty /\ i.breakpoints = info.breakpoints
  BY <1>2, BufferedInfo
<1>4. m.file \in Paths /\ m.lines \in SUBSET Nat
  BY <1>1, MessageFields, DebuggerAssumption
<1>5. info.dirty + 1 \in Nat /\ info.breakpoints \in [Paths -> PathBreakpoints]
  BY <1>2 DEF InfoRecord
<1>6. entry \in PathBreakpoints
  BY <1>4, <1>5 DEF PathBreakpoints
<1> HIDE DEF i, entry
<1> DEFINE table == [info.breakpoints EXCEPT ![m.file] = entry]
<1>7. /\ table \in [Paths -> PathBreakpoints] /\ table[m.file] = entry
      /\ \A f \in Paths \ {m.file} : table[f] = info.breakpoints[f]
  BY <1>4, <1>5, <1>6
<1>8. info' = [i EXCEPT !.dirty = info.dirty + 1, !.breakpoints = table]
  BY <1>1, <1>3
<1> HIDE DEF table
<1>9. /\ info' \in InfoRecord /\ info'.transport = info.transport /\ info'.buffer
      /\ info'.paused = info.paused /\ info'.dirty = info.dirty + 1
      /\ info'.stepDepth = info.stepDepth /\ info'.stepOver = info.stepOver
      /\ info'.breakpoints = table
  BY <1>2, <1>3, <1>5, <1>7, <1>8 DEF InfoRecord
<1> QED
  BY <1>1, <1>4, <1>7, <1>9 DEF entry

\* A file's breakpoints are replaced.
LEMMA SetBreakpointsKeeps == ASSUME IInv, NEW m \in Messages, SetBreakpoints(m) PROVE IInv'
<1>1. /\ told' = told /\ Processed(info')
      /\ UNCHANGED <<cache, caller, stack, left, lost, session, fault>>
  BY DEF SetBreakpoints, Processed, scriptVars
<1>2. /\ Reading(m) /\ m.file \in Paths
      /\ info' \in InfoRecord /\ info'.transport = info.transport /\ info'.buffer
      /\ info'.paused = info.paused /\ info'.dirty = info.dirty + 1
      /\ info'.stepDepth = info.stepDepth /\ info'.stepOver = info.stepOver
      /\ info'.breakpoints[m.file] = [dirty |-> info.dirty + 1, lines |-> m.lines]
      /\ \A f \in Paths \ {m.file} : info'.breakpoints[f] = info.breakpoints[f]
  BY SetBreakpointsFacts
<1>3. /\ info.dirty \in Nat
      /\ \A f \in Files : /\ f \in Paths
                          /\ cache[f].dirty \in Nat /\ info.breakpoints[f].dirty \in Nat
                          /\ cache[f].dirty <= info.dirty
                          /\ info.breakpoints[f].dirty <= info.dirty
  BY DebuggerAssumption DEF IInv, TypeInv, TypeOK, InfoRecord, PathBreakpoints, FunctionRecord
<1>4. \A f \in Files : cache[f].dirty <= info'.dirty /\ info'.breakpoints[f].dirty <= info'.dirty
  BY <1>2, <1>3
<1> QED
  BY <1>1, <1>2, <1>4, ProcessedKeeps

\* stopOnException.
LEMMA StopOnExceptionKeeps == ASSUME IInv, NEW m \in Messages, StopOnException(m) PROVE IInv'
<1> DEFINE i == Buffered(m)
<1>1. /\ Reading(m) /\ m.kind = "stopOnException" /\ told' = told
      /\ info' = [i EXCEPT !.onException = m.on] /\ Processed([i EXCEPT !.onException = m.on])
      /\ UNCHANGED <<cache, caller, stack, left, lost, session, fault>>
  BY DEF StopOnException, Processed, scriptVars
<1>2. info \in InfoRecord /\ i.buffer /\ m.on \in BOOLEAN
  BY <1>1, ReadingFacts, MessageFields
<1>3. /\ i \in InfoRecord /\ i.transport = info.transport /\ i.stepDepth = info.stepDepth
      /\ i.stepOver = info.stepOver /\ i.paused = info.paused
      /\ i.dirty = info.dirty /\ i.breakpoints = info.breakpoints
  BY <1>2, BufferedInfo
<1> HIDE DEF i
<1>4. /\ info' \in InfoRecord /\ info'.transport = info.transport /\ info'.buffer
      /\ info'.paused = info.paused /\ info'.dirty = info.dirty
      /\ info'.breakpoints = info.breakpoints
      /\ info'.stepDepth = info.stepDepth /\ info'.stepOver = info.stepOver
  BY <1>1, <1>2, <1>3 DEF InfoRecord
<1>5. \A f \in Files : cache[f].dirty <= info'.dirty /\ info'.breakpoints[f].dirty <= info'.dirty
  BY <1>4 DEF IInv, TypeInv, TypeOK
<1>6. Processed(info')
  BY <1>1
<1> QED
  BY <1>1, <1>4, <1>5, <1>6, ProcessedKeeps

\* A frame is inspected: it is there, or the client had asked to resume.
LEMMA InspectKeeps == ASSUME IInv, NEW m \in Messages, Inspect(m) PROVE IInv'
<1>1. /\ Reading(m) /\ m.kind = "inspect" /\ told' = told
      /\ UNCHANGED <<cache, caller, stack, left, lost, session>>
  BY DEF Inspect, scriptVars
<1>2. /\ info \in InfoRecord /\ Buffered(m).buffer /\ pc = "messages" /\ info.transport
      /\ ~HeadBody /\ inbox[1] = m /\ 1 \in 1 .. Len(inbox)
      /\ inbox' \in Seq(Parcels) /\ session \in Nat \ {0} /\ m.late \in BOOLEAN
      /\ \A i \in 1 .. Len(inbox') : inbox'[i] = inbox[i + 1] /\ i + 1 \in 1 .. Len(inbox)
  BY <1>1, ReadingFacts, MessageFields
<1>3. CASE m.frame < Depth
  <2> DEFINE i == Buffered(m)
  <2>1. info' = i /\ Processed(info') /\ UNCHANGED fault
    BY <1>3 DEF Inspect, Processed
  <2>2. /\ i \in InfoRecord /\ i.transport = info.transport /\ i.stepDepth = info.stepDepth
        /\ i.stepOver = info.stepOver /\ i.paused = info.paused
        /\ i.dirty = info.dirty /\ i.breakpoints = info.breakpoints
    BY <1>2, BufferedInfo
  <2>3. i.buffer
    BY <1>2
  <2> HIDE DEF i
  <2>4. \A f \in Files : cache[f].dirty <= info'.dirty /\ info'.breakpoints[f].dirty <= info'.dirty
    BY <2>1, <2>2 DEF IInv, TypeInv, TypeOK
  <2> QED
    BY <1>1, <2>1, <2>2, <2>3, <2>4, ProcessedKeeps
<1>4. CASE ~(m.frame < Depth)
  <2>1. m.late
    BY <1>1, <1>2, <1>4 DEF IInv, InspectInv
  <2>2. fault' = "lateFrame" /\ pc' = "aborted" /\ UNCHANGED info
    BY <1>4, <2>1 DEF Inspect, Abort
  <2>3. BufferOK
    <3>1. Length(m) = 1 /\ info.bufferLength \in Nat
      BY <1>1, <1>2 DEF Length, InfoRecord
    <3> QED
      BY <1>2, <3>1 DEF Buffered, BufferOK
  <2>4. TypeInv'
    BY <1>1, <1>2, <2>2 DEF IInv, TypeInv, TypeOK, Depth, Parcels
  <2>5. ThreadInv' /\ ToldInv' /\ LeftInv'
    BY <1>1, <2>2 DEF IInv, ThreadInv, ToldInv, LeftInv, Depth
  <2>6. BufferInv'
    <3>1. session <= 1 => \A i \in 1 .. Len(inbox') : inbox'[i].kind # "body"
      BY <1>2 DEF IInv, BufferInv
    <3> QED
      BY <1>1, <1>2, <2>2, <2>3, <3>1 DEF BufferInv, BufferOK
  <2>7. InspectInv'
    <3>1. Depth' = Depth
      BY <1>1 DEF Depth
    <3> QED
      BY <1>1, <2>2, <3>1, InspectTail
  <2>8. ClientViewRight' /\ StopsWhereAsked' /\ FaultsExplained'
    BY <1>1, <2>2 DEF IInv, ClientViewRight, StopsWhereAsked, FaultsExplained
  <2> QED
    BY <2>4, <2>5, <2>6, <2>7, <2>8 DEF IInv
<1> QED
  BY <1>3, <1>4

------------------------------------------------------------------------------
(* The specification.                                                      *)

\* Every step of the debugger, the script and the client keeps the invariant.
LEMMA NextIInv == IInv /\ [Next]_vars => IInv'
<1> SUFFICES ASSUME IInv, [Next]_vars PROVE IInv'
  OBVIOUS
<1>1. CASE LoseClient
  BY <1>1, LoseKeeps
<1>2. CASE Attach
  BY <1>2, AttachKeeps
<1>3. CASE Cooperate
  BY <1>3, CooperateKeeps
<1>4. CASE Call
  BY <1>4, CallKeeps
<1>5. ASSUME NEW m \in Messages, Send(m) PROVE IInv'
  BY <1>5, SendKeeps
<1>6. CASE Script
  BY <1>6, CallKeeps, OpcodeKeeps, ReturnKeeps, ThrowKeeps, UnwindKeeps DEF Script
<1>7. CASE Check
  BY <1>7, GoOnKeeps, StopKeeps, GoesKeeps DEF Check
<1>8. CASE Peek
  BY <1>8, PeekKeeps
<1>9. CASE ReadMessage
  BY <1>9, EndKeeps, NoBufferKeeps, BodyKeeps, ResumeKeeps, PauseKeeps, SetBreakpointsKeeps,
     StopOnExceptionKeeps, InspectKeeps DEF ReadMessage
<1>10. CASE UNCHANGED vars
  <2>1. UNCHANGED <<info, cache, pc, caller, stack, left, inbox, lost, session, told, fault>>
    BY <1>10 DEF vars
  <2>2. TypeInv'
    BY <2>1 DEF IInv, TypeInv, TypeOK, Depth
  <2>3. ThreadInv' /\ BufferInv' /\ InspectInv' /\ ToldInv' /\ LeftInv'
    BY <2>1
       DEF IInv, ThreadInv, BufferInv, BufferOK, HeadBody, InspectInv, ToldInv, LeftInv, Depth
  <2>4. ClientViewRight' /\ StopsWhereAsked' /\ FaultsExplained'
    BY <2>1 DEF IInv, ClientViewRight, StopsWhereAsked, FaultsExplained, Depth, Location, LineAt
  <2> QED
    BY <2>2, <2>3, <2>4 DEF IInv
<1> QED
  BY <1>1, <1>2, <1>3, <1>4, <1>5, <1>6, <1>7, <1>8, <1>9, <1>10 DEF Next

\* The inductive invariant of the debugger.
THEOREM Inductive == Spec => []IInv
  BY InitIInv, NextIInv, PTL DEF Spec

\* JSDebuggerInfo and JSDebuggerFunctionInfo keep their kinds and limits, whatever the
\* client sends.
THEOREM TypeCorrect == Spec => []TypeOK
<1>1. IInv => TypeOK
  BY DEF IInv, TypeInv
<1> QED
  BY <1>1, Inductive, PTL

\* js_send_stopped_event and the answers to resuming requests: a first client believes
\* the script stopped exactly while it is, however messages and stops cross.
THEOREM ClientView == Spec => []ClientViewRight
<1>1. IInv => ClientViewRight
  BY DEF IInv
<1> QED
  BY <1>1, Inductive, PTL

\* The depths js_debugger_check compares stand for the frames the client asked about.
THEOREM StepSafety == Spec => []StopsWhereAsked
<1>1. IInv => StopsWhereAsked
  BY DEF IInv
<1> QED
  BY <1>1, Inductive, PTL

\* quickjs-debugger.c's assertions on a message's length and on a frame, and the null
\* context of js_debugger_exception, are reached only in the ways FaultsExplained names.
THEOREM FaultSafety == Spec => []FaultsExplained
<1>1. IInv => FaultsExplained
  BY DEF IInv
<1> QED
  BY <1>1, Inductive, PTL

------------------------------------------------------------------------------
(* Breakpoints.                                                            *)

\* Lines beyond the last of a rising table, which js_debugger_check_breakpoint skips,
\* mark nothing.
LEMMA MarkedFiltered ==
    ASSUME Rising, NEW f \in Files, NEW L \in SUBSET Nat,
           NEW last \in {0, Lines[f][Len(Lines[f])]},
           NEW K, K \subseteq L, \A b \in L : b \in K <=> last = 0 \/ b <= last
    PROVE  Marked(f, K) = Marked(f, L)
<1>1. Lines[f] \in Seq(Nat) /\ Len(Lines[f]) \in Nat
  BY DebuggerAssumption
<1>2. ASSUME NEW i \in 1 .. Len(Lines[f]) - 1
      PROVE  Lines[f][i] \in L <=> Lines[f][i] \in K
  <2>1. i \in 1 .. Len(Lines[f])
    BY <1>1
  <2>2. Lines[f][i] <= Lines[f][Len(Lines[f])]
    BY <2>1 DEF Rising
  <2> QED
    BY <2>2
<1> QED
  BY <1>2 DEF Marked

\* A function brought up to date has the marks of its file's breakpoints.
LEMMA RefreshedMarks ==
    ASSUME Rising, IInv, CacheInv, session = 1, info.transport, NEW f \in Files
    PROVE  /\ Refreshed(f).marked = Marked(f, info.breakpoints[f].lines)
           /\ Refreshed(f).lastLine \in {0, Lines[f][Len(Lines[f])]}
<1>1. /\ info.breakpoints[f].dirty <= cache[f].dirty =>
            cache[f].marked = Marked(f, info.breakpoints[f].lines)
      /\ cache[f].lastLine \in {0, Lines[f][Len(Lines[f])]}
  BY DEF CacheInv
<1>2. f \in Paths /\ info \in InfoRecord /\ cache[f] \in FunctionRecord
  BY DebuggerAssumption DEF IInv, TypeInv
<1>3. info.breakpoints[f] \in PathBreakpoints
  BY <1>2 DEF InfoRecord
<1>4. /\ info.breakpoints[f].dirty \in Nat /\ info.breakpoints[f].lines \in SUBSET Nat
      /\ cache[f].dirty \in Nat /\ info.breakpoints[f].dirty <= info.dirty
  BY <1>2, <1>3 DEF IInv, TypeInv, TypeOK, PathBreakpoints, FunctionRecord
<1>5. CASE cache[f].dirty = info.dirty
  BY <1>1, <1>4, <1>5 DEF Refreshed
<1>6. CASE cache[f].dirty # info.dirty /\ info.breakpoints[f].dirty \in {0, cache[f].dirty}
  <2>1. Refreshed(f) = [cache[f] EXCEPT !.dirty = info.dirty]
    BY <1>6 DEF Refreshed
  <2>2. Refreshed(f).marked = cache[f].marked /\ Refreshed(f).lastLine = cache[f].lastLine
    BY <1>2, <2>1 DEF FunctionRecord
  <2>3. info.breakpoints[f].dirty <= cache[f].dirty
    BY <1>4, <1>6
  <2> QED
    BY <1>1, <2>2, <2>3
<1>7. CASE cache[f].dirty # info.dirty /\ info.breakpoints[f].dirty \notin {0, cache[f].dirty}
  <2> DEFINE known == {b \in info.breakpoints[f].lines :
                          cache[f].lastLine = 0 \/ b <= cache[f].lastLine}
  <2>1. /\ Refreshed(f).marked = Marked(f, known)
        /\ Refreshed(f).lastLine \in {cache[f].lastLine, Lines[f][Len(Lines[f])]}
    BY <1>7 DEF Refreshed, Rescanned
  <2>2. Marked(f, known) = Marked(f, info.breakpoints[f].lines)
    <3>1. known \subseteq info.breakpoints[f].lines
      BY Zenon
    <3>2. \A b \in info.breakpoints[f].lines :
             b \in known <=> cache[f].lastLine = 0 \/ b <= cache[f].lastLine
      BY Zenon
    <3> HIDE DEF known
    <3> QED
      BY <1>1, <1>4, <3>1, <3>2, MarkedFiltered
  <2> QED
    BY <1>1, <2>1, <2>2
<1> QED
  BY <1>5, <1>6, <1>7

\* Steps that touch neither breakpoints nor marks.
LEMMA SameCache ==
    ASSUME CacheInv, session' = session, cache' = cache,
           info'.breakpoints = info.breakpoints, info'.transport = info.transport
    PROVE  CacheInv'
  BY DEF CacheInv

\* The check brings the function it is in up to date.
LEMMA RefreshCache ==
    ASSUME Rising, IInv, CacheInv, pc = "check", info.transport,
           session' = session, Refresh, info'.breakpoints = info.breakpoints
    PROVE  CacheInv'
<1> SUFFICES ASSUME session = 1, NEW f \in Files
             PROVE  /\ info.breakpoints[f].dirty <= cache'[f].dirty =>
                          cache'[f].marked = Marked(f, info.breakpoints[f].lines)
                    /\ cache'[f].lastLine \in {0, Lines[f][Len(Lines[f])]}
  <2>1. session # 0
    BY DEF IInv, ThreadInv
  <2> QED
    BY <2>1 DEF CacheInv
<1>1. stack # <<>> /\ TypeInv
  BY DEF IInv, ThreadInv
<1>2. Head(stack).file \in Files
  BY <1>1, RefreshType
<1>3. cache'[f] \in {cache[f], Refreshed(f)}
  BY <1>1, <1>2 DEF Refresh, TypeInv
<1> QED
  BY <1>3, RefreshedMarks DEF CacheInv

\* The debugger is freed.
LEMMA FreedCache ==
    ASSUME IInv, CacheInv, pc = "messages", NEW rest, Fail(info, rest),
           cache' = cache, session' = session
    PROVE  CacheInv'
<1>1. CASE info' = info
  BY <1>1, SameCache
<1>2. CASE info' = Freed(info)
  <2>1. info \in InfoRecord /\ session # 0
    BY DEF IInv, TypeInv, ThreadInv
  <2>2. ~info'.transport
    BY <1>2, <2>1, FreedInfo
  <2> QED
    BY <2>1, <2>2 DEF CacheInv
<1> QED
  BY <1>1, <1>2 DEF Fail

\* Every step keeps the marks right.
LEMMA NextCache == ASSUME Rising, IInv, CacheInv, [Next]_vars PROVE CacheInv'
<1>1. info \in InfoRecord
  BY DEF IInv, TypeInv
<1>2. CASE Attach
  <2>1. session' = session + 1 /\ cache' = cache /\ session \in Nat
        /\ info' = [Freed(info) EXCEPT !.transport = TRUE, !.paused = TRUE]
    BY <1>2 DEF Attach, IInv, TypeInv
  <2>2. CASE session = 0
    <3>1. ~info.transport
      BY <2>2 DEF IInv, ThreadInv
    <3>2. info'.breakpoints = info.breakpoints
      BY <1>1, <2>1, <3>1 DEF Freed, InfoRecord
    <3> QED
      BY <2>1, <2>2, <3>2 DEF CacheInv
  <2>3. CASE session # 0
    <3>1. session' # 0 /\ session' # 1
      BY <2>1, <2>3
    <3> QED
      BY <3>1 DEF CacheInv
  <2> QED
    BY <2>2, <2>3
<1>3. CASE Cooperate
  BY <1>1, <1>3, SameCache DEF Cooperate, wireVars, InfoRecord
<1>4. CASE LoseClient \/ Call \/ Peek \/ \E m \in Messages : Send(m)
  BY <1>4, SameCache DEF LoseClient, Call, Peek, Send, wireVars
<1>5. CASE RunOpcode \/ Return \/ Unwind
  BY <1>5, SameCache DEF RunOpcode, Return, Unwind, wireVars
<1>6. CASE Throw
  <2>1. cache' = cache /\ session' = session
        /\ (info' = info \/ info' = [info EXCEPT !.paused = TRUE])
    BY <1>6 DEF Throw, wireVars
  <2>2. info'.breakpoints = info.breakpoints /\ info'.transport = info.transport
    BY <1>1, <2>1 DEF InfoRecord
  <2> QED
    BY <2>1, <2>2, SameCache
<1>7. CASE CheckDisconnected \/ CheckSkips
  BY <1>7, SameCache DEF CheckDisconnected, CheckSkips, wireVars
<1>8. CASE CheckPasses
  BY <1>8, RefreshCache DEF CheckPasses, Checking, wireVars
<1>9. CASE CheckStops
  <2>1. info'.breakpoints = info.breakpoints
    BY <1>1, <1>9 DEF CheckStops, InfoRecord
  <2> QED
    BY <1>9, <2>1, RefreshCache DEF CheckStops, Checking, wireVars
<1>10. CASE CheckGoes
  <2> DEFINE go == [info EXCEPT !.stepping = "no"]
  <2>1. info' = go \/ info' = [go EXCEPT !.ticks = @ + 1]
        \/ info' = [go EXCEPT !.ticks = 0, !.shouldPeek = FALSE]
    BY <1>10 DEF CheckGoes
  <2>2. info'.breakpoints = info.breakpoints
    BY <1>1, <2>1 DEF InfoRecord
  <2> QED
    BY <1>10, <2>2, RefreshCache DEF CheckGoes, Checking, wireVars
<1>11. CASE ReadEnd \/ ReadNoBuffer
  BY <1>11, FreedCache DEF ReadEnd, ReadNoBuffer
<1>12. CASE ReadBody
  BY <1>12, SameCache DEF ReadBody, wireVars
<1>13. ASSUME NEW m \in Messages, Resume(m) \/ Pause(m) \/ StopOnException(m) \/ Inspect(m)
       PROVE  CacheInv'
  <2> DEFINE i == Buffered(m)
  <2>1. /\ cache' = cache /\ session' = session
        /\ \/ info' = i \/ info' = info
           \/ info' = [i EXCEPT !.paused = FALSE]
           \/ info' = [i EXCEPT !.stepping = m.kind, !.stepOver = Location,
                                !.stepDepth = Depth, !.paused = FALSE]
           \/ info' = [i EXCEPT !.paused = TRUE]
           \/ info' = [i EXCEPT !.onException = m.on]
    BY <1>13 DEF Resume, Pause, StopOnException, Inspect, Processed
  <2>2. i \in InfoRecord /\ i.breakpoints = info.breakpoints /\ i.transport = info.transport
    BY <1>1, BufferedInfo
  <2> HIDE DEF i
  <2>3. info'.breakpoints = info.breakpoints /\ info'.transport = info.transport
    BY <2>1, <2>2 DEF InfoRecord
  <2> QED
    BY <2>1, <2>3, SameCache
<1>14. ASSUME NEW m \in Messages, SetBreakpoints(m) PROVE CacheInv'
  <2>1. cache' = cache /\ session' = session
    BY <1>14 DEF SetBreakpoints
  <2>2. /\ info'.transport = info.transport
        /\ info'.breakpoints[m.file] = [dirty |-> info.dirty + 1, lines |-> m.lines]
        /\ \A f \in Paths \ {m.file} : info'.breakpoints[f] = info.breakpoints[f]
    BY <1>14, SetBreakpointsFacts
  <2>3. info'.breakpoints[m.file].dirty = info.dirty + 1 /\ info.dirty \in Nat
    BY <1>1, <2>2 DEF InfoRecord
  <2>4. \A f \in Files : f \in Paths /\ cache[f].dirty \in Nat /\ cache[f].dirty <= info.dirty
    BY DebuggerAssumption DEF IInv, TypeInv, TypeOK, FunctionRecord
  <2> QED
    BY <2>1, <2>2, <2>3, <2>4 DEF CacheInv
<1>15. CASE UNCHANGED vars
  BY <1>15, SameCache DEF vars
<1> QED
  BY <1>2, <1>3, <1>4, <1>5, <1>6, <1>7, <1>8, <1>9, <1>10, <1>11, <1>12, <1>13, <1>14, <1>15
     DEF Next, Script, Check, ReadMessage

\* A check that is done stops at a breakpoint if and only if one is there.
LEMMA CheckObeys ==
    ASSUME Rising, IInv, CacheInv, [Next]_vars,
           pc = "check", pc' # "check", info.transport, session = 1, ~AtStep
    PROVE  (pc' = "messages" /\ told' = "breakpoint")
           <=> Head(stack).at \in Marked(Head(stack).file,
                                         info.breakpoints[Head(stack).file].lines)
<1>1. Check
  <2>1. CASE Script \/ Peek \/ ReadMessage
    BY <2>1 DEF Script, Call, RunOpcode, Return, Throw, Unwind, Peek, ReadMessage, ReadEnd,
       ReadNoBuffer, ReadBody, Resume, Pause, SetBreakpoints, StopOnException, Inspect, Reading
  <2>2. CASE LoseClient \/ Attach \/ Cooperate \/ Call \/ \E m \in Messages : Send(m)
    BY <2>2 DEF LoseClient, Attach, Cooperate, Call, Send
  <2> QED
    BY <2>1, <2>2 DEF Next, vars
<1>2. Head(stack).file \in Files
  <2>1. stack # <<>> /\ stack \in Seq(FrameRecord)
    BY DEF IInv, ThreadInv, TypeInv, TypeOK, FrameRecord
  <2>2. Head(stack) \in FrameRecord
    BY <2>1, TailSeq
  <2> QED
    BY <2>2 DEF FrameRecord
<1>3. Refreshed(Head(stack).file).marked
        = Marked(Head(stack).file, info.breakpoints[Head(stack).file].lines)
  BY <1>2, RefreshedMarks
<1>4. Verdict = "breakpoint" <=> Head(stack).at \in Refreshed(Head(stack).file).marked
  <2>1. info.stepping \in {"continue", "next", "stepIn", "stepOut", "no"}
    BY DEF IInv, TypeInv, TypeOK, Resumes
  <2> QED
    BY <2>1 DEF Verdict
<1>5. Verdict # "skip"
  <2>1. info.stepping \in {"continue", "next", "stepIn", "stepOut", "no"}
    BY DEF IInv, TypeInv, TypeOK, Resumes
  <2> QED
    BY <2>1 DEF Verdict
<1>6. told # "breakpoint"
  BY DEF IInv, ToldInv
<1>7. (pc' = "messages" /\ told' = "breakpoint") <=> Verdict = "breakpoint"
  <2>1. CASE CheckDisconnected \/ CheckSkips
    BY <1>5, <2>1 DEF CheckDisconnected, CheckSkips
  <2>2. CASE CheckPasses
    BY <2>2 DEF CheckPasses
  <2>3. CASE CheckStops
    BY <2>3 DEF CheckStops, StopFor
  <2>4. CASE CheckGoes
    BY <1>6, <2>4 DEF CheckGoes
  <2> QED
    BY <1>1, <2>1, <2>2, <2>3, <2>4 DEF Check
<1> QED
  BY <1>3, <1>4, <1>7

\* js_debugger_check and js_debugger_check_breakpoint: the marks kept per function stop
\* the script exactly where the breakpoints last received for its file say, for every
\* program whose tables end on their largest line.
THEOREM BreakpointSafety == ASSUME Rising PROVE Spec => BreakpointsObeyed
<1>1. Init => CacheInv
  <2> SUFFICES ASSUME Init PROVE CacheInv
    OBVIOUS
  <2>1. \A f \in Files : f \in Paths /\ Len(Lines[f]) \in Nat
    BY DebuggerAssumption
  <2>2. \A f \in Files : /\ info.breakpoints[f].lines = {}
                         /\ cache[f].marked = {} /\ cache[f].lastLine = 0
    BY <2>1 DEF Init
  <2>3. \A f \in Files : Marked(f, {}) = {}
    BY DEF Marked
  <2> QED
    BY <2>2, <2>3 DEF CacheInv
<1>2. IInv /\ CacheInv /\ [Next]_vars => CacheInv'
  BY NextCache
<1>3. IInv /\ CacheInv /\ [Next]_vars =>
        [pc = "check" /\ pc' # "check" /\ info.transport /\ session = 1 /\ ~AtStep
         => LET top == Head(stack)
            IN (pc' = "messages" /\ told' = "breakpoint")
               <=> top.at \in Marked(top.file, info.breakpoints[top.file].lines)]_vars
  BY CheckObeys
<1> QED
  BY <1>1, <1>2, <1>3, Inductive, PTL DEF Spec, BreakpointsObeyed
=============================================================================
