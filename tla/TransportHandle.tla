--------------------------- MODULE TransportHandle ---------------------------
(************************************************************************** *)
(* The Transport handle of crates/cseq-transport/src/engine.rs: the        *)
(* bounded command channel, the acknowledgements and the shutdown, between *)
(* callers on any threads and the scheduler thread.                        *)
(*                                                                         *)
(* A command is only a step of the scheduler's state here (`applied`);     *)
(* what it does is the subject of module Scheduler. What matters is when   *)
(* the caller is told: on sending ("queued": SetScore and the other        *)
(* setters), by the handler ("answered": ConnectMidiDestination), after    *)
(* the snapshot was published ("published": Play, Stop, Resync, Panic,     *)
(* SetTempo), or when the thread is gone ("shutdown").                     *)
(************************************************************************** *)
EXTENDS Naturals, Sequences

CONSTANTS
  Callers,   \* threads that hold the Arc<Transport>
  Capacity,  \* of the command channel
  MaxCalls   \* bound on the calls made

ASSUME HandleAssumption == Capacity \in Nat \ {0} /\ MaxCalls \in Nat

VARIABLES
  calls,    \* each caller's call, the last one if it returned
  issued,   \* how many calls were made
  channel,  \* commands sent and not received
  thread,   \* "draining", "working", "acking", "exiting" or "exited"
  acks,     \* command_acks: callers to tell after publication
  applied,  \* commands applied so far
  shown,    \* commands applied when the shared snapshot was last published
  once      \* shutdown_result: "unset", "running", "ok" or "err"

vars == <<calls, issued, channel, thread, acks, applied, shown, once>>

Kinds == {"queued", "answered", "published", "shutdown"}
Message == [from : Callers, kind : Kinds]

\* A call: how far it got, whether it succeeded, and which command of the
\* scheduler's it was (0 while it was not applied).
Call(kind, stage, ok) == [kind |-> kind, stage |-> stage, ok |-> ok, index |-> 0]

Returned(call, ok) == [call EXCEPT !.stage = "done", !.ok = ok]

\* What the callers told now see: recv returns.
Tell(told, ok) ==
  [c \in Callers |-> IF c \in told THEN Returned(calls[c], ok) ELSE calls[c]]

(************************************************************************** *)
(* Callers                                                                 *)
(************************************************************************** *)

Begin(c) == calls[c].stage \in {"idle", "done"} /\ issued < MaxCalls /\ issued' = issued + 1

\* play, stop, set_score and so on.
Request(c, kind) ==
  /\ Begin(c)
  /\ kind # "shutdown"
  /\ calls' = [calls EXCEPT ![c] = Call(kind, "sending", FALSE)]
  /\ UNCHANGED <<channel, thread, acks, applied, shown, once>>

\* shutdown_now: the first caller initializes the OnceLock, those who come
\* meanwhile wait for it, later ones reuse its result.
ShutdownNow(c) ==
  /\ Begin(c)
  /\ calls' = [calls EXCEPT ![c] =
       CASE once = "unset"   -> Call("shutdown", "sending", FALSE)
         [] once = "running" -> Call("shutdown", "blocked", FALSE)
         [] OTHER            -> Call("shutdown", "done", once = "ok")]
  /\ once' = IF once = "unset" THEN "running" ELSE once
  /\ UNCHANGED <<channel, thread, acks, applied, shown>>

\* cmd_tx.send: waits for room in the channel.
Send(c) ==
  /\ calls[c].stage = "sending" /\ thread # "exited"
  /\ Len(channel) < Capacity
  /\ channel' = Append(channel, [from |-> c, kind |-> calls[c].kind])
  /\ calls' = [calls EXCEPT ![c] =
       IF @.kind = "queued" THEN Returned(@, TRUE) ELSE [@ EXCEPT !.stage = "waiting"]]
  /\ UNCHANGED <<issued, thread, acks, applied, shown, once>>

\* cmd_tx.send with the receiver gone: NotRunning.
SendFails(c) ==
  /\ calls[c].stage = "sending" /\ thread = "exited"
  /\ calls' = [calls EXCEPT ![c] =
       IF @.kind = "shutdown" THEN [@ EXCEPT !.stage = "joining"] ELSE Returned(@, FALSE)]
  /\ UNCHANGED <<issued, channel, thread, acks, applied, shown, once>>

\* Mutant of Join: the acknowledgement is enough.
JoinEarly(c) ==
  /\ calls[c].stage = "joining"
  /\ calls' = [calls EXCEPT ![c] = Returned(@, @.ok)]
  /\ once' = IF calls[c].ok THEN "ok" ELSE "err"
  /\ UNCHANGED <<issued, channel, thread, acks, applied, shown>>

\* shutdown_now joins the thread and publishes the result.
Join(c) ==
  /\ calls[c].stage = "joining" /\ thread = "exited"
  /\ calls' = [calls EXCEPT ![c] = Returned(@, @.ok)]
  /\ once' = IF calls[c].ok THEN "ok" ELSE "err"
  /\ UNCHANGED <<issued, channel, thread, acks, applied, shown>>

\* get_or_init returns to those who waited.
Unblock(c) ==
  /\ calls[c].stage = "blocked" /\ once \in {"ok", "err"}
  /\ calls' = Tell({c}, once = "ok")
  /\ UNCHANGED <<issued, channel, thread, acks, applied, shown, once>>

(************************************************************************** *)
(* The scheduler thread                                                    *)
(************************************************************************** *)

\* Mutant of Apply: every caller is told on receipt.
ApplyTellsAtOnce ==
  /\ thread = "draining" /\ channel # <<>> /\ Head(channel).kind # "shutdown"
  /\ channel' = Tail(channel)
  /\ applied' = applied + 1
  /\ LET m == Head(channel) IN
     calls' = IF m.kind = "queued" THEN calls
              ELSE [calls EXCEPT ![m.from] = [Returned(@, TRUE) EXCEPT !.index = applied']]
  /\ UNCHANGED <<issued, thread, acks, shown, once>>

\* A command is received and applied.
Apply ==
  /\ thread = "draining" /\ channel # <<>> /\ Head(channel).kind # "shutdown"
  /\ channel' = Tail(channel)
  /\ applied' = applied + 1
  /\ LET m == Head(channel) IN
     /\ acks' = IF m.kind = "published" THEN acks \cup {m.from} ELSE acks
     /\ calls' = CASE m.kind = "queued"    -> calls
                   [] m.kind = "published" -> [calls EXCEPT ![m.from].index = applied']
                   [] OTHER -> [calls EXCEPT ![m.from] =
                                  [Returned(@, TRUE) EXCEPT !.index = applied']]
  /\ UNCHANGED <<issued, thread, shown, once>>

\* Mutant of ServeShutdown: those waiting for publication are forgotten.
ServeShutdownForgets ==
  /\ thread = "draining" /\ channel # <<>> /\ Head(channel).kind = "shutdown"
  /\ channel' = Tail(channel)
  /\ calls' = [calls EXCEPT ![Head(channel).from] = [@ EXCEPT !.stage = "joining", !.ok = TRUE]]
  /\ thread' = "exiting"
  /\ UNCHANGED <<issued, acks, applied, shown, once>>

\* Shutdown: silence; tell those whose commands were applied, although the
\* snapshot is not published any more; drop the sink; acknowledge.
ServeShutdown ==
  /\ thread = "draining" /\ channel # <<>> /\ Head(channel).kind = "shutdown"
  /\ channel' = Tail(channel)
  /\ calls' = [Tell(acks, TRUE) EXCEPT ![Head(channel).from] =
                 [@ EXCEPT !.stage = "joining", !.ok = TRUE]]
  /\ acks' = {}
  /\ thread' = "exiting"
  /\ UNCHANGED <<issued, applied, shown, once>>

\* Nothing more to receive: the play step runs.
EndDrain ==
  /\ thread = "draining" /\ channel = <<>>
  /\ thread' = "working"
  /\ UNCHANGED <<calls, issued, channel, acks, applied, shown, once>>

Publish ==
  /\ thread = "working"
  /\ shown' = applied
  /\ thread' = "acking"
  /\ UNCHANGED <<calls, issued, channel, acks, applied, once>>

Acknowledge ==
  /\ thread = "acking"
  /\ calls' = Tell(acks, TRUE)
  /\ acks' = {}
  /\ thread' = "draining"
  /\ UNCHANGED <<issued, channel, applied, shown, once>>

\* Callers whose acknowledgement sender goes with the thread.
Orphans ==
  acks \cup {c \in Callers : calls[c].stage = "waiting"
                             /\ \E i \in 1 .. Len(channel) : channel[i].from = c}

\* Mutant of Exit: the channel keeps its messages, and their senders.
ExitKeepsMessages ==
  /\ thread = "exiting"
  /\ thread' = "exited"
  /\ UNCHANGED <<calls, issued, channel, acks, applied, shown, once>>

\* return: the receiver is dropped with all it holds.
Exit ==
  /\ thread = "exiting"
  /\ thread' = "exited"
  /\ calls' = Tell(Orphans, FALSE)
  /\ channel' = <<>> /\ acks' = {}
  /\ UNCHANGED <<issued, applied, shown, once>>

-----------------------------------------------------------------------------

Init ==
  /\ calls = [c \in Callers |-> Call("queued", "idle", FALSE)]
  /\ issued = 0
  /\ channel = <<>>
  /\ thread = "draining"
  /\ acks = {}
  /\ applied = 0 /\ shown = 0
  /\ once = "unset"

Loop == Apply \/ ServeShutdown \/ EndDrain \/ Publish \/ Acknowledge \/ Exit

Next ==
  \/ \E c \in Callers :
       \/ \E kind \in Kinds : Request(c, kind)
       \/ ShutdownNow(c)
       \/ Send(c)
       \/ SendFails(c)
       \/ Join(c)
       \/ Unblock(c)
  \/ Loop

Spec == Init /\ [][Next]_vars

\* The thread runs, blocked callers wake, and a sender waiting for room is
\* served although others may take the slot before it.
FairSpec ==
  /\ Spec
  /\ WF_vars(Loop)
  /\ \A c \in Callers :
       SF_vars(Send(c)) /\ WF_vars(SendFails(c)) /\ WF_vars(Join(c)) /\ WF_vars(Unblock(c))

-----------------------------------------------------------------------------
(************************************************************************** *)
(* Properties                                                              *)
(************************************************************************** *)

HandleTypeOK ==
  /\ calls \in [Callers -> [kind : Kinds, ok : BOOLEAN, index : Nat,
        stage : {"idle", "sending", "waiting", "blocked", "joining", "done"}]]
  /\ channel \in Seq(Message) /\ Len(channel) <= Capacity
  /\ thread \in {"draining", "working", "acking", "exiting", "exited"}
  /\ acks \subseteq Callers
  /\ issued \in Nat /\ applied \in Nat /\ shown \in Nat
  /\ once \in {"unset", "running", "ok", "err"}

\* "These UI-facing commands acknowledge only after the scheduler publishes
\* its new shared snapshot" (engine.rs): whoever returns from play, stop,
\* resync, panic or set_tempo reads a snapshot not older than the command,
\* unless the thread is ending.
AckMeansPublished ==
  \A c \in Callers :
    LET call == calls[c] IN
    call.kind = "published" /\ call.stage = "done" /\ call.ok =>
      call.index <= shown \/ thread \in {"exiting", "exited"}

\* A call that waits for its command is told the truth about it, also when
\* shutdown overtakes it: Ok if the command was applied, NotRunning if it was
\* thrown away with the channel ("Do not strand an already-processed caller").
HonestAnswers ==
  \A c \in Callers :
    LET call == calls[c] IN
    call.kind \in {"answered", "published"} /\ call.stage = "done" =>
      (call.ok <=> call.index > 0)

\* Whoever returns from shutdown_now, first, concurrent or late, finds the
\* scheduler thread gone and the shutdown a success.
ShutdownCompletes ==
  \A c \in Callers :
    calls[c].kind = "shutdown" /\ calls[c].stage = "done" => calls[c].ok /\ thread = "exited"

\* Nobody waits forever: neither for room in the channel nor for an
\* acknowledgement nor for another caller's shutdown.
EveryCallReturns ==
  \A c \in Callers :
    calls[c].stage \in {"sending", "waiting", "blocked", "joining"} ~> calls[c].stage = "done"
=============================================================================
