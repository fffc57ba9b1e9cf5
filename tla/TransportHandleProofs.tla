----------------------- MODULE TransportHandleProofs -----------------------
(************************************************************************** *)
(* Proofs about TransportHandle, for any number of callers and any channel *)
(* capacity: acknowledgements follow publication, answers are honest, and  *)
(* shutdown completes before it returns.                                   *)
(************************************************************************** *)
EXTENDS TransportHandle, TLAPS

\* A command in the channel that someone waits for: its caller waits for it
\* alone and it is not applied yet.
MessageInv ==
  \A i \in 1 .. Len(channel) : channel[i].kind # "queued" =>
    /\ calls[channel[i].from].stage = "waiting"
    /\ calls[channel[i].from].kind = channel[i].kind
    /\ channel[i].from \notin acks
    /\ \A j \in 1 .. Len(channel) :
         channel[j].kind # "queued" /\ channel[j].from = channel[i].from => i = j

\* Those to be told after publication wait for a command already applied.
AcksInv ==
  \A c \in acks :
    calls[c].stage = "waiting" /\ calls[c].kind = "published" /\ calls[c].index > 0

\* Only an applied command has an index, and no index is ahead of the thread.
CallInv ==
  \A c \in Callers :
    /\ calls[c].index <= applied
    /\ calls[c].stage \in {"idle", "sending"} => calls[c].index = 0
    /\ calls[c].stage = "waiting" /\ c \notin acks => calls[c].index = 0
    /\ calls[c].stage \in {"blocked", "joining"} => calls[c].kind = "shutdown"

ThreadInv ==
  /\ shown <= applied
  /\ thread = "acking" => shown = applied
  /\ thread \in {"exiting", "exited"} => acks = {}

\* One caller at a time carries the shutdown, and before the thread ends it
\* is the one that ends it.
Carrying(c) == calls[c].kind = "shutdown" /\ calls[c].stage \in {"sending", "waiting", "joining"}

ShutdownInv ==
  /\ \A c, d \in Callers : Carrying(c) /\ Carrying(d) => c = d
  /\ \A c \in Callers :
       /\ Carrying(c) => once = "running"
       /\ calls[c].stage = "joining" => calls[c].ok /\ thread \in {"exiting", "exited"}
       /\ Carrying(c) /\ calls[c].stage # "joining" => thread \notin {"exiting", "exited"}
  /\ once = "unset" => thread \notin {"exiting", "exited"}
  /\ once = "ok" => thread = "exited"
  /\ once # "err"

HandleInv ==
  /\ HandleTypeOK
  /\ MessageInv /\ AcksInv /\ CallInv /\ ThreadInv /\ ShutdownInv
  /\ AckMeansPublished /\ HonestAnswers /\ ShutdownCompletes

-----------------------------------------------------------------------------
(************************************************************************** *)
(* Helpers                                                                 *)
(************************************************************************** *)

CallType == [kind : Kinds, ok : BOOLEAN, index : Nat,
             stage : {"idle", "sending", "waiting", "blocked", "joining", "done"}]

\* The head of a nonempty channel leaves, the rest moves up.
LEMMA Received ==
  ASSUME NEW q \in Seq(Message), q # <<>>
  PROVE  /\ Len(q) > 0 /\ Head(q) = q[1] /\ Head(q) \in Message
         /\ Tail(q) \in Seq(Message) /\ Len(Tail(q)) = Len(q) - 1
         /\ \A i \in 1 .. Len(Tail(q)) : i + 1 \in 1 .. Len(q) /\ Tail(q)[i] = q[i + 1]
OBVIOUS

\* What the channel holds comes from callers.
LEMMA MessageOf ==
  ASSUME HandleTypeOK
  PROVE  \A i \in 1 .. Len(channel) :
           channel[i].from \in Callers /\ channel[i].kind \in Kinds
<1>1. \A i \in 1 .. Len(channel) : channel[i] \in Message
  BY DEF HandleTypeOK
<1> QED
  BY <1>1 DEF Message

\* A message sent is the last of the channel.
LEMMA Sent ==
  ASSUME NEW q \in Seq(Message), NEW m \in Message
  PROVE  /\ Append(q, m) \in Seq(Message) /\ Len(Append(q, m)) = Len(q) + 1
         /\ \A i \in 1 .. Len(q) : Append(q, m)[i] = q[i]
         /\ Append(q, m)[Len(q) + 1] = m
OBVIOUS

\* One caller's call changes.
LEMMA Changed ==
  ASSUME HandleTypeOK, NEW c \in Callers, NEW call \in CallType,
         calls' = [calls EXCEPT ![c] = call]
  PROVE  /\ calls' \in [Callers -> CallType]
         /\ calls'[c] = call
         /\ \A d \in Callers : d # c => calls'[d] = calls[d]
BY DEF HandleTypeOK, CallType

-----------------------------------------------------------------------------
(************************************************************************** *)
(* Step by step                                                            *)
(************************************************************************** *)

LEMMA HandleInit == Init => HandleInv
<1> SUFFICES ASSUME Init PROVE HandleInv
  OBVIOUS
<1>1. HandleTypeOK
  BY HandleAssumption DEF Init, Call, Kinds, HandleTypeOK
<1>2. MessageInv /\ AcksInv /\ ThreadInv
  BY DEF Init, MessageInv, AcksInv, ThreadInv
<1>3. CallInv /\ ShutdownInv /\ AckMeansPublished /\ HonestAnswers /\ ShutdownCompletes
  BY DEF Init, Call, CallInv, ShutdownInv, Carrying, AckMeansPublished, HonestAnswers,
         ShutdownCompletes
<1> QED
  BY <1>1, <1>2, <1>3 DEF HandleInv

\* A caller that was idle or done begins a call that is not sent yet.
LEMMA RequestStep ==
  ASSUME HandleInv, NEW c \in Callers, NEW kind \in Kinds, Request(c, kind)
  PROVE  HandleInv'
<1> USE DEF HandleInv
<1>1. Call(kind, "sending", FALSE) \in CallType
  BY DEF Call, CallType
<1>2. /\ calls' \in [Callers -> CallType]
      /\ calls'[c] = [kind |-> kind, stage |-> "sending", ok |-> FALSE, index |-> 0]
      /\ \A d \in Callers : d # c => calls'[d] = calls[d]
  BY <1>1, Changed DEF Request, Call
<1>3. UNCHANGED <<channel, thread, acks, applied, shown, once>> /\ kind # "shutdown"
      /\ issued' = issued + 1 /\ calls[c].stage \in {"idle", "done"}
  BY DEF Request, Begin
<1>4. HandleTypeOK'
  BY <1>2, <1>3 DEF HandleTypeOK, CallType
<1>5. MessageInv'
  BY <1>2, <1>3, MessageOf DEF MessageInv
<1>6. AcksInv' /\ CallInv' /\ ThreadInv'
  BY <1>2, <1>3 DEF AcksInv, CallInv, ThreadInv, HandleTypeOK
<1>7. ShutdownInv'
  BY <1>2, <1>3 DEF ShutdownInv, Carrying
<1>8. AckMeansPublished' /\ HonestAnswers' /\ ShutdownCompletes'
  BY <1>2, <1>3 DEF AckMeansPublished, HonestAnswers, ShutdownCompletes
<1> QED
  BY <1>4, <1>5, <1>6, <1>7, <1>8

LEMMA ShutdownNowStep ==
  ASSUME HandleInv, NEW c \in Callers, ShutdownNow(c)
  PROVE  HandleInv'
<1> USE DEF HandleInv
<1> DEFINE call == CASE once = "unset"   -> Call("shutdown", "sending", FALSE)
                     [] once = "running" -> Call("shutdown", "blocked", FALSE)
                     [] OTHER            -> Call("shutdown", "done", once = "ok")
<1>1. call \in CallType /\ call.kind = "shutdown" /\ call.index = 0
      /\ (once = "unset" => call.stage = "sending")
      /\ (once = "running" => call.stage = "blocked")
      /\ (once = "ok" => call.stage = "done" /\ call.ok)
  BY DEF Call, CallType, Kinds, HandleTypeOK
<1>2. calls' = [calls EXCEPT ![c] = call]
  BY DEF ShutdownNow
<1> HIDE DEF call
<1>3. /\ calls' \in [Callers -> CallType]
      /\ calls'[c] = call
      /\ \A d \in Callers : d # c => calls'[d] = calls[d]
  BY <1>1, <1>2, Changed
<1>4. /\ UNCHANGED <<channel, thread, acks, applied, shown>>
      /\ issued' = issued + 1 /\ calls[c].stage \in {"idle", "done"}
      /\ once' = IF once = "unset" THEN "running" ELSE once
  BY DEF ShutdownNow, Begin
<1>5. once \in {"unset", "running", "ok"}
  BY DEF HandleTypeOK, ShutdownInv
<1>6. HandleTypeOK'
  BY <1>3, <1>4 DEF HandleTypeOK, CallType
<1>7. MessageInv'
  BY <1>3, <1>4, MessageOf DEF MessageInv
<1>8. AcksInv' /\ CallInv' /\ ThreadInv'
  BY SMTT(30), <1>1, <1>3, <1>4, <1>5 DEF AcksInv, CallInv, ThreadInv, HandleTypeOK
<1>9. ShutdownInv'
  BY <1>1, <1>3, <1>4, <1>5 DEF ShutdownInv, Carrying
<1>10. AckMeansPublished' /\ HonestAnswers'
  BY <1>1, <1>3, <1>4 DEF AckMeansPublished, HonestAnswers
<1>11. ShutdownCompletes'
  BY <1>1, <1>3, <1>4, <1>5 DEF ShutdownCompletes, ShutdownInv
<1> QED
  BY <1>6, <1>7, <1>8, <1>9, <1>10, <1>11

LEMMA SendStep ==
  ASSUME HandleInv, NEW c \in Callers, Send(c)
  PROVE  HandleInv'
<1> USE DEF HandleInv
<1> DEFINE call == IF calls[c].kind = "queued" THEN Returned(calls[c], TRUE)
                   ELSE [calls[c] EXCEPT !.stage = "waiting"]
           m == [from |-> c, kind |-> calls[c].kind]
<1>1. calls[c] \in CallType /\ m \in Message
  BY DEF HandleTypeOK, CallType, Message
<1>2. call \in CallType /\ call.kind = calls[c].kind /\ call.index = calls[c].index
      /\ call.stage = (IF calls[c].kind = "queued" THEN "done" ELSE "waiting")
  BY <1>1 DEF CallType, Returned
<1>3. calls' = [calls EXCEPT ![c] = call] /\ channel' = Append(channel, m)
  BY DEF Send
<1>4. m.from = c /\ m.kind = calls[c].kind
  OBVIOUS
<1> HIDE DEF call, m
<1>5. /\ calls' \in [Callers -> CallType]
      /\ calls'[c] = call
      /\ \A d \in Callers : d # c => calls'[d] = calls[d]
  BY <1>2, <1>3, Changed
<1>6. UNCHANGED <<issued, thread, acks, applied, shown, once>> /\ thread # "exited"
      /\ calls[c].stage = "sending" /\ Len(channel) < Capacity
  BY DEF Send
<1>7. /\ channel' \in Seq(Message) /\ Len(channel') = Len(channel) + 1
      /\ \A i \in 1 .. Len(channel) : channel'[i] = channel[i]
      /\ channel'[Len(channel) + 1] = m
  BY <1>1, <1>3, Sent DEF HandleTypeOK
<1>8. HandleTypeOK'
  BY <1>5, <1>6, <1>7, HandleAssumption DEF HandleTypeOK, CallType
<1>9. c \notin acks /\ \A i \in 1 .. Len(channel) : channel[i].kind # "queued" => channel[i].from # c
  BY <1>6 DEF AcksInv, MessageInv
<1>10. MessageInv'
  <2>1. Len(channel) \in Nat /\ \A i \in 1 .. Len(channel') : i \in 1 .. Len(channel) \/ i = Len(channel) + 1
    BY <1>7 DEF HandleTypeOK
  <2>2. \A i \in 1 .. Len(channel) : channel[i].from \in Callers
    BY MessageOf
  <2> QED
    BY <1>2, <1>4, <1>5, <1>6, <1>7, <1>9, <2>1, <2>2 DEF MessageInv
<1>11. AcksInv' /\ CallInv' /\ ThreadInv'
  BY SMTT(30), <1>2, <1>5, <1>6, <1>9 DEF AcksInv, CallInv, ThreadInv, HandleTypeOK
<1>12. ShutdownInv'
  BY <1>2, <1>5, <1>6 DEF ShutdownInv, Carrying
<1>13. AckMeansPublished' /\ HonestAnswers' /\ ShutdownCompletes'
  BY <1>2, <1>5, <1>6 DEF AckMeansPublished, HonestAnswers, ShutdownCompletes
<1> QED
  BY <1>8, <1>10, <1>11, <1>12, <1>13

\* Nobody carries a shutdown once the receiver is gone, so that a failed send
\* is of another kind.
LEMMA SendFailsStep ==
  ASSUME HandleInv, NEW c \in Callers, SendFails(c)
  PROVE  HandleInv'
<1> USE DEF HandleInv
<1>1. calls[c].stage = "sending" /\ thread = "exited"
      /\ UNCHANGED <<issued, channel, thread, acks, applied, shown, once>>
  BY DEF SendFails
<1>2. calls[c].kind # "shutdown"
  BY <1>1 DEF ShutdownInv, Carrying
<1> DEFINE call == Returned(calls[c], FALSE)
<1>3. calls' = [calls EXCEPT ![c] = call]
  BY <1>2 DEF SendFails
<1>4. call \in CallType /\ call.kind = calls[c].kind /\ call.index = calls[c].index
      /\ call.stage = "done" /\ ~call.ok
  BY DEF HandleTypeOK, CallType, Returned
<1> HIDE DEF call
<1>5. /\ calls' \in [Callers -> CallType]
      /\ calls'[c] = call
      /\ \A d \in Callers : d # c => calls'[d] = calls[d]
  BY <1>3, <1>4, Changed
<1>6. HandleTypeOK'
  BY <1>1, <1>5 DEF HandleTypeOK, CallType
<1>7. MessageInv'
  BY <1>1, <1>5, MessageOf DEF MessageInv
<1>8. AcksInv' /\ CallInv' /\ ThreadInv'
  BY <1>1, <1>4, <1>5 DEF AcksInv, CallInv, ThreadInv, HandleTypeOK
<1>9. ShutdownInv'
  BY <1>1, <1>4, <1>5 DEF ShutdownInv, Carrying
<1>10. AckMeansPublished' /\ HonestAnswers' /\ ShutdownCompletes'
  BY <1>1, <1>2, <1>4, <1>5 DEF AckMeansPublished, HonestAnswers, ShutdownCompletes, CallInv
<1> QED
  BY <1>6, <1>7, <1>8, <1>9, <1>10

LEMMA JoinStep ==
  ASSUME HandleInv, NEW c \in Callers, Join(c)
  PROVE  HandleInv'
<1> USE DEF HandleInv
<1> DEFINE call == Returned(calls[c], calls[c].ok)
<1>1. calls[c].stage = "joining" /\ thread = "exited"
      /\ UNCHANGED <<issued, channel, thread, acks, applied, shown>>
      /\ calls' = [calls EXCEPT ![c] = call]
  BY DEF Join
<1>2. calls[c].kind = "shutdown" /\ calls[c].ok
  BY <1>1 DEF CallInv, ShutdownInv
<1>3. once' = "ok"
  BY <1>2 DEF Join
<1>4. call \in CallType /\ call.kind = "shutdown" /\ call.index = calls[c].index
      /\ call.stage = "done" /\ call.ok
  BY <1>2 DEF HandleTypeOK, CallType, Returned
<1> HIDE DEF call
<1>5. /\ calls' \in [Callers -> CallType]
      /\ calls'[c] = call
      /\ \A d \in Callers : d # c => calls'[d] = calls[d]
  BY <1>1, <1>4, Changed
<1>6. HandleTypeOK'
  BY <1>1, <1>3, <1>5 DEF HandleTypeOK, CallType
<1>7. MessageInv'
  BY <1>1, <1>5, MessageOf DEF MessageInv
<1>8. AcksInv' /\ CallInv' /\ ThreadInv'
  BY <1>1, <1>4, <1>5 DEF AcksInv, CallInv, ThreadInv, HandleTypeOK
<1>9. ShutdownInv'
  BY <1>1, <1>2, <1>3, <1>4, <1>5 DEF ShutdownInv, Carrying
<1>10. AckMeansPublished' /\ HonestAnswers' /\ ShutdownCompletes'
  BY <1>1, <1>4, <1>5 DEF AckMeansPublished, HonestAnswers, ShutdownCompletes
<1> QED
  BY <1>6, <1>7, <1>8, <1>9, <1>10

LEMMA UnblockStep ==
  ASSUME HandleInv, NEW c \in Callers, Unblock(c)
  PROVE  HandleInv'
<1> USE DEF HandleInv
<1>1. calls[c].stage = "blocked" /\ once = "ok"
      /\ UNCHANGED <<issued, channel, thread, acks, applied, shown, once>>
  BY DEF Unblock, ShutdownInv
<1>2. calls[c].kind = "shutdown" /\ thread = "exited"
  BY <1>1 DEF CallInv, ShutdownInv
<1> DEFINE call == Returned(calls[c], once = "ok")
<1>3. \A d \in Callers : calls'[d] = IF d = c THEN call ELSE calls[d]
  BY DEF Unblock, Tell
<1>4. call \in CallType /\ call.kind = "shutdown" /\ call.index = calls[c].index
      /\ call.stage = "done" /\ call.ok
  BY <1>1, <1>2 DEF HandleTypeOK, CallType, Returned
<1> HIDE DEF call
<1>5. calls' \in [Callers -> CallType]
  BY <1>3, <1>4 DEF Unblock, Tell, HandleTypeOK, CallType
<1>6. HandleTypeOK'
  BY <1>1, <1>5 DEF HandleTypeOK, CallType
<1>7. MessageInv'
  BY <1>1, <1>3, MessageOf DEF MessageInv
<1>8. AcksInv' /\ CallInv' /\ ThreadInv'
  BY <1>1, <1>3, <1>4 DEF AcksInv, CallInv, ThreadInv, HandleTypeOK
<1>9. ShutdownInv'
  BY <1>1, <1>3, <1>4 DEF ShutdownInv, Carrying
<1>10. AckMeansPublished' /\ HonestAnswers' /\ ShutdownCompletes'
  BY <1>1, <1>2, <1>3, <1>4 DEF AckMeansPublished, HonestAnswers, ShutdownCompletes
<1> QED
  BY <1>6, <1>7, <1>8, <1>9, <1>10

LEMMA ApplyStep ==
  ASSUME HandleInv, Apply
  PROVE  HandleInv'
<1> USE DEF HandleInv
<1> DEFINE m == channel[1]
           k == applied + 1
           call == CASE m.kind = "queued"    -> calls[m.from]
                     [] m.kind = "published" -> [calls[m.from] EXCEPT !.index = k]
                     [] OTHER -> [Returned(calls[m.from], TRUE) EXCEPT !.index = k]
<1>1. /\ thread = "draining" /\ channel # <<>> /\ Head(channel).kind # "shutdown"
      /\ channel' = Tail(channel) /\ applied' = k
      /\ UNCHANGED <<issued, thread, shown, once>>
  BY DEF Apply
<1>2. /\ Len(channel) > 0 /\ Head(channel) = m
      /\ channel' \in Seq(Message) /\ Len(channel') = Len(channel) - 1
      /\ \A i \in 1 .. Len(channel') : i + 1 \in 1 .. Len(channel) /\ channel'[i] = channel[i + 1]
  BY <1>1, Received DEF HandleTypeOK
<1>3. /\ 1 \in 1 .. Len(channel) /\ m.from \in Callers /\ m.kind \in Kinds /\ m.kind # "shutdown"
      /\ Len(channel) \in Nat
  BY <1>1, <1>2, MessageOf DEF HandleTypeOK
<1>4. calls[m.from] \in CallType /\ k \in Nat /\ applied \in Nat
  BY <1>3 DEF HandleTypeOK, CallType
<1>5. /\ acks' = IF m.kind = "published" THEN acks \cup {m.from} ELSE acks
      /\ calls' = [calls EXCEPT ![m.from] = call]
  <2>1. m.kind = "queued" => [calls EXCEPT ![m.from] = call] = calls
    BY <1>3 DEF HandleTypeOK
  <2>2. m.kind = "published" => calls' = [calls EXCEPT ![m.from].index = k]
    BY <1>1, <1>2 DEF Apply
  <2>3. m.kind \notin {"queued", "published"} =>
          calls' = [calls EXCEPT ![m.from] = [Returned(@, TRUE) EXCEPT !.index = k]]
    BY <1>1, <1>2 DEF Apply
  <2>4. m.kind = "queued" => calls' = calls
    BY <1>1, <1>2 DEF Apply
  <2>5. acks' = IF m.kind = "published" THEN acks \cup {m.from} ELSE acks
    BY <1>1, <1>2 DEF Apply
  <2> QED
    BY <2>1, <2>2, <2>3, <2>4, <2>5
<1>6. /\ call \in CallType /\ call.kind = calls[m.from].kind
      /\ m.kind = "queued" => call = calls[m.from]
      /\ m.kind = "published" => call.stage = calls[m.from].stage /\ call.index = k
      /\ m.kind \notin {"queued", "published"} => call.stage = "done" /\ call.ok /\ call.index = k
  BY <1>4 DEF CallType, Returned
<1>7. m.kind # "queued" => /\ calls[m.from].stage = "waiting" /\ calls[m.from].kind = m.kind
                           /\ m.from \notin acks
  BY <1>3 DEF MessageInv
<1>8. \A i \in 1 .. Len(channel') :
        /\ channel'[i].from \in Callers
        /\ channel'[i].kind # "queued" /\ m.kind # "queued" => channel'[i].from # m.from
  BY <1>2, <1>3, MessageOf DEF MessageInv
<1> HIDE DEF m, call, k
<1>9. /\ calls' \in [Callers -> CallType]
      /\ calls'[m.from] = call
      /\ \A d \in Callers : d # m.from => calls'[d] = calls[d]
  BY <1>3, <1>5, <1>6, Changed
<1>10. HandleTypeOK'
  BY <1>1, <1>2, <1>3, <1>4, <1>5, <1>9, HandleAssumption DEF HandleTypeOK, CallType
<1>11. MessageInv'
  <2> SUFFICES ASSUME NEW i \in 1 .. Len(channel'), channel'[i].kind # "queued"
               PROVE  /\ calls'[channel'[i].from].stage = "waiting"
                      /\ calls'[channel'[i].from].kind = channel'[i].kind
                      /\ channel'[i].from \notin acks'
                      /\ \A j \in 1 .. Len(channel') :
                           channel'[j].kind # "queued" /\ channel'[j].from = channel'[i].from => i = j
    BY DEF MessageInv
  <2>1. i + 1 \in 1 .. Len(channel) /\ channel'[i] = channel[i + 1]
    BY <1>2
  <2>2. calls'[channel'[i].from] = calls[channel[i + 1].from]
    BY <1>6, <1>8, <1>9, <2>1
  <2>3. channel'[i].from \notin acks'
    BY <1>5, <1>8, <2>1 DEF MessageInv
  <2>4. ASSUME NEW j \in 1 .. Len(channel'), channel'[j].kind # "queued",
               channel'[j].from = channel'[i].from
        PROVE  i = j
    <3>1. j + 1 \in 1 .. Len(channel) /\ channel'[j] = channel[j + 1]
      BY <1>2
    <3>2. i + 1 = j + 1
      BY <2>1, <2>4, <3>1 DEF MessageInv
    <3> QED
      BY <3>2
  <2> QED
    BY <2>1, <2>2, <2>3, <2>4 DEF MessageInv
<1>12. AcksInv'
  BY <1>3, <1>4, <1>5, <1>6, <1>7, <1>9 DEF AcksInv, HandleTypeOK, k
<1>13. CallInv'
  BY <1>1, <1>3, <1>4, <1>5, <1>6, <1>7, <1>9 DEF CallInv, HandleTypeOK, k, CallType
<1>14. ThreadInv'
  BY <1>1, <1>4 DEF ThreadInv, HandleTypeOK, k
<1>15. ShutdownInv'
  BY <1>1, <1>3, <1>6, <1>7, <1>9 DEF ShutdownInv, Carrying
<1>16. AckMeansPublished'
  BY <1>1, <1>6, <1>7, <1>9 DEF AckMeansPublished
<1>17. HonestAnswers'
  BY <1>3, <1>4, <1>6, <1>7, <1>9 DEF HonestAnswers, k
<1>18. ShutdownCompletes'
  BY <1>1, <1>3, <1>6, <1>7, <1>9 DEF ShutdownCompletes
<1> QED
  BY <1>10, <1>11, <1>12, <1>13, <1>14, <1>15, <1>16, <1>17, <1>18

\* The callers told are those waiting for publication; the one who asked for
\* the shutdown is not among them.
LEMMA ServeShutdownStep ==
  ASSUME HandleInv, ServeShutdown
  PROVE  HandleInv'
<1> USE DEF HandleInv
<1> DEFINE m == channel[1]
           call == [calls[m.from] EXCEPT !.stage = "joining", !.ok = TRUE]
<1>1. /\ thread = "draining" /\ channel # <<>> /\ Head(channel).kind = "shutdown"
      /\ channel' = Tail(channel) /\ acks' = {} /\ thread' = "exiting"
      /\ calls' = [Tell(acks, TRUE) EXCEPT ![Head(channel).from] =
                     [@ EXCEPT !.stage = "joining", !.ok = TRUE]]
      /\ UNCHANGED <<issued, applied, shown, once>>
  BY DEF ServeShutdown
<1>2. /\ Len(channel) > 0 /\ Head(channel) = m
      /\ channel' \in Seq(Message) /\ Len(channel') = Len(channel) - 1
      /\ \A i \in 1 .. Len(channel') : i + 1 \in 1 .. Len(channel) /\ channel'[i] = channel[i + 1]
  BY <1>1, Received DEF HandleTypeOK
<1>3. 1 \in 1 .. Len(channel) /\ m.from \in Callers /\ m.kind = "shutdown" /\ Len(channel) \in Nat
  BY <1>1, <1>2, MessageOf DEF HandleTypeOK
<1>4. calls[m.from].stage = "waiting" /\ calls[m.from].kind = "shutdown" /\ m.from \notin acks
  BY <1>3 DEF MessageInv
<1>5. \A i \in 1 .. Len(channel') :
        /\ channel'[i].from \in Callers
        /\ channel'[i].kind # "queued" => channel'[i].from # m.from
  <2> SUFFICES ASSUME NEW i \in 1 .. Len(channel')
               PROVE  /\ channel'[i].from \in Callers
                      /\ channel'[i].kind # "queued" => channel'[i].from # m.from
    OBVIOUS
  <2>1. i + 1 \in 1 .. Len(channel) /\ channel'[i] = channel[i + 1] /\ i + 1 # 1
    BY <1>2
  <2>2. m.kind # "queued"
    BY <1>3
  <2> QED
    BY <1>3, <2>1, <2>2, MessageOf DEF MessageInv
<1>6. \A d \in Callers : calls[d] \in CallType /\ Returned(calls[d], TRUE) \in CallType
        /\ Returned(calls[d], TRUE).kind = calls[d].kind /\ Returned(calls[d], TRUE).ok
        /\ Returned(calls[d], TRUE).index = calls[d].index
        /\ Returned(calls[d], TRUE).stage = "done"
  BY DEF HandleTypeOK, CallType, Returned
<1>7. call \in CallType /\ call.kind = "shutdown" /\ call.stage = "joining" /\ call.ok
      /\ call.index = calls[m.from].index
  BY ZenonT(60), <1>3, <1>4, <1>6 DEF CallType
<1>8. /\ calls'[m.from] = call
      /\ \A d \in Callers : d # m.from /\ d \notin acks => calls'[d] = calls[d]
      /\ \A d \in acks : calls'[d] = Returned(calls[d], TRUE)
      /\ DOMAIN calls' = Callers /\ calls' = [d \in Callers |-> calls'[d]]
      /\ acks \subseteq Callers
  BY <1>1, <1>2, <1>3, <1>4 DEF Tell, HandleTypeOK
<1> HIDE DEF m, call
<1>9. calls' \in [Callers -> CallType]
  <2>1. \A d \in Callers : calls'[d] \in CallType
    BY <1>6, <1>7, <1>8
  <2> QED
    BY <1>8, <2>1
<1>end. thread = "draining" /\ thread' = "exiting" /\ acks' = {} /\ UNCHANGED <<issued, applied, shown, once>>
  BY <1>1
<1>told. \A d \in acks :
           /\ d \in Callers /\ calls'[d].kind = "published" /\ calls'[d].ok
           /\ calls'[d].index = calls[d].index /\ calls'[d].index > 0
           /\ calls'[d].stage = "done"
  <2> SUFFICES ASSUME NEW d \in acks
               PROVE  /\ d \in Callers /\ calls'[d].kind = "published" /\ calls'[d].ok
                      /\ calls'[d].index = calls[d].index /\ calls'[d].index > 0
                      /\ calls'[d].stage = "done"
    OBVIOUS
  <2>1. d \in Callers /\ calls[d].kind = "published" /\ calls[d].index > 0
    BY <1>8 DEF AcksInv
  <2>2. calls'[d] = Returned(calls[d], TRUE)
    BY <1>8
  <2> QED
    BY <1>6, <2>1, <2>2
<1>same. \A d \in Callers : d # m.from /\ d \notin acks => calls'[d] = calls[d]
  BY <1>8
<1>from. /\ m.from \in Callers /\ calls'[m.from].kind = "shutdown" /\ calls'[m.from].ok
         /\ calls'[m.from].stage = "joining" /\ calls'[m.from].index = calls[m.from].index
  BY <1>3, <1>7, <1>8
<1>10. HandleTypeOK'
  BY <1>end, <1>2, <1>3, <1>9, HandleAssumption DEF HandleTypeOK, CallType
<1>11. MessageInv'
  <2> SUFFICES ASSUME NEW i \in 1 .. Len(channel'), channel'[i].kind # "queued"
               PROVE  /\ calls'[channel'[i].from].stage = "waiting"
                      /\ calls'[channel'[i].from].kind = channel'[i].kind
                      /\ \A j \in 1 .. Len(channel') :
                           channel'[j].kind # "queued" /\ channel'[j].from = channel'[i].from => i = j
    BY <1>1 DEF MessageInv
  <2>1. i + 1 \in 1 .. Len(channel) /\ channel'[i] = channel[i + 1]
    BY <1>2
  <2>2. calls'[channel'[i].from] = calls[channel[i + 1].from]
    BY <1>3, <1>5, <1>same, <2>1 DEF MessageInv
  <2>3. ASSUME NEW j \in 1 .. Len(channel'), channel'[j].kind # "queued",
               channel'[j].from = channel'[i].from
        PROVE  i = j
    <3>1. j + 1 \in 1 .. Len(channel) /\ channel'[j] = channel[j + 1]
      BY <1>2
    <3>2. i + 1 = j + 1
      BY <2>1, <2>3, <3>1 DEF MessageInv
    <3> QED
      BY <3>2
  <2> QED
    BY <2>1, <2>2, <2>3 DEF MessageInv
<1>12. AcksInv' /\ ThreadInv'
  BY <1>1 DEF AcksInv, ThreadInv
<1>13. CallInv'
  BY <1>end, <1>told, <1>same, <1>from DEF CallInv
<1>14. ShutdownInv'
  <2>1. Carrying(m.from) /\ once = "running"
    BY <1>3, <1>4 DEF ShutdownInv, Carrying
  <2>2. \A d \in Callers : Carrying(d)' => d = m.from
    BY <1>told, <1>same, <1>from, <2>1 DEF ShutdownInv, Carrying
  <2>3. \A d \in Callers : calls'[d].stage = "joining" => d = m.from
    BY ZenonT(60), <1>1, <1>told, <1>same, <1>from DEF ShutdownInv
  <2> QED
    BY <1>1, <1>from, <2>1, <2>2, <2>3 DEF ShutdownInv
<1>15. AckMeansPublished'
  BY <1>1 DEF AckMeansPublished
<1>16. HonestAnswers'
  BY <1>told, <1>same, <1>from DEF HonestAnswers
<1>17. ShutdownCompletes'
  BY <1>end, <1>told, <1>same, <1>from DEF ShutdownCompletes
<1> QED
  BY <1>10, <1>11, <1>12, <1>13, <1>14, <1>15, <1>16, <1>17

LEMMA EndDrainStep ==
  ASSUME HandleInv, EndDrain
  PROVE  HandleInv'
<1>1. thread' = "working" /\ UNCHANGED <<calls, issued, channel, acks, applied, shown, once>>
      /\ thread = "draining"
  BY DEF EndDrain
<1>2. HandleTypeOK' /\ MessageInv' /\ AcksInv' /\ CallInv' /\ ThreadInv'
  BY <1>1 DEF HandleInv, HandleTypeOK, MessageInv, AcksInv, CallInv, ThreadInv
<1>3. ShutdownInv' /\ AckMeansPublished' /\ HonestAnswers' /\ ShutdownCompletes'
  BY <1>1 DEF HandleInv, ShutdownInv, Carrying, AckMeansPublished, HonestAnswers,
              ShutdownCompletes
<1> QED
  BY <1>2, <1>3 DEF HandleInv

LEMMA PublishStep ==
  ASSUME HandleInv, Publish
  PROVE  HandleInv'
<1>1. thread' = "acking" /\ UNCHANGED <<calls, issued, channel, acks, applied, once>>
      /\ thread = "working" /\ shown' = applied
  BY DEF Publish
<1>2. HandleTypeOK' /\ MessageInv' /\ AcksInv' /\ CallInv' /\ ThreadInv'
  BY <1>1 DEF HandleInv, HandleTypeOK, MessageInv, AcksInv, CallInv, ThreadInv
<1>3. ShutdownInv' /\ HonestAnswers' /\ ShutdownCompletes'
  BY <1>1 DEF HandleInv, ShutdownInv, Carrying, HonestAnswers, ShutdownCompletes
<1>4. AckMeansPublished'
  BY <1>1 DEF HandleInv, AckMeansPublished, CallInv
<1> QED
  BY <1>2, <1>3, <1>4 DEF HandleInv

\* Some waiting callers are told: their calls return and nothing else changes.
LEMMA Told ==
  ASSUME HandleTypeOK, NEW told \in SUBSET Callers, NEW ok \in BOOLEAN, calls' = Tell(told, ok)
  PROVE  /\ calls' \in [Callers -> CallType]
         /\ \A d \in Callers : d \notin told => calls'[d] = calls[d]
         /\ \A d \in told : /\ calls'[d].kind = calls[d].kind /\ calls'[d].ok = ok
                            /\ calls'[d].index = calls[d].index /\ calls'[d].stage = "done"
<1>1. \A d \in Callers : calls[d] \in CallType /\ Returned(calls[d], ok) \in CallType
        /\ Returned(calls[d], ok).kind = calls[d].kind /\ Returned(calls[d], ok).ok = ok
        /\ Returned(calls[d], ok).index = calls[d].index
        /\ Returned(calls[d], ok).stage = "done"
  BY DEF HandleTypeOK, CallType, Returned
<1>2. calls' = [d \in Callers |-> IF d \in told THEN Returned(calls[d], ok) ELSE calls[d]]
  BY DEF Tell
<1>3. \A d \in Callers : calls'[d] = IF d \in told THEN Returned(calls[d], ok) ELSE calls[d]
  BY <1>2
<1>4. calls' \in [Callers -> CallType]
  BY <1>1, <1>2
<1> QED
  BY <1>1, <1>3, <1>4

LEMMA AcknowledgeStep ==
  ASSUME HandleInv, Acknowledge
  PROVE  HandleInv'
<1> USE DEF HandleInv
<1>1. thread = "acking" /\ thread' = "draining" /\ acks' = {}
      /\ UNCHANGED <<issued, channel, applied, shown, once>>
  BY DEF Acknowledge
<1>2. acks \subseteq Callers /\ shown = applied
  BY <1>1 DEF HandleTypeOK, ThreadInv
<1>3. /\ calls' \in [Callers -> CallType]
      /\ \A d \in Callers : d \notin acks => calls'[d] = calls[d]
      /\ \A d \in acks : /\ calls'[d].kind = calls[d].kind /\ calls'[d].ok = TRUE
                         /\ calls'[d].index = calls[d].index /\ calls'[d].stage = "done"
  BY <1>2, Told DEF Acknowledge
<1>4. \A d \in acks : d \in Callers /\ calls'[d].kind = "published" /\ calls'[d].ok
                      /\ calls'[d].index = calls[d].index /\ calls'[d].index > 0
                      /\ calls'[d].stage = "done" /\ calls[d].stage = "waiting"
  <2> SUFFICES ASSUME NEW d \in acks
               PROVE  d \in Callers /\ calls'[d].kind = "published" /\ calls'[d].ok
                      /\ calls'[d].index = calls[d].index /\ calls'[d].index > 0
                      /\ calls'[d].stage = "done" /\ calls[d].stage = "waiting"
    OBVIOUS
  <2>1. calls[d].kind = "published" /\ calls[d].index > 0 /\ calls[d].stage = "waiting"
    BY DEF AcksInv
  <2> QED
    BY <1>2, <1>3, <2>1
<1>5. \A d \in Callers : d \notin acks => calls'[d] = calls[d]
  BY <1>3
<1>6. HandleTypeOK'
  BY <1>1, <1>3 DEF HandleTypeOK, CallType
<1>7. MessageInv'
  BY <1>1, <1>5, MessageOf DEF MessageInv
<1>8. AcksInv' /\ CallInv' /\ ThreadInv'
  BY <1>1, <1>4, <1>5 DEF AcksInv, CallInv, ThreadInv
<1>9. ShutdownInv'
  BY <1>1, <1>4, <1>5 DEF ShutdownInv, Carrying
<1>10. AckMeansPublished'
  BY <1>1, <1>2, <1>4, <1>5 DEF AckMeansPublished, CallInv
<1>11. HonestAnswers' /\ ShutdownCompletes'
  BY <1>1, <1>4, <1>5 DEF HonestAnswers, ShutdownCompletes
<1> QED
  BY <1>6, <1>7, <1>8, <1>9, <1>10, <1>11

\* Only callers whose command was not applied are left in the channel, and
\* none of them carries a shutdown.
LEMMA ExitStep ==
  ASSUME HandleInv, Exit
  PROVE  HandleInv'
<1> USE DEF HandleInv
<1>1. thread = "exiting" /\ thread' = "exited" /\ acks' = {} /\ channel' = <<>>
      /\ UNCHANGED <<issued, applied, shown, once>> /\ calls' = Tell(Orphans, FALSE)
  BY DEF Exit
<1>end. thread = "exiting" /\ thread' = "exited" /\ acks' = {} /\ channel' = <<>>
        /\ UNCHANGED <<issued, applied, shown, once>>
  BY <1>1
<1>2. acks = {} /\ Orphans \subseteq Callers
      /\ \A d \in Orphans : d \in Callers /\ calls[d].stage = "waiting"
  BY <1>1 DEF ThreadInv, Orphans
<1>3. /\ calls' \in [Callers -> CallType]
      /\ \A d \in Callers : d \notin Orphans => calls'[d] = calls[d]
      /\ \A d \in Orphans : /\ calls'[d].kind = calls[d].kind /\ calls'[d].ok = FALSE
                            /\ calls'[d].index = calls[d].index /\ calls'[d].stage = "done"
  BY <1>1, <1>2, Told
<1>4. \A d \in Orphans : calls[d].index = 0 /\ calls[d].kind # "shutdown"
  BY <1>1, <1>2 DEF CallInv, ShutdownInv, Carrying
<1> HIDE DEF Orphans
<1>5. HandleTypeOK'
  BY <1>end, <1>3, HandleAssumption DEF HandleTypeOK, CallType
<1>6. MessageInv' /\ AcksInv' /\ ThreadInv'
  BY <1>1 DEF MessageInv, AcksInv, ThreadInv
<1>7. CallInv'
  <2> SUFFICES ASSUME NEW d \in Callers
               PROVE  /\ calls'[d].index <= applied'
                      /\ calls'[d].stage \in {"idle", "sending"} => calls'[d].index = 0
                      /\ calls'[d].stage = "waiting" => calls'[d].index = 0
                      /\ calls'[d].stage \in {"blocked", "joining"} => calls'[d].kind = "shutdown"
    BY <1>1 DEF CallInv
  <2>1. CASE d \in Orphans
    BY <1>1, <1>3, <2>1 DEF CallInv
  <2>2. CASE d \notin Orphans
    BY <1>1, <1>2, <1>3, <2>2 DEF CallInv
  <2> QED
    BY <2>1, <2>2
<1>8. ShutdownInv'
  <2>1. \A d \in Callers : Carrying(d)' => Carrying(d) /\ calls'[d] = calls[d]
    BY <1>2, <1>3, <1>4 DEF Carrying
  <2>2. \A d \in Callers : calls'[d].stage = "joining" => calls'[d] = calls[d]
    BY <1>2, <1>3
  <2>3. \A d \in Callers : Carrying(d) => calls[d].stage = "joining" \/ d \in Orphans
    BY <1>end DEF ShutdownInv
  <2> QED
    BY <1>end, <2>1, <2>2, <2>3 DEF ShutdownInv, Carrying
<1>9. AckMeansPublished' /\ ShutdownCompletes'
  BY <1>1, <1>3, <1>4 DEF AckMeansPublished, ShutdownCompletes
<1>10. HonestAnswers'
  <2> SUFFICES ASSUME NEW d \in Callers, calls'[d].kind \in {"answered", "published"},
                      calls'[d].stage = "done"
               PROVE  calls'[d].ok <=> calls'[d].index > 0
    BY DEF HonestAnswers
  <2>1. CASE d \in Orphans
    BY <1>3, <1>4, <2>1
  <2>2. CASE d \notin Orphans
    BY <1>3, <2>2 DEF HonestAnswers
  <2> QED
    BY <2>1, <2>2
<1> QED
  BY <1>5, <1>6, <1>7, <1>8, <1>9, <1>10

LEMMA HandleStep == HandleInv /\ [Next]_vars => HandleInv'
<1> SUFFICES ASSUME HandleInv, [Next]_vars PROVE HandleInv'
  OBVIOUS
<1>1. CASE UNCHANGED vars
  <2>1. HandleTypeOK' /\ MessageInv' /\ AcksInv' /\ CallInv' /\ ThreadInv'
    BY <1>1 DEF vars, HandleInv, HandleTypeOK, MessageInv, AcksInv, CallInv, ThreadInv
  <2>2. ShutdownInv' /\ AckMeansPublished' /\ HonestAnswers' /\ ShutdownCompletes'
    BY <1>1 DEF vars, HandleInv, ShutdownInv, Carrying, AckMeansPublished, HonestAnswers,
                ShutdownCompletes
  <2> QED
    BY <2>1, <2>2 DEF HandleInv
<1>2. ASSUME NEW c \in Callers, NEW kind \in Kinds, Request(c, kind) PROVE HandleInv'
  BY <1>2, RequestStep
<1>3. ASSUME NEW c \in Callers, ShutdownNow(c) PROVE HandleInv'
  BY <1>3, ShutdownNowStep
<1>4. ASSUME NEW c \in Callers, Send(c) PROVE HandleInv'
  BY <1>4, SendStep
<1>5. ASSUME NEW c \in Callers, SendFails(c) PROVE HandleInv'
  BY <1>5, SendFailsStep
<1>6. ASSUME NEW c \in Callers, Join(c) PROVE HandleInv'
  BY <1>6, JoinStep
<1>7. ASSUME NEW c \in Callers, Unblock(c) PROVE HandleInv'
  BY <1>7, UnblockStep
<1>8. CASE Loop
  BY <1>8, ApplyStep, ServeShutdownStep, EndDrainStep, PublishStep, AcknowledgeStep, ExitStep
     DEF Loop
<1> QED
  BY <1>1, <1>2, <1>3, <1>4, <1>5, <1>6, <1>7, <1>8 DEF Next

LEMMA Handle == Spec => []HandleInv
  BY HandleInit, HandleStep, PTL DEF Spec

-----------------------------------------------------------------------------
(************************************************************************** *)
(* The theorems                                                            *)
(************************************************************************** *)

\* The channel never holds more than its capacity, and the rest of the state
\* has its type.
THEOREM HandleType == Spec => []HandleTypeOK
  BY Handle, PTL DEF HandleInv

\* A successful acknowledged command is visible in the snapshot its caller
\* reads, unless the thread is ending.
THEOREM AcksFollow == Spec => []AckMeansPublished
  BY Handle, PTL DEF HandleInv

\* A caller that waits for its command is told Ok exactly if it was applied,
\* however many callers there are and wherever shutdown overtakes them.
THEOREM Answers == Spec => []HonestAnswers
  BY Handle, PTL DEF HandleInv

\* shutdown_now returns, to every caller, only when the thread is gone.
THEOREM ShutdownDone == Spec => []ShutdownCompletes
  BY Handle, PTL DEF HandleInv
=============================================================================
