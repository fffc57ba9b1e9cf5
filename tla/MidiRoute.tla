------------------------------ MODULE MidiRoute ------------------------------
(************************************************************************** *)
(* The routed MIDI leg: MidiOutput of crates/cseq-midi/src/lib.rs, the     *)
(* scheduler's ConnectMidiDestination (engine.rs) and the reconciliation   *)
(* of the user's choice with what is plugged in (src-tauri/src/main.rs).   *)
(*                                                                         *)
(* Three parties ask for a reconciliation: the user picking a destination, *)
(* the user opening Setup (a rescan), and the hot-plug watcher.  Each      *)
(* holds midi_route_reconcile from its first read to its last write; the   *)
(* scheduler serves the connect request in between, while devices come and *)
(* go and notes go out.                                                    *)
(*                                                                         *)
(* Optional values are sets of at most one value.  What a device hears is  *)
(* counted per key, as a receiver does that ignores no overlapping note.   *)
(************************************************************************** *)
EXTENDS Naturals

CONSTANTS
  Devices,           \* CoreMIDI destinations, by stable id
  Keys,              \* (wire channel, pitch) pairs
  MaxCount,          \* bound on the overlapping note-ons of one key
  HonoursCC123,      \* whether the devices obey all-notes-off
  Silencers,         \* the silencing commands a run issues: "stop", "panic"
  ConnectMayFail,    \* whether connecting to a present device may fail
  PluggingAtStartup  \* whether devices come and go before the watcher runs

ASSUME RouteBoundsAssumption ==
  /\ MaxCount \in Nat /\ Silencers \subseteq {"stop", "panic"}
  /\ HonoursCC123 \in BOOLEAN /\ ConnectMayFail \in BOOLEAN
  /\ PluggingAtStartup \in BOOLEAN

VARIABLES
  present,   \* devices plugged in
  route,     \* route_dest and route_conn; a connection dies with its device
  failing,   \* route_failing
  ledger,    \* the scheduler's active_notes
  heard,     \* note-ons less note-offs at each device
  saved,     \* machine_prefs.midi_destination
  desired,   \* midi_route.desired
  connected, \* midi_route.connected
  op,        \* the reconciliation that holds midi_route_reconcile
  watching,  \* whether the notification client exists
  poke,      \* whether the watcher's channel holds a notification
  debouncing \* whether the watcher is between receiving and reconciling

sink == <<route, failing>>
notes == <<ledger, heard>>
status == <<desired, connected>>
watch == <<watching, poke, debouncing>>
vars == <<present, sink, notes, saved, status, op, watch>>

Options(S) == {{}} \cup {{x} : x \in S}
Connection == [dest : Devices, alive : BOOLEAN]

\* A reconciliation: the destination it read, whether it rebuilds the
\* connection, how far it got and what the scheduler answered.
Reconcile(dest, force) ==
  {[dest |-> dest, force |-> force, stage |-> "enumerate", target |-> {}, ok |-> FALSE]}

Idle == op = {}

(************************************************************************** *)
(* Sends to the routed leg                                                 *)
(************************************************************************** *)

\* The device a send reaches, if any.
Reached == {d \in Devices : [dest |-> d, alive |-> TRUE] \in route}

\* send_routed: failing after a send to a dead connection, recovered after a
\* send to a live one; what is sent changes the counts of the device reached.
SendRouted(after) ==
  /\ heard' = [d \in Devices |-> IF d \in Reached THEN after[d] ELSE heard[d]]
  /\ failing' = IF route = {} THEN failing ELSE Reached = {}

Minus(a, b) == IF a > b THEN a - b ELSE 0

\* The counts after counted note-offs, then CC123 on every channel.
AfterRelease(counts) ==
  [d \in Devices |-> [k \in Keys |->
     IF HonoursCC123 THEN 0 ELSE Minus(heard[d][k], counts[k])]]

NoNotes == [k \in Keys |-> 0]

(************************************************************************** *)
(* The scheduler's own traffic                                             *)
(************************************************************************** *)

NoteOn(k) ==
  /\ ledger[k] < MaxCount
  /\ ledger' = [ledger EXCEPT ![k] = @ + 1]
  /\ SendRouted([d \in Devices |-> [heard[d] EXCEPT ![k] = @ + 1]])
  /\ UNCHANGED <<present, route, saved, status, op, watch>>

NoteOff(k) ==
  /\ ledger[k] > 0
  /\ ledger' = [ledger EXCEPT ![k] = @ - 1]
  /\ SendRouted([d \in Devices |-> [heard[d] EXCEPT ![k] = Minus(@, 1)]])
  /\ UNCHANGED <<present, route, saved, status, op, watch>>

\* Stop sends CC123 only, Panic counted note-offs first.
Silence(command) ==
  /\ command \in Silencers
  /\ ledger' = NoNotes
  /\ SendRouted(AfterRelease(IF command = "panic" THEN ledger ELSE NoNotes))
  /\ UNCHANGED <<present, route, saved, status, op, watch>>

(************************************************************************** *)
(* Devices and the watcher                                                 *)
(************************************************************************** *)

\* CoreMIDI reports a topology change; try_send keeps at most one poke.
Notify == poke' = (poke \/ watching)

\* A device plugged in is silent, and is a new endpoint behind its stable id.
Plug(d) ==
  /\ watching \/ PluggingAtStartup
  /\ d \notin present
  /\ present' = present \cup {d}
  /\ Notify
  /\ UNCHANGED <<sink, notes, saved, status, op, watching, debouncing>>

Unplug(d) ==
  /\ watching \/ PluggingAtStartup
  /\ d \in present
  /\ present' = present \ {d}
  /\ heard' = [heard EXCEPT ![d] = NoNotes]
  /\ route' = {[c EXCEPT !.alive = @ /\ c.dest # d] : c \in route}
  /\ Notify
  /\ UNCHANGED <<failing, ledger, saved, status, op, watching, debouncing>>

\* Setup restores the saved destination first and creates the client after.
StartWatch ==
  /\ ~watching /\ Idle
  /\ watching' = TRUE
  /\ UNCHANGED <<present, sink, notes, saved, status, op, poke, debouncing>>

\* The worker takes the poke and swallows those that follow within 300 ms.
WatchReceive ==
  /\ poke
  /\ poke' = FALSE
  /\ debouncing' = TRUE
  /\ UNCHANGED <<present, sink, notes, saved, status, op, watching>>

(************************************************************************** *)
(* Reconciliation                                                          *)
(************************************************************************** *)

\* midi_set_destination: persist, then publish, then reconcile.
SetDestination(dest) ==
  /\ Idle
  /\ saved' = dest
  /\ desired' = dest /\ connected' = FALSE
  /\ op' = Reconcile(dest, FALSE)
  /\ UNCHANGED <<present, sink, notes, watch>>

\* midi_get_route_status.
Rescan ==
  /\ Idle
  /\ op' = Reconcile(desired, FALSE)
  /\ UNCHANGED <<present, sink, notes, saved, status, watch>>

\* A plausible slip: the hot-plug reconciliation trusts a route that looks
\* healthy.
WatchReconcileLazily ==
  /\ Idle /\ debouncing
  /\ debouncing' = FALSE
  /\ op' = Reconcile(desired, FALSE)
  /\ UNCHANGED <<present, sink, notes, saved, status, watching, poke>>

\* reconcile_midi_route_after_notification: the only forced one.
WatchReconcile ==
  /\ Idle /\ debouncing
  /\ debouncing' = FALSE
  /\ op' = Reconcile(desired, TRUE)
  /\ UNCHANGED <<present, sink, notes, saved, status, watching, poke>>

\* The destinations are listed; what is not there is not asked for.
Enumerate ==
  \E o \in op :
    /\ o.stage = "enumerate"
    /\ op' = {[o EXCEPT !.stage = "request", !.target = o.dest \cap present]}
    /\ UNCHANGED <<present, sink, notes, saved, status, watch>>

\* A plausible slip: the old receiver is left without a word.
DisconnectSilently == UNCHANGED heard

\* disconnect_destination: the old receiver is silenced before it is left.
Disconnect ==
  heard' = [d \in Devices |-> IF d \in Reached THEN AfterRelease(ledger)[d] ELSE heard[d]]

\* Whether the route goes to the asked-for device already.
Same(target) == target # {} /\ {c.dest : c \in route} = target

\* find_port_by_id and connect: a device that is gone by now is not found, one
\* that is there may refuse.
MayEnd(target, works) ==
  IF works THEN target \subseteq present
  ELSE target # {} /\ (ConnectMayFail \/ ~(target \subseteq present))

Connected(target) == {[dest |-> d, alive |-> TRUE] : d \in target}

\* connect_destination_inner: a route that looks healthy is kept.
Keep(o, works) ==
  /\ Same(o.target) /\ ~o.force /\ ~failing
  /\ works
  /\ UNCHANGED <<sink, heard>>

\* replace_same_destination_connection: a failure keeps the old connection.
Replace(o, works) ==
  /\ Same(o.target) /\ (o.force \/ failing)
  /\ MayEnd(o.target, works)
  /\ route' = IF works THEN Connected(o.target) ELSE route
  /\ failing' = ~works
  /\ UNCHANGED heard

\* Plausible slips: a failed switch goes on sending to the old receiver; the
\* failing flag outlives its route.
SwitchKeepsOld(o, works) ==
  /\ ~Same(o.target)
  /\ MayEnd(o.target, works)
  /\ route' = IF works THEN Connected(o.target) ELSE route
  /\ Disconnect
  /\ failing' = FALSE

\* Another destination, or none: the old route is left first, so that a
\* failure leaves the output virtual-only.
Switch(o, works) ==
  /\ ~Same(o.target)
  /\ MayEnd(o.target, works)
  /\ Disconnect
  /\ route' = IF works THEN Connected(o.target) ELSE {}
  /\ failing' = FALSE

\* The scheduler serves ConnectMidiDestination and acknowledges.
Connect(works) ==
  \E o \in op :
    /\ o.stage = "request"
    /\ Keep(o, works) \/ Replace(o, works) \/ Switch(o, works)
    /\ op' = {[o EXCEPT !.stage = "commit", !.ok = works]}
    /\ UNCHANGED <<present, ledger, saved, status, watch>>

\* The outcome is published and the lock released.
Commit ==
  \E o \in op :
    /\ o.stage = "commit"
    /\ desired' = o.dest
    /\ connected' = (o.ok /\ o.target # {})
    /\ op' = {}
    /\ UNCHANGED <<present, sink, notes, saved, watch>>

-----------------------------------------------------------------------------

\* Setup with a destination from an earlier session reconciles at once.
Init ==
  /\ present \in SUBSET Devices
  /\ route = {} /\ failing = FALSE
  /\ ledger = NoNotes
  /\ heard = [d \in Devices |-> NoNotes]
  /\ saved \in Options(Devices)
  /\ desired = saved /\ connected = FALSE
  /\ op = IF saved = {} THEN {} ELSE Reconcile(saved, FALSE)
  /\ watching = FALSE /\ poke = FALSE /\ debouncing = FALSE

Reconciliation == Enumerate \/ (\E works \in BOOLEAN : Connect(works)) \/ Commit

Next ==
  \/ \E k \in Keys : NoteOn(k) \/ NoteOff(k)
  \/ \E command \in Silencers : Silence(command)
  \/ \E d \in Devices : Plug(d) \/ Unplug(d)
  \/ StartWatch
  \/ WatchReceive
  \/ \E dest \in Options(Devices) : SetDestination(dest)
  \/ Rescan
  \/ WatchReconcile
  \/ Reconciliation

Spec == Init /\ [][Next]_vars

\* A reconciliation that began ends, since the scheduler loop goes on serving
\* requests; the setup and the watcher's thread run, and the lock is handed
\* to the watcher some time although users may go on picking and rescanning.
FairSpec ==
  /\ Spec
  /\ WF_vars(Reconciliation)
  /\ SF_vars(StartWatch)
  /\ WF_vars(WatchReceive)
  /\ SF_vars(WatchReconcile)

-----------------------------------------------------------------------------
(************************************************************************** *)
(* Properties                                                              *)
(************************************************************************** *)

RouteTypeOK ==
  /\ present \subseteq Devices
  /\ route \subseteq Connection /\ \A c, e \in route : c = e
  /\ failing \in BOOLEAN /\ (failing => route # {})
  /\ ledger \in [Keys -> Nat] /\ heard \in [Devices -> [Keys -> Nat]]
  /\ saved \in Options(Devices) /\ desired \in Options(Devices)
  /\ connected \in BOOLEAN
  /\ op \subseteq [dest : Options(Devices), force : BOOLEAN, ok : BOOLEAN,
                   stage : {"enumerate", "request", "commit"},
                   target : Options(Devices)]
  /\ \A o, u \in op : o = u
  /\ watching \in BOOLEAN /\ poke \in BOOLEAN /\ debouncing \in BOOLEAN

\* No receiver is left sounding: a device that still sounds a key is the one
\* the live route goes to, and active_notes knows of all it sounds, so that
\* the queue's note-offs, Panic or the next switch reach it.
NoStrandedNotes ==
  \A d \in Devices : \A k \in Keys : heard[d][k] > 0 =>
    /\ [dest |-> d, alive |-> TRUE] \in route
    /\ heard[d][k] <= ledger[k]

\* "midi_route_reconcile ... makes destination selection linearizable with
\* hot-plug notifications" (main.rs): with no reconciliation under way, the
\* user's last choice is what is desired and persisted, nothing else is
\* routed to, and a status of connected is not told of a route not taken.
LastSelectionWins ==
  Idle =>
    /\ desired = saved
    /\ \A c \in route : {c.dest} = desired
    /\ connected => route # {}

\* "connect when it (re)appears" (main.rs): a chosen device that stays plugged
\* in gets a live connection for good, and the status says so again and again
\* (picking it anew takes it back for a moment), whatever was unplugged and
\* plugged again within one debounce window.
RouteRecovers ==
  \A d \in Devices :
    <>[](desired = {d} /\ d \in present) =>
      <>[](route = {[dest |-> d, alive |-> TRUE]}) /\ []<>connected
=============================================================================
