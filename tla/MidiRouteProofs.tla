--------------------------- MODULE MidiRouteProofs ---------------------------
(************************************************************************** *)
(* Proofs about MidiRoute, for any devices, keys and bounds: no receiver   *)
(* is left sounding, and the user's last choice of destination wins.       *)
(*                                                                         *)
(* NoStrandedNotes is inductive beside the types.  LastSelectionWins is    *)
(* not: it takes what a reconciliation still under way is bound to do.     *)
(************************************************************************** *)
EXTENDS MidiRoute, TLAPS

\* The holder of midi_route_reconcile works for the published selection, and
\* once the scheduler answered the route is its or none.
OpInv ==
  /\ desired = saved
  /\ \A o \in op :
       /\ o.dest = desired /\ o.target \subseteq o.dest
       /\ o.stage = "commit" =>
            /\ \A c \in route : {c.dest} = o.dest
            /\ o.ok /\ o.target # {} => route # {}

-----------------------------------------------------------------------------
(************************************************************************** *)
(* The helpers                                                             *)
(************************************************************************** *)

LEMMA MinusType ==
  ASSUME NEW a \in Nat, NEW b \in Nat
  PROVE  /\ Minus(a, b) \in Nat
         /\ a <= b => Minus(a, b) = 0
         /\ a < b => Minus(a, 1) < b /\ Minus(a, 1) <= b - 1
         /\ a <= b /\ b > 0 => Minus(a, 1) <= b - 1
BY DEF Minus

LEMMA ReleaseType ==
  ASSUME RouteTypeOK, NEW counts \in [Keys -> Nat]
  PROVE  AfterRelease(counts) \in [Devices -> [Keys -> Nat]]
<1>1. \A d \in Devices : \A k \in Keys :
        (IF HonoursCC123 THEN 0 ELSE Minus(heard[d][k], counts[k])) \in Nat
  BY MinusType DEF RouteTypeOK
<1> QED
  BY <1>1 DEF AfterRelease

LEMMA NoNotesType == NoNotes \in [Keys -> Nat] /\ \A k \in Keys : NoNotes[k] = 0
BY DEF NoNotes

\* A send changes only what a live route reaches.
LEMMA SendType ==
  ASSUME RouteTypeOK, NEW after \in [Devices -> [Keys -> Nat]], SendRouted(after)
  PROVE  /\ heard' \in [Devices -> [Keys -> Nat]]
         /\ failing' \in BOOLEAN /\ (failing' => route # {})
         /\ \A d \in Devices : heard'[d] = IF d \in Reached THEN after[d] ELSE heard[d]
BY DEF SendRouted, RouteTypeOK

\* The step of a note or a silencing message: where nothing was left sounding
\* and what is reached goes along with the ledger, nothing is left sounding.
LEMMA SendStrands ==
  ASSUME RouteTypeOK, NoStrandedNotes,
         NEW after \in [Devices -> [Keys -> Nat]], SendRouted(after), UNCHANGED route,
         \A d \in Reached : \A k \in Keys : after[d][k] <= ledger'[k]
  PROVE  NoStrandedNotes'
<1> SUFFICES ASSUME NEW d \in Devices, NEW k \in Keys, heard'[d][k] > 0
             PROVE  [dest |-> d, alive |-> TRUE] \in route /\ heard'[d][k] <= ledger'[k]
  BY DEF NoStrandedNotes
<1>1. heard'[d] = IF d \in Reached THEN after[d] ELSE heard[d]
  BY SendType
<1>2. CASE d \in Reached
  BY <1>1, <1>2 DEF Reached
<1>3. CASE d \notin Reached
  <2>1. heard[d][k] > 0
    BY <1>1, <1>3
  <2> QED
    BY <2>1, <1>3 DEF NoStrandedNotes, Reached
<1> QED
  BY <1>2, <1>3

OpType == [dest : Options(Devices), force : BOOLEAN, ok : BOOLEAN,
           stage : {"enumerate", "request", "commit"}, target : Options(Devices)]

LEMMA ReconcileType ==
  ASSUME NEW dest \in Options(Devices), NEW force \in BOOLEAN
  PROVE  /\ Reconcile(dest, force) \subseteq OpType
         /\ \A o, u \in Reconcile(dest, force) : o = u
         /\ Reconcile(dest, force) # {}
         /\ \A o \in Reconcile(dest, force) :
              o.dest = dest /\ o.target = {} /\ o.stage = "enumerate"
<1>1. {} \in Options(Devices)
  BY DEF Options
<1> QED
  BY <1>1 DEF Reconcile, OpType

LEMMA ConnectedType ==
  ASSUME NEW target \in Options(Devices)
  PROVE  /\ Connected(target) \subseteq Connection
         /\ \A c, e \in Connected(target) : c = e
         /\ \A c \in Connected(target) : {c.dest} = target
         /\ target # {} => Connected(target) # {}
         /\ \A d \in target : [dest |-> d, alive |-> TRUE] \in Connected(target)
<1>1. CASE target = {}
  BY <1>1 DEF Connected
<1>2. ASSUME NEW d \in Devices, target = {d}
      PROVE  Connected(target) = {[dest |-> d, alive |-> TRUE]}
  BY <1>2 DEF Connected
<1>3. CASE target # {}
  <2>1. PICK d \in Devices : target = {d}
    BY <1>3 DEF Options
  <2>2. Connected(target) = {[dest |-> d, alive |-> TRUE]}
    BY <1>2, <2>1
  <2>3. [dest |-> d, alive |-> TRUE] \in Connection /\ [dest |-> d, alive |-> TRUE].dest = d
    BY DEF Connection
  <2> QED
    BY <2>1, <2>2, <2>3
<1> QED
  BY <1>1, <1>3

\* A device hears no more than the ledger counts.
LEMMA HeardWithinLedger ==
  ASSUME RouteTypeOK, NoStrandedNotes, NEW d \in Devices, NEW k \in Keys
  PROVE  heard[d][k] \in Nat /\ ledger[k] \in Nat /\ heard[d][k] <= ledger[k]
<1>1. heard[d][k] \in Nat /\ ledger[k] \in Nat
  BY DEF RouteTypeOK
<1>2. CASE heard[d][k] > 0
  BY <1>1, <1>2 DEF NoStrandedNotes
<1>3. CASE ~(heard[d][k] > 0)
  <2>1. heard[d][k] = 0
    BY <1>1, <1>3
  <2> QED
    BY <1>1, <2>1
<1> QED
  BY <1>1, <1>2, <1>3

-----------------------------------------------------------------------------
(************************************************************************** *)
(* Step by step                                                            *)
(************************************************************************** *)

\* A note-on is one more in the ledger and at the device reached.
LEMMA NoteOnStep ==
  ASSUME RouteTypeOK, NEW k \in Keys, NoteOn(k)
  PROVE  RouteTypeOK' /\ (NoStrandedNotes => NoStrandedNotes')
<1> DEFINE after == [d \in Devices |-> [heard[d] EXCEPT ![k] = @ + 1]]
<1>1. after \in [Devices -> [Keys -> Nat]]
  BY DEF RouteTypeOK
<1>2. ledger' \in [Keys -> Nat] /\ \A j \in Keys :
        ledger'[j] = IF j = k THEN ledger[j] + 1 ELSE ledger[j]
  BY DEF NoteOn, RouteTypeOK
<1>3. \A d \in Devices : \A j \in Keys :
        after[d][j] = IF j = k THEN heard[d][j] + 1 ELSE heard[d][j]
  BY DEF RouteTypeOK
<1>4. SendRouted(after) /\ UNCHANGED route
  BY DEF NoteOn
<1> HIDE DEF after
<1>5. ASSUME NoStrandedNotes
      PROVE  NoStrandedNotes'
  <2>1. ASSUME NEW d \in Reached, NEW j \in Keys
        PROVE  after[d][j] <= ledger'[j]
    <3>1. d \in Devices
      BY DEF Reached
    <3>2. heard[d][j] \in Nat /\ ledger[j] \in Nat /\ heard[d][j] <= ledger[j]
      BY <1>5, <3>1, HeardWithinLedger
    <3> QED
      BY <1>2, <1>3, <3>1, <3>2
  <2> QED
    BY <1>1, <1>4, <1>5, <2>1, SendStrands
<1>6. heard' \in [Devices -> [Keys -> Nat]] /\ failing' \in BOOLEAN /\ (failing' => route # {})
  BY <1>1, <1>4, SendType
<1> QED
  BY <1>2, <1>5, <1>6 DEF NoteOn, RouteTypeOK, status, watch

\* A note-off is one less in the ledger and, unless none is left, at the
\* device reached.
LEMMA NoteOffStep ==
  ASSUME RouteTypeOK, NEW k \in Keys, NoteOff(k)
  PROVE  RouteTypeOK' /\ (NoStrandedNotes => NoStrandedNotes')
<1> DEFINE after == [d \in Devices |-> [heard[d] EXCEPT ![k] = Minus(@, 1)]]
<1>1. after \in [Devices -> [Keys -> Nat]]
  BY MinusType DEF RouteTypeOK
<1>2. ledger[k] > 0 /\ ledger' \in [Keys -> Nat] /\ \A j \in Keys :
        ledger'[j] = IF j = k THEN ledger[j] - 1 ELSE ledger[j]
  BY DEF NoteOff, RouteTypeOK
<1>3. \A d \in Devices : \A j \in Keys :
        after[d][j] = IF j = k THEN Minus(heard[d][j], 1) ELSE heard[d][j]
  BY DEF RouteTypeOK
<1>4. SendRouted(after) /\ UNCHANGED route
  BY DEF NoteOff
<1> HIDE DEF after
<1>5. ASSUME NoStrandedNotes
      PROVE  NoStrandedNotes'
  <2>1. ASSUME NEW d \in Reached, NEW j \in Keys
        PROVE  after[d][j] <= ledger'[j]
    <3>1. d \in Devices
      BY DEF Reached
    <3>2. heard[d][j] \in Nat /\ ledger[j] \in Nat /\ heard[d][j] <= ledger[j]
      BY <1>5, <3>1, HeardWithinLedger
    <3>3. CASE j = k
      <4>1. Minus(heard[d][j], 1) <= ledger[j] - 1
        BY <1>2, <3>2, <3>3, MinusType
      <4> QED
        BY <1>2, <1>3, <3>1, <3>3, <4>1
    <3>4. CASE j # k
      BY <1>2, <1>3, <3>1, <3>2, <3>4
    <3> QED
      BY <3>3, <3>4
  <2> QED
    BY <1>1, <1>4, <1>5, <2>1, SendStrands
<1>6. heard' \in [Devices -> [Keys -> Nat]] /\ failing' \in BOOLEAN /\ (failing' => route # {})
  BY <1>1, <1>4, SendType
<1> QED
  BY <1>2, <1>5, <1>6 DEF NoteOff, RouteTypeOK, status, watch

\* What is left of the counts once the ledger's note-offs went out.
LEMMA Released ==
  ASSUME RouteTypeOK, NoStrandedNotes, NEW d \in Devices, NEW k \in Keys
  PROVE  AfterRelease(ledger)[d][k] = 0
<1>1. heard[d][k] \in Nat /\ ledger[k] \in Nat /\ heard[d][k] <= ledger[k]
  BY HeardWithinLedger
<1>2. Minus(heard[d][k], ledger[k]) = 0
  BY <1>1, MinusType
<1> QED
  BY <1>2 DEF AfterRelease

\* Stop and Panic empty the ledger, and what is reached with it: CC123 does
\* where it is obeyed, Panic's note-offs where it is not.
LEMMA SilenceStep ==
  ASSUME RouteTypeOK, NEW command \in Silencers, Silence(command)
  PROVE  /\ RouteTypeOK'
         /\ NoStrandedNotes /\ (HonoursCC123 \/ "stop" \notin Silencers) => NoStrandedNotes'
<1> DEFINE counts == IF command = "panic" THEN ledger ELSE NoNotes
<1>1. counts \in [Keys -> Nat]
  BY NoNotesType DEF RouteTypeOK
<1>2. AfterRelease(counts) \in [Devices -> [Keys -> Nat]]
  BY <1>1, ReleaseType
<1>3. ledger' = NoNotes /\ SendRouted(AfterRelease(counts)) /\ UNCHANGED route
  BY DEF Silence
<1>4. ASSUME NoStrandedNotes, HonoursCC123 \/ "stop" \notin Silencers
      PROVE  NoStrandedNotes'
  <2>2. ASSUME NEW d \in Devices, NEW k \in Keys
        PROVE  AfterRelease(counts)[d][k] = 0
    <3>1. CASE HonoursCC123
      BY <3>1 DEF AfterRelease
    <3>2. CASE ~HonoursCC123
      <4>1. command = "panic"
        BY <1>4, <3>2, RouteBoundsAssumption
      <4> QED
        BY <1>4, <4>1, Released
    <3> QED
      BY <3>1, <3>2
  <2> HIDE DEF counts
  <2>3. \A d \in Reached : \A k \in Keys : AfterRelease(counts)[d][k] <= ledger'[k]
    BY <1>3, <2>2, NoNotesType DEF Reached
  <2> QED
    BY <1>2, <1>3, <1>4, <2>3, SendStrands
<1>5. heard' \in [Devices -> [Keys -> Nat]] /\ failing' \in BOOLEAN /\ (failing' => route # {})
  BY <1>2, <1>3, SendType
<1> QED
  BY <1>3, <1>4, <1>5, NoNotesType DEF Silence, RouteTypeOK, status, watch

\* A device takes its notes and its connection with it.
LEMMA UnplugStep ==
  ASSUME RouteTypeOK, NEW d \in Devices, Unplug(d)
  PROVE  /\ RouteTypeOK' /\ (NoStrandedNotes => NoStrandedNotes')
         /\ \A c \in route' : \E e \in route : c.dest = e.dest
         /\ route # {} => route' # {}
<1>1. heard' \in [Devices -> [Keys -> Nat]] /\ \A e \in Devices :
        heard'[e] = IF e = d THEN NoNotes ELSE heard[e]
  BY NoNotesType DEF Unplug, RouteTypeOK
<1>2. \A c \in route : [c EXCEPT !.alive = @ /\ c.dest # d] \in Connection
  BY DEF RouteTypeOK, Connection
<1>3. route' \subseteq Connection /\ \A c, e \in route' : c = e
  BY <1>2 DEF Unplug, RouteTypeOK
<1>4. \A e \in Devices \ {d} :
        [dest |-> e, alive |-> TRUE] \in route => [dest |-> e, alive |-> TRUE] \in route'
  BY DEF Unplug
<1>5. route # {} => route' # {}
  BY DEF Unplug
<1>6. NoStrandedNotes => NoStrandedNotes'
  BY <1>1, <1>4, NoNotesType DEF Unplug, NoStrandedNotes
<1>7. \A c \in route' : \E e \in route : c.dest = e.dest
  BY DEF Unplug, RouteTypeOK, Connection
<1> QED
  BY <1>1, <1>3, <1>5, <1>6, <1>7 DEF Unplug, Notify, RouteTypeOK, status

\* What the scheduler made of a request is the route asked for, or none, or
\* the one it had to the same device.
LEMMA ConnectStep ==
  ASSUME RouteTypeOK, NEW works \in BOOLEAN, NEW o \in op,
         Keep(o, works) \/ Replace(o, works) \/ Switch(o, works),
         ledger' = ledger
  PROVE  /\ route' \subseteq Connection /\ \A c, e \in route' : c = e
         /\ failing' \in BOOLEAN /\ (failing' => route' # {})
         /\ heard' \in [Devices -> [Keys -> Nat]]
         /\ \A c \in route' : {c.dest} = o.target
         /\ works /\ o.target # {} => route' # {}
         /\ NoStrandedNotes => NoStrandedNotes'
<1>1. o.target \in Options(Devices)
  BY DEF RouteTypeOK
<1>2. o.target = {} \/ \E d \in Devices : o.target = {d}
  BY <1>1 DEF Options
<1>3. /\ Connected(o.target) \subseteq Connection
      /\ \A c, e \in Connected(o.target) : c = e
      /\ \A c \in Connected(o.target) : {c.dest} = o.target
      /\ o.target # {} => Connected(o.target) # {}
      /\ \A d \in o.target : [dest |-> d, alive |-> TRUE] \in Connected(o.target)
  BY <1>1, ConnectedType
<1>4. Same(o.target) => route # {} /\ \A c \in route : {c.dest} = o.target
  BY DEF Same, RouteTypeOK
<1>5. CASE Keep(o, works)
  BY <1>4, <1>5 DEF Keep, RouteTypeOK, sink, NoStrandedNotes
<1>6. CASE Replace(o, works)
  <2>1. UNCHANGED heard /\ route' \in {Connected(o.target), route}
        /\ (works => route' = Connected(o.target)) /\ failing' = ~works
        /\ route # {} /\ \A c \in route : {c.dest} = o.target
    BY <1>4, <1>6 DEF Replace
  <2>2. route' # {}
    BY <1>2, <1>3, <2>1
  <2>3. NoStrandedNotes => NoStrandedNotes'
    <3>1. \A d \in Devices : [dest |-> d, alive |-> TRUE] \in route => d \in o.target
      BY <2>1
    <3> QED
      BY <1>3, <2>1, <3>1 DEF NoStrandedNotes
  <2> QED
    BY <1>3, <2>1, <2>2, <2>3 DEF RouteTypeOK
<1>7. CASE Switch(o, works)
  <2>1. Disconnect /\ route' = (IF works THEN Connected(o.target) ELSE {}) /\ failing' = FALSE
    BY <1>7 DEF Switch
  <2>2. AfterRelease(ledger) \in [Devices -> [Keys -> Nat]]
    BY ReleaseType DEF RouteTypeOK
  <2>3. heard' \in [Devices -> [Keys -> Nat]] /\ \A d \in Devices :
          heard'[d] = IF d \in Reached THEN AfterRelease(ledger)[d] ELSE heard[d]
    BY <2>1, <2>2 DEF Disconnect, RouteTypeOK
  <2>4. ASSUME NoStrandedNotes, NEW d \in Devices, NEW k \in Keys
        PROVE  heard'[d][k] = 0
    <3>1. CASE d \in Reached
      BY <2>3, <2>4, <3>1, Released
    <3>2. CASE d \notin Reached
      <4>1. ~(heard[d][k] > 0)
        BY <2>4, <3>2 DEF NoStrandedNotes, Reached
      <4>2. heard[d][k] \in Nat
        BY DEF RouteTypeOK
      <4> QED
        BY <2>3, <3>2, <4>1, <4>2
    <3> QED
      BY <3>1, <3>2
  <2>5. NoStrandedNotes => NoStrandedNotes'
    BY <2>4 DEF NoStrandedNotes
  <2> QED
    BY <1>3, <2>1, <2>3, <2>5
<1> QED
  BY <1>5, <1>6, <1>7

-----------------------------------------------------------------------------
(************************************************************************** *)
(* Types, and notes left sounding                                          *)
(************************************************************************** *)

\* The condition under which silencing is complete; without it see the runs
\* of Scheduler.
SilencersSuffice == HonoursCC123 \/ "stop" \notin Silencers

LEMMA TypeInit == Init => RouteTypeOK /\ NoStrandedNotes
<1> SUFFICES ASSUME Init PROVE RouteTypeOK /\ NoStrandedNotes
  OBVIOUS
<1>1. heard \in [Devices -> [Keys -> Nat]] /\ \A d \in Devices : heard[d] = NoNotes
  BY NoNotesType DEF Init
<1>2. NoStrandedNotes
  BY <1>1, NoNotesType DEF NoStrandedNotes
<1>3. op \subseteq OpType /\ \A o, u \in op : o = u
  BY ReconcileType DEF Init
<1> QED
  BY <1>1, <1>2, <1>3, NoNotesType DEF Init, RouteTypeOK, OpType

LEMMA TypeStep ==
  ASSUME RouteTypeOK, [Next]_vars
  PROVE  RouteTypeOK' /\ (NoStrandedNotes /\ SilencersSuffice => NoStrandedNotes')
<1> DEFINE Goal == RouteTypeOK' /\ (NoStrandedNotes /\ SilencersSuffice => NoStrandedNotes')
<1>1. ASSUME NEW k \in Keys, NoteOn(k) PROVE Goal
  BY <1>1, NoteOnStep
<1>2. ASSUME NEW k \in Keys, NoteOff(k) PROVE Goal
  BY <1>2, NoteOffStep
<1>3. ASSUME NEW command \in Silencers, Silence(command) PROVE Goal
  BY <1>3, SilenceStep DEF SilencersSuffice
<1>4. ASSUME NEW d \in Devices, Plug(d) PROVE Goal
  BY <1>4 DEF Plug, Notify, RouteTypeOK, NoStrandedNotes, sink, notes, status
<1>5. ASSUME NEW d \in Devices, Unplug(d) PROVE Goal
  BY <1>5, UnplugStep
<1>6. CASE StartWatch
  BY <1>6 DEF StartWatch, RouteTypeOK, NoStrandedNotes, sink, notes, status
<1>7. CASE WatchReceive
  BY <1>7 DEF WatchReceive, RouteTypeOK, NoStrandedNotes, sink, notes, status
<1>8. ASSUME NEW dest \in Options(Devices), SetDestination(dest) PROVE Goal
  <2>1. op' \subseteq OpType /\ \A o, u \in op' : o = u
    BY <1>8, ReconcileType DEF SetDestination
  <2> QED
    BY <1>8, <2>1 DEF SetDestination, OpType, RouteTypeOK, NoStrandedNotes, sink, notes, watch
<1>9. CASE Rescan
  <2>1. op' \subseteq OpType /\ \A o, u \in op' : o = u
    BY <1>9, ReconcileType DEF Rescan, RouteTypeOK
  <2> QED
    BY <1>9, <2>1 DEF Rescan, OpType, RouteTypeOK, NoStrandedNotes, sink, notes, status, watch
<1>10. CASE WatchReconcile
  <2>1. op' \subseteq OpType /\ \A o, u \in op' : o = u
    BY <1>10, ReconcileType DEF WatchReconcile, RouteTypeOK
  <2> QED
    BY <1>10, <2>1 DEF WatchReconcile, OpType, RouteTypeOK, NoStrandedNotes, sink, notes, status
<1>11. CASE Enumerate
  <2>1. PICK o \in op :
          op' = {[o EXCEPT !.stage = "request", !.target = o.dest \cap present]}
    BY <1>11 DEF Enumerate
  <2>2. o.dest \cap present \in Options(Devices)
    BY DEF RouteTypeOK, Options
  <2>3. op' \subseteq OpType /\ \A x, y \in op' : x = y
    BY <2>1, <2>2 DEF RouteTypeOK, OpType
  <2> QED
    BY <1>11, <2>3 DEF Enumerate, OpType, RouteTypeOK, NoStrandedNotes, sink, notes, status, watch
<1>12. ASSUME NEW works \in BOOLEAN, Connect(works) PROVE Goal
  <2>1. PICK o \in op :
          /\ Keep(o, works) \/ Replace(o, works) \/ Switch(o, works)
          /\ op' = {[o EXCEPT !.stage = "commit", !.ok = works]}
    BY <1>12 DEF Connect
  <2>2. UNCHANGED <<present, ledger, saved, status, watch>>
    BY <1>12 DEF Connect
  <2> QED
    BY <2>1, <2>2, ConnectStep DEF RouteTypeOK, status, watch
<1>13. CASE Commit
  BY <1>13 DEF Commit, RouteTypeOK, NoStrandedNotes, sink, notes, watch
<1>14. CASE UNCHANGED vars
  BY <1>14 DEF vars, RouteTypeOK, NoStrandedNotes, sink, notes, status, watch
<1> QED
  BY <1>1, <1>2, <1>3, <1>4, <1>5, <1>6, <1>7, <1>8, <1>9, <1>10, <1>11, <1>12, <1>13,
     <1>14 DEF Next, Reconciliation

\* Every state the routed leg, the watcher and the reconciliations reach is
\* well formed: in particular there is one connection and one holder of
\* midi_route_reconcile at a time, and no failing flag without a route.
THEOREM RouteType == Spec => []RouteTypeOK
<1>1. Init => RouteTypeOK
  BY TypeInit
<1>2. RouteTypeOK /\ [Next]_vars => RouteTypeOK'
  BY TypeStep
<1> QED
  BY <1>1, <1>2, PTL DEF Spec

\* disconnect_destination and replace_same_destination_connection of
\* cseq-midi: no switch, loss or replacement of the route leaves a receiver
\* sounding a key that active_notes no longer knows, where Stop's CC123 is
\* obeyed or only Panic silences.
THEOREM NoStranded ==
  ASSUME SilencersSuffice
  PROVE  Spec => []NoStrandedNotes
<1>1. Init => RouteTypeOK /\ NoStrandedNotes
  BY TypeInit
<1>2. RouteTypeOK /\ NoStrandedNotes /\ [Next]_vars => RouteTypeOK' /\ NoStrandedNotes'
  BY TypeStep
<1> QED
  BY <1>1, <1>2, PTL DEF Spec

-----------------------------------------------------------------------------
(************************************************************************** *)
(* The last selection                                                      *)
(************************************************************************** *)

\* LastSelectionWins speaks of the idle states only; OpInv says what holds
\* while a reconciliation is under way.
SelectionInv == OpInv /\ LastSelectionWins

LEMMA SelectionInit == Init => SelectionInv
BY DEF Init, SelectionInv, OpInv, LastSelectionWins, Idle, Reconcile, Options

LEMMA SelectionStep ==
  ASSUME RouteTypeOK, SelectionInv, [Next]_vars
  PROVE  SelectionInv'
<1> USE DEF SelectionInv, OpInv, LastSelectionWins, Idle
<1>1. ASSUME NEW k \in Keys, NoteOn(k) \/ NoteOff(k) PROVE SelectionInv'
  BY <1>1 DEF NoteOn, NoteOff, status
<1>2. ASSUME NEW command \in Silencers, Silence(command) PROVE SelectionInv'
  BY <1>2 DEF Silence, status
<1>3. ASSUME NEW d \in Devices, Plug(d) PROVE SelectionInv'
  BY <1>3 DEF Plug, sink, status
<1>4. ASSUME NEW d \in Devices, Unplug(d) PROVE SelectionInv'
  <2>1. UNCHANGED <<saved, status, op>>
    BY <1>4 DEF Unplug
  <2>2. \A c \in route' : \E e \in route : c.dest = e.dest
    BY <1>4, UnplugStep
  <2>3. route # {} => route' # {}
    BY <1>4, UnplugStep
  <2> QED
    BY <2>1, <2>2, <2>3 DEF status
<1>5. CASE StartWatch \/ WatchReceive
  BY <1>5 DEF StartWatch, WatchReceive, sink, status
<1>6. ASSUME NEW dest \in Options(Devices), SetDestination(dest) PROVE SelectionInv'
  BY <1>6, ReconcileType DEF SetDestination
<1>7. CASE Rescan
  BY <1>7, ReconcileType DEF Rescan, RouteTypeOK, status
<1>8. CASE WatchReconcile
  BY <1>8, ReconcileType DEF WatchReconcile, RouteTypeOK, status
<1>9. CASE Enumerate
  <2>1. PICK o \in op :
          op' = {[o EXCEPT !.stage = "request", !.target = o.dest \cap present]}
    BY <1>9 DEF Enumerate
  <2>2. op' # {} /\ \A u \in op' : /\ u.dest = o.dest /\ u.target = o.dest \cap present
                                  /\ u.stage = "request"
    BY <2>1 DEF RouteTypeOK
  <2> QED
    BY <1>9, <2>2 DEF Enumerate, status
<1>10. ASSUME NEW works \in BOOLEAN, Connect(works) PROVE SelectionInv'
  <2>1. PICK o \in op :
          /\ Keep(o, works) \/ Replace(o, works) \/ Switch(o, works)
          /\ op' = {[o EXCEPT !.stage = "commit", !.ok = works]}
    BY <1>10 DEF Connect
  <2>2. UNCHANGED <<ledger, saved, desired, connected>>
    BY <1>10 DEF Connect, status
  <2>3. op' # {} /\ \A u \in op' : u.dest = o.dest /\ u.target = o.target /\ u.ok = works
    BY <2>1 DEF RouteTypeOK
  <2>4. /\ \A c \in route' : {c.dest} = o.target
        /\ works /\ o.target # {} => route' # {}
    BY <2>1, <2>2, ConnectStep
  <2>5. o.dest \in Options(Devices) /\ o.target \subseteq o.dest /\ o.dest = desired
    BY DEF RouteTypeOK
  <2>6. \A c \in route' : {c.dest} = o.dest
    BY <2>4, <2>5 DEF Options
  <2> QED
    BY <2>2, <2>3, <2>4, <2>5, <2>6
<1>11. CASE Commit
  <2>1. PICK o \in op :
          /\ o.stage = "commit" /\ desired' = o.dest
          /\ connected' = (o.ok /\ o.target # {})
          /\ op' = {} /\ UNCHANGED <<route, saved>>
    BY <1>11 DEF Commit, sink
  <2> QED
    BY <2>1
<1>12. CASE UNCHANGED vars
  BY <1>12 DEF vars, sink, status
<1> QED
  BY <1>1, <1>2, <1>3, <1>4, <1>5, <1>6, <1>7, <1>8, <1>9, <1>10, <1>11, <1>12
     DEF Next, Reconciliation

\* midi_route_reconcile "makes destination selection linearizable with
\* hot-plug notifications" (main.rs): whatever selections, rescans and
\* notifications compete for the lock, once none holds it the route is to
\* the user's last choice or to nothing.
THEOREM SelectionWins == Spec => []LastSelectionWins
<1>1. Init => SelectionInv
  BY SelectionInit
<1>2. RouteTypeOK /\ SelectionInv /\ [Next]_vars => SelectionInv'
  BY SelectionStep
<1>3. SelectionInv => LastSelectionWins
  BY DEF SelectionInv
<1> QED
  BY <1>1, <1>2, <1>3, RouteType, PTL DEF Spec
=============================================================================
