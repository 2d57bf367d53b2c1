-------------------------------- MODULE Wlan --------------------------------
(***************************************************************************)
(* The association watchdog of wlan.c.  The SDK's station connects on its  *)
(* own; wlan.c hears of it by events (wlan_event_handler), counts the      *)
(* seconds it is in its present state (wlan_periodic, called once a second *)
(* by the slow timer) and acts when the network stays away: it scans and   *)
(* connects again, then opens an access point of its own (recovery mode),  *)
(* then resets.  The last two are posted as tasks and carried out later.   *)
(*                                                                         *)
(* The station is the SDK's: it gets and loses the network, fails attempts *)
(* and completes a scan when it likes.  Credentials are abstracted to      *)
(* whether there are any, scan results to what the callback decides from   *)
(* them (at most access_points_size answers: the callback stores them      *)
(* unchecked).  The four times are parameters, so that small ones can be   *)
(* checked; association_state_time stops growing once all have passed.     *)
(***************************************************************************)
EXTENDS Integers, Sequences

CONSTANTS
  BootstrapTime,  \* 60: the first association is then made anew
  ReconnectTime,  \* 15: time away before an explicit reconnect
  RecoveryTime,   \* 60: time away before recovery mode
  ResetTime,      \* 300: time away before a reset
  QueueBound,     \* events the high priority task queue has room for
  EventBound,     \* SDK events not yet handled, for the station's actions
  FaultBound,     \* refused SDK calls and lost posts
  CommandBound    \* commands the user gives

ASSUME WlanAssumption ==
  /\ {BootstrapTime, ReconnectTime, RecoveryTime} \subseteq 0 .. ResetTime
  /\ {ResetTime, QueueBound, EventBound, FaultBound, CommandBound} \subseteq Nat

VARIABLES
  flags,      \* the set of the wlan flags that are 1
  time,       \* association_state_time
  scanning,   \* access_points.scanning
  task,       \* the wlan tasks in the high priority queue
  mode,       \* configured wlan.mode
  known,      \* the modes whose ssid and password are configured
  station,    \* the SDK: its mode, whether it tries to connect, its link
  saved,      \* the SDK has saved credentials for the station
  event,      \* SDK events not yet delivered
  late,       \* how many of them came before the last second
  scan,       \* a scan is under way
  refused,    \* wlan_associate has counted a scan the SDK did not start
  boot,       \* flips at every reset
  faults, commands

wlanvars == <<flags, time, scanning, task, mode, known, station, saved, event,
          late, scan, refused, boot, faults, commands>>

Flag == {"bootstrap", "reconnect", "recovery", "associated"}
Task == {"reconnect", "recovery", "reset"}
Mode == {"client", "ap"}
Event == {"got_ip", "disconnected"}
Station == [opmode : {"station", "ap"}, trying : BOOLEAN, link : BOOLEAN]

Associated == "associated" \in flags

Spend(n) == faults + n <= FaultBound /\ faults' = faults + n
Cost(ok) == IF ok THEN 0 ELSE 1

(* Deliver the loss of the link, if there was one. *)
Dropped == IF station.link THEN Append(event, "disconnected") ELSE event

(* dispatch_post_task of each of new: what finds the queue full is lost. *)
Posted(new) ==
  LET q == task \o new
  IN  SubSeq(q, 1, IF Len(q) > QueueBound THEN QueueBound ELSE Len(q))
-----------------------------------------------------------------------------
(* wlan_init after a start or restart; the SDK connects the station to     *)
(* the network it has saved.                                               *)
Started(m, s) ==
  [opmode |-> IF m = "client" THEN "station" ELSE "ap",
   trying |-> m = "client" /\ s,
   link |-> FALSE]

WlanInit ==
  /\ flags = {"bootstrap"}
  /\ time = 0
  /\ scanning = 0
  /\ task = <<>>
  /\ mode \in Mode
  /\ known \in SUBSET Mode
  /\ saved \in BOOLEAN
  /\ station = Started(mode, saved)
  /\ event = <<>>
  /\ late = 0
  /\ scan = FALSE
  /\ refused = FALSE
  /\ boot = 0
  /\ faults = 0
  /\ commands = 0

(* task_reset. *)
Restart ==
  /\ flags' = {"bootstrap"}
  /\ time' = 0
  /\ scanning' = 0
  /\ task' = <<>>
  /\ station' = Started(mode, saved)
  /\ event' = <<>>
  /\ late' = 0
  /\ scan' = FALSE
  /\ refused' = FALSE
  /\ boot' = 1 - boot
  /\ UNCHANGED <<mode, known, saved, faults, commands>>
-----------------------------------------------------------------------------
(* wlan_access_point; ok: the SDK changes the mode. *)
AccessPoint(ok) ==
  /\ station' = [opmode |-> IF ok THEN "ap" ELSE station.opmode,
                 trying |-> FALSE,
                 link |-> FALSE]
  /\ event' = Dropped
  /\ UNCHANGED <<scanning, scan, refused>>

(* wlan_associate; not ok: the SDK refuses the mode or the scan.  The      *)
(* request stays counted then.                                             *)
Associate(ok) ==
  IF scanning > 0
    THEN UNCHANGED <<station, event, scanning, scan, refused>>
    ELSE /\ scanning' = 1
         /\ scan' = ok
         /\ refused' = ~ok
         /\ station' \in {station, [station EXCEPT !.opmode = "station"]}
         /\ ok => station'.opmode = "station"
         /\ UNCHANGED event

(* wlan_reconnect to the mode m, but for the flag it clears. *)
Reconnect(m, ok) ==
  IF m \notin known
    THEN UNCHANGED <<station, event, scanning, scan, refused>>
    ELSE IF m = "client" THEN Associate(ok) ELSE AccessPoint(ok)

(* ... and the flag it clears, when that mode is configured. *)
ClearedBy(m) == IF m \in known THEN {"recovery"} ELSE {}
-----------------------------------------------------------------------------
\* Seeded fault: in recovery mode there is no reset.
ForgetfulDue(t) ==
  IF Associated
    THEN IF "bootstrap" \in flags /\ t > BootstrapTime
           THEN <<"reconnect">> ELSE <<>>
    ELSE IF "recovery" \notin flags /\ t > RecoveryTime
           THEN IF t > ResetTime THEN <<"recovery", "reset">> ELSE <<"recovery">>
           ELSE <<>>

(* The tasks wlan_periodic posts at the time t. *)
Due(t) ==
  IF Associated
    THEN IF "bootstrap" \in flags /\ t > BootstrapTime
           THEN <<"reconnect">> ELSE <<>>
    ELSE (IF "recovery" \notin flags /\ t > RecoveryTime
            THEN <<"recovery">> ELSE <<>>)
         \o (IF t > ResetTime THEN <<"reset">> ELSE <<>>)

(* wlan_periodic.  post: the queue takes the tasks, call: the SDK obeys    *)
(* the explicit reconnect, if there is one.  The SDK delivers an event     *)
(* within a second.                                                        *)
Periodic ==
  LET t == IF time > ResetTime THEN time ELSE time + 1
      again == ~Associated /\ t > ReconnectTime
               /\ flags \cap {"recovery", "reconnect"} = {}
  IN  \E call, post \in BOOLEAN :
        /\ late = 0
        /\ late' = Len(event)
        /\ Spend(Cost(call) + Cost(post))
        /\ time' = t
        /\ task' = IF post THEN Posted(Due(t)) ELSE task
        /\ flags' = IF again
                      THEN (flags \cup {"reconnect"}) \ ClearedBy(mode)
                      ELSE IF Associated /\ Due(t) # <<>>
                             THEN flags \ {"bootstrap"}
                             ELSE flags
        /\ IF again
             THEN Reconnect(mode, call)
             ELSE call /\ UNCHANGED <<station, event, scanning, scan, refused>>
        /\ UNCHANGED <<mode, known, saved, boot, commands>>

(* wlan_start_recovery, task_wlan_recovery. *)
StartRecovery ==
  /\ task # <<>> /\ Head(task) = "recovery"
  /\ task' = Tail(task)
  /\ flags' = {"recovery"}
  /\ time' = 0
  /\ \E ok \in BOOLEAN : Spend(Cost(ok)) /\ AccessPoint(ok)
  /\ UNCHANGED <<late, mode, known, saved, boot, commands>>

(* task_wlan_reconnect. *)
ReconnectTask ==
  /\ task # <<>> /\ Head(task) = "reconnect"
  /\ task' = Tail(task)
  /\ flags' = flags \ ClearedBy(mode)
  /\ \E ok \in BOOLEAN : Spend(Cost(ok)) /\ Reconnect(mode, ok)
  /\ UNCHANGED <<late, time, mode, known, saved, boot, commands>>

ResetTask ==
  /\ task # <<>> /\ Head(task) = "reset"
  /\ Restart
-----------------------------------------------------------------------------
\* Seeded fault: in recovery mode the news of an address is not taken.
FaultyHandle(e) ==
  IF e = "got_ip" /\ "recovery" \notin flags
    THEN /\ flags' = (flags \ {"reconnect", "recovery"}) \cup {"associated"}
         /\ time' = 0
    ELSE IF e = "disconnected" /\ Associated
           THEN flags' = flags \ {"associated"} /\ time' = 0
           ELSE UNCHANGED <<flags, time>>

\* Seeded fault: every failed attempt starts the time anew.
EagerHandle(e) ==
  /\ flags' = IF e = "got_ip"
                THEN (flags \ {"reconnect", "recovery"}) \cup {"associated"}
                ELSE flags \ {"associated"}
  /\ time' = 0

(* What wlan_event_handler does of an event. *)
Handle(e) ==
  IF e = "got_ip"
    THEN /\ flags' = (flags \ {"reconnect", "recovery"}) \cup {"associated"}
         /\ time' = 0
    ELSE IF Associated
           THEN flags' = flags \ {"associated"} /\ time' = 0
           ELSE UNCHANGED <<flags, time>>

EventHandler ==
  /\ event # <<>>
  /\ event' = Tail(event)
  /\ late' = IF late > 0 THEN late - 1 ELSE 0
  /\ Handle(Head(event))
  /\ UNCHANGED <<scanning, task, mode, known, station, saved, scan, refused,
                 boot, faults, commands>>

(* access_points.scanning after a scan. *)
Scanned(found) == IF scanning > 0 THEN scanning - 1 ELSE scanning

(* wlan_associate_callback: nothing is found, or the station is on the     *)
(* channel of the best access point already, or it is to connect to that.  *)
(* The SDK takes the last for an order only while in station mode.         *)
AssociateCallback ==
  /\ scan
  /\ scan' = FALSE
  /\ \E found \in {"nothing", "present", "better"} :
       /\ found = "present" => Associated
       /\ scanning' = Scanned(found)
       /\ IF found = "better" /\ station.opmode = "station"
            THEN /\ saved' = TRUE
                 /\ station' = [station EXCEPT !.trying = TRUE, !.link = FALSE]
                 /\ event' = Dropped
            ELSE UNCHANGED <<saved, station, event>>
  /\ UNCHANGED <<flags, time, task, mode, known, late, refused, boot,
                 faults, commands>>
-----------------------------------------------------------------------------
(* The user: "wcc", wlan_client_configure.  The SDK may refuse the mode,   *)
(* which is not looked at.                                                 *)
ClientConfigure ==
  /\ commands < CommandBound
  /\ commands' = commands + 1
  /\ known' = known \cup {"client"}
  /\ \E ok \in BOOLEAN :
       LET m == IF ok THEN "station" ELSE station.opmode
       IN  /\ Spend(Cost(ok))
           /\ station' = [opmode |-> m, trying |-> m = "station", link |-> FALSE]
           /\ saved' = (saved \/ m = "station")
  /\ event' = Dropped
  /\ UNCHANGED <<late, flags, time, scanning, task, mode, scan, refused, boot>>

(* The user: "wm", application_function_wlan_mode. *)
WlanMode(m) ==
  /\ commands < CommandBound
  /\ commands' = commands + 1
  /\ mode' = m
  /\ flags' = flags \ ClearedBy(m)
  /\ \E ok \in BOOLEAN : Spend(Cost(ok)) /\ Reconnect(m, ok)
  /\ UNCHANGED <<late, time, task, known, saved, boot>>
-----------------------------------------------------------------------------
(* The SDK's station reaches the network and gets an address, ...          *)
Connect ==
  /\ station.opmode = "station" /\ station.trying /\ ~station.link
  /\ Len(event) < EventBound
  /\ station' = [station EXCEPT !.link = TRUE]
  /\ event' = Append(event, "got_ip")
  /\ UNCHANGED <<flags, time, scanning, task, mode, known, saved, late, scan,
                 refused, boot, faults, commands>>

(* ... loses it or gives up an attempt, and will try again.                *)
LoseLink ==
  /\ station.opmode = "station" /\ station.trying
  /\ Len(event) < EventBound
  /\ station' = [station EXCEPT !.link = FALSE]
  /\ event' = Append(event, "disconnected")
  /\ UNCHANGED <<flags, time, scanning, task, mode, known, saved, late, scan,
                 refused, boot, faults, commands>>

TaskHandler == StartRecovery \/ ReconnectTask \/ ResetTask

WlanNext ==
  \/ Periodic
  \/ TaskHandler
  \/ EventHandler
  \/ AssociateCallback
  \/ ClientConfigure
  \/ \E m \in Mode : WlanMode(m)
  \/ Connect
  \/ LoseLink

WlanSpec == WlanInit /\ [][WlanNext]_wlanvars

(* The timer keeps running, the SDK delivers tasks, events and the ends of *)
(* scans.  Nothing is assumed of the network.                              *)
FairWlanSpec ==
  /\ WlanSpec
  /\ WF_wlanvars(Periodic)
  /\ WF_wlanvars(TaskHandler)
  /\ WF_wlanvars(EventHandler)
  /\ WF_wlanvars(AssociateCallback)
-----------------------------------------------------------------------------
WlanTypeOK ==
  /\ flags \subseteq Flag
  /\ time \in 0 .. ResetTime + 1
  /\ scanning \in 0 .. 1
  /\ task \in Seq(Task) /\ Len(task) <= QueueBound
  /\ mode \in Mode
  /\ known \subseteq Mode
  /\ station \in Station
  /\ saved \in BOOLEAN
  /\ event \in Seq(Event) /\ Len(event) <= EventBound + 1
  /\ late \in 0 .. Len(event)
  /\ scan \in BOOLEAN
  /\ refused \in BOOLEAN
  /\ boot \in 0 .. 1
  /\ faults \in 0 .. FaultBound
  /\ commands \in 0 .. CommandBound

(* Once the SDK's events are handled flags.associated says whether the     *)
(* station has its network, whatever recovery, reconnects, commands and    *)
(* late news did to the flag and to the link in between.                   *)
AssociatedTracksLink ==
  station.link = IF event = <<>> THEN Associated
                 ELSE event[Len(event)] = "got_ip"

(* access_points.scanning lets one scan at a time run, and shuts requests  *)
(* out with none running only after the SDK has refused to start one.      *)
(* (Nothing but a reset takes that count back.)                            *)
ScanAccounted == scanning = IF scan \/ refused THEN 1 ELSE 0

(* The watchdog's promise: a unit without network is associated or reset   *)
(* in the end, whatever mode it is in, however often the station fails,    *)
(* and though posts are lost and SDK calls refused.                        *)
ResetsWhenStranded ==
  \A b \in 0 .. 1 :
    (boot = b /\ ~Associated) ~> (Associated \/ boot # b)

(* A client with saved credentials always gets back to its network if      *)
(* attempts repeated for ever do not all fail: no state of recovery mode,  *)
(* of the flags or of a refused scan keeps it from trying.                 *)
ReturnsToNetwork ==
  SF_wlanvars(Connect) => (<>[](mode = "client" /\ saved) => []<>Associated)
=============================================================================
