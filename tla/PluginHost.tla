----------------------------- MODULE PluginHost -----------------------------
(***************************************************************************)
(* One installed plugin of the OpenWA bridge: PluginsService (install,     *)
(* update, uninstall, settings), PluginLoaderService (load, enable,        *)
(* disable), PluginWorkerHost (the worker thread the plugin runs in) and   *)
(* HookManager (the events it is called for).                              *)
(*                                                                         *)
(* An operation waits for the worker: for load, onLoad and onEnable, for   *)
(* onDisable, for the thread to exit.  Everything between two waits runs   *)
(* in one turn of the event loop.  The exit of a worker resumes every      *)
(* operation that waits for it: these (pc in Resumed) go on in some order  *)
(* before the next request or message is looked at.                        *)
(***************************************************************************)
EXTENDS Naturals, FiniteSets

CONSTANTS
    Op,          \* requests that can run at once
    Host,        \* worker hosts that can exist at once
    Instance,    \* PluginInstance objects that can exist at once
    Version,     \* package versions
    Nil,         \* no host, instance, directory, entry or event
    MaxRequests, \* bound: requests of the operator
    MaxEvents,   \* bound: hook events
    MaxPluginFaults   \* bound: wedged, failing and crashing workers, failing writes, restarts

ASSUME BoundAssumption == {MaxRequests, MaxEvents, MaxPluginFaults} \subseteq Nat
ASSUME NilAssumption == Nil \notin Host \cup Instance \cup Version

VARIABLES
    cur,      \* this.plugins.get(id)
    status,   \* status[i] of PluginInstance i
    ver,      \* ver[i]: version in i's manifest
    settings, \* settings[i]: does i hold the operator's settings or the defaults?
    entry,    \* what the registry file holds of them, Nil without an entry
    enabling, \* this.enabling.has(id)
    slot,     \* this.sandboxHosts.get(id)
    worker,   \* worker[h]: the thread of host h
    owner,    \* owner[h]: the instance host h was made for
    subs,     \* hosts whose worker has subscribed to the event
    hooks,    \* registrations in the hook manager, by the host that made them
    dir,      \* version in <plugins>/<id>
    bak,      \* version in <plugins>/<id>.bak
    kept,     \* history: version of the last install or update that succeeded
    cut,      \* history: is the backup one that a restart in an update left behind?
    op,       \* op[p]: the request p is working on
    chain,    \* the event being handed to the registered handlers
    raced,    \* was the plugin taken away from an operation still at work on it?
    requests, events, pluginFaults

memVars == <<cur, status, ver, settings, enabling>>
hostVars == <<slot, worker, owner, subs, hooks>>
diskVars == <<entry, dir, bak, kept, cut>>
boundVars == <<requests, events, pluginFaults>>
pluginVars == <<memVars, hostVars, diskVars, op, chain, raced, boundVars>>

PluginStatus == {"INSTALLED", "ENABLED", "DISABLED", "ERROR"}
Kind == {"enable", "disable", "uninstall", "update", "restore"}
Resumed == {"go", "fail", "gone", "back"}
PC == {"up", "dropped", "off", "term"} \cup Resumed
Work ==
    [kind : Kind, pc : PC, inst : Instance, host : Host \cup {Nil}, was : BOOLEAN, file : Version \cup {Nil}]
Idle == [kind |-> Nil, pc |-> "idle", inst |-> Nil, host |-> Nil, was |-> FALSE, file |-> Nil]

PluginInit ==
    /\ cur = Nil
    /\ status = [i \in Instance |-> "INSTALLED"]
    /\ ver = [i \in Instance |-> Nil]
    /\ settings = [i \in Instance |-> "default"]
    /\ entry = Nil
    /\ enabling = FALSE
    /\ slot = Nil
    /\ worker = [h \in Host |-> "dead"]
    /\ owner = [h \in Host |-> Nil]
    /\ subs = {}
    /\ hooks = {}
    /\ dir = Nil
    /\ bak = Nil
    /\ kept = Nil /\ cut = FALSE
    /\ op = [p \in Op |-> Idle]
    /\ chain = Nil
    /\ raced = FALSE
    /\ requests = 0 /\ events = 0 /\ pluginFaults = 0

-----------------------------------------------------------------------------
\* Nothing is left to do in this turn of the event loop.
Settled == \A p \in Op : op[p].pc \notin Resumed

Request(p) ==
    /\ Settled
    /\ op[p] = Idle
    /\ requests < MaxRequests
    /\ requests' = requests + 1

PluginFault ==
    /\ pluginFaults < MaxPluginFaults
    /\ pluginFaults' = pluginFaults + 1

Finish(p) == op' = [op EXCEPT ![p] = Idle]
Goto(p, l) == op' = [op EXCEPT ![p].pc = l]

\* Hosts and instances nothing refers to any more; one of them stands for a new one.
FreshHosts == {h \in Host :
    /\ worker[h] = "dead" /\ slot # h /\ h \notin hooks
    /\ \A p \in Op : op[p].host # h
    /\ chain # Nil => chain.at # h /\ h \notin chain.todo}
FreshInstances == {i \in Instance :
    /\ cur # i
    /\ \A p \in Op : op[p].inst # i
    /\ \A h \in Host : owner[h] = i => worker[h] = "dead" /\ h \notin hooks}
NewHost == CHOOSE h \in FreshHosts : TRUE
NewInstance == CHOOSE i \in FreshInstances : TRUE

\* ensureRegistryEntry keeps what the operator has set.
Stored == IF entry = Nil THEN "default" ELSE entry

\* loadPlugin of a directory that holds version v.
Load(i, v) ==
    /\ i \in FreshInstances
    /\ cur' = i
    /\ status' = [status EXCEPT ![i] = "INSTALLED"]
    /\ ver' = [ver EXCEPT ![i] = v]
    /\ settings' = [settings EXCEPT ![i] = Stored]
    /\ entry' = Stored

\* Mutant of MayEnable: the status alone decides, and it changes after the awaits.
MayEnableTwice == TRUE

\* The synchronous claim a second enable runs into.
MayEnable == ~enabling

\* enableSandboxed up to its first await: a new worker takes the slot.
BringUp(p, k, i) ==
    LET h == NewHost IN
    /\ h \in FreshHosts
    /\ enabling' = TRUE
    /\ slot' = h
    /\ worker' = [worker EXCEPT ![h] = "up"]
    /\ owner' = [owner EXCEPT ![h] = i]
    /\ subs' = subs \ {h}
    /\ op' = [op EXCEPT ![p] = [@ EXCEPT !.kind = k, !.pc = "up", !.inst = i, !.host = h]]
    /\ UNCHANGED hooks

-----------------------------------------------------------------------------
(* install, enable, disable, uninstall, update: the requests *)

\* install: a write that fails takes the directory away again.
Install(p, v) ==
    /\ Request(p)
    /\ cur = Nil /\ dir = Nil
    /\ \/ Load(NewInstance, v) /\ dir' = v /\ kept' = v /\ UNCHANGED pluginFaults
       \/ PluginFault /\ UNCHANGED <<cur, status, ver, settings, entry, dir, kept>>
    /\ UNCHANGED <<enabling, hostVars, bak, cut, op, chain, raced, events>>

Enable(p) ==
    /\ Request(p)
    /\ cur # Nil
    /\ status[cur] # "ENABLED"
    /\ MayEnable
    /\ BringUp(p, "enable", cur)
    /\ UNCHANGED <<cur, status, ver, settings, diskVars, chain, raced, events, pluginFaults>>

\* Where disablePlugin goes on after its synchronous part: a running worker is
\* asked to run onDisable, a dead one answers at once.
AfterOff == IF slot # Nil /\ worker[slot] # "dead" THEN "off" ELSE "go"

Disable(p) ==
    /\ Request(p)
    /\ cur # Nil
    /\ status[cur] = "ENABLED"
    /\ op' = [op EXCEPT ![p] = [Idle EXCEPT !.kind = "disable", !.pc = AfterOff, !.inst = cur, !.host = slot]]
    /\ UNCHANGED <<memVars, hostVars, diskVars, chain, raced, events, pluginFaults>>

\* unloadPlugin on the way to k: an instance that is not ENABLED is not disabled.
Unload(p, k, v) ==
    LET on == status[cur] = "ENABLED" IN
    /\ Request(p)
    /\ cur # Nil
    /\ op' = [op EXCEPT ![p] =
                 [kind |-> k, inst |-> cur, file |-> v, was |-> on,
                  pc |-> IF on THEN AfterOff ELSE "gone", host |-> IF on THEN slot ELSE Nil]]
    /\ UNCHANGED <<memVars, hostVars, diskVars, chain, raced, events, pluginFaults>>

Uninstall(p) == Unload(p, "uninstall", Nil)
Update(p) == \E v \in Version : Unload(p, "update", v)

\* updatePluginConfig, setPluginSessions and setPluginSessionConfig: the instance
\* and the registry file, in one turn.
UpdateSettings(s) ==
    /\ Settled
    /\ requests < MaxRequests /\ requests' = requests + 1
    /\ cur # Nil
    /\ settings[cur] # s
    /\ settings' = [settings EXCEPT ![cur] = s]
    /\ entry' = IF entry = Nil THEN Nil ELSE s
    /\ UNCHANGED <<cur, status, ver, enabling, hostVars, dir, bak, kept, cut, op, chain, raced, events, pluginFaults>>

-----------------------------------------------------------------------------
(* enablePlugin, after its awaits *)

EnableDone(p) ==
    /\ Settled
    /\ op[p].pc = "up"
    /\ worker[op[p].host] = "up"
    /\ status' = [status EXCEPT ![op[p].inst] = "ENABLED"]
    /\ enabling' = FALSE
    /\ IF op[p].kind = "update" THEN bak' = Nil /\ kept' = op[p].file ELSE UNCHANGED <<bak, kept>>
    /\ Finish(p)
    /\ UNCHANGED <<cur, ver, settings, hostVars, entry, dir, cut, chain, raced, boundVars>>

\* The thirty seconds a worker has for load, onLoad, onEnable and onDisable.
TimedOut(h) == worker[h] = "wedged"

\* The plugin throws, or does not answer in time: the worker is taken down.
BringUpFails(p) ==
    /\ Settled
    /\ op[p].pc = "up"
    /\ \/ worker[op[p].host] = "up" /\ PluginFault
       \/ TimedOut(op[p].host) /\ UNCHANGED pluginFaults
    /\ slot' = Nil
    /\ Goto(p, "dropped")
    /\ UNCHANGED <<memVars, worker, owner, subs, hooks, diskVars, chain, raced, requests, events>>

\* The catch and finally of enablePlugin, once the worker has exited.
EnableFails(p) ==
    /\ op[p].pc = "fail"
    /\ status' = [status EXCEPT ![op[p].inst] = "ERROR"]
    /\ hooks' = {}
    /\ enabling' = FALSE
    /\ IF op[p].kind = "update" THEN Goto(p, "back") ELSE Finish(p)
    /\ UNCHANGED <<cur, ver, settings, slot, worker, owner, subs, diskVars, chain, raced, boundVars>>

-----------------------------------------------------------------------------
(* disablePlugin and what comes after it *)

\* onDisable has answered, thrown or run out of time; terminate() is next.
LifecycleOver(p) ==
    /\ Settled
    /\ op[p].pc = "off"
    /\ worker[op[p].host] = "up" \/ TimedOut(op[p].host)
    /\ Goto(p, "term")
    /\ UNCHANGED <<memVars, hostVars, diskVars, chain, raced, boundVars>>

\* Whatever host is in the slot by now leaves it.
DisableEnds(p) ==
    /\ op[p].pc = "go"
    /\ slot' = Nil
    /\ hooks' = {}
    /\ status' = [status EXCEPT ![op[p].inst] = "DISABLED"]
    /\ raced' = (raced \/ slot \notin {op[p].host, Nil})
    /\ IF op[p].kind = "disable" THEN Finish(p) ELSE Goto(p, "gone")
    /\ UNCHANGED <<cur, ver, settings, enabling, worker, owner, subs, diskVars, chain, boundVars>>

\* plugins.delete(id) takes out another operation's instance, or one being enabled.
TakenAway(p) == enabling \/ cur # op[p].inst

Uninstalled(p) ==
    /\ op[p].pc = "gone" /\ op[p].kind = "uninstall"
    /\ cur' = Nil
    /\ entry' = Nil
    /\ dir' = Nil /\ kept' = Nil
    /\ raced' = (raced \/ TakenAway(p))
    /\ Finish(p)
    /\ UNCHANGED <<status, ver, settings, enabling, hostVars, bak, cut, chain, boundVars>>

\* A loaded directory is enabled if the plugin was: the rest of an update (k =
\* "update") and of its roll back (k = "restore").
Reenable(p, k, i) ==
    \/ op[p].was /\ MayEnable /\ BringUp(p, k, i)
    \/ op[p].was /\ ~MayEnable /\ UNCHANGED <<enabling, hostVars>>
       /\ IF k = "update" THEN Goto(p, "back") ELSE Finish(p)
    \/ ~op[p].was /\ Finish(p) /\ UNCHANGED <<enabling, hostVars>>

\* updatePackage after the unload: the directory becomes the backup, the package
\* is written and loaded.  Without a directory the rename throws, the old backup
\* already being gone.
Swapped(p) ==
    LET i == NewInstance IN
    /\ op[p].pc = "gone" /\ op[p].kind = "update"
    /\ raced' = (raced \/ TakenAway(p))
    /\ cut' = FALSE
    /\ \/ dir = Nil /\ cur' = Nil /\ bak' = Nil /\ Finish(p)
          /\ UNCHANGED <<status, ver, settings, enabling, hostVars, entry, dir, kept, pluginFaults>>
       \/ dir # Nil /\ PluginFault /\ cur' = Nil /\ bak' = dir /\ dir' = Nil /\ Goto(p, "back")
          /\ UNCHANGED <<status, ver, settings, enabling, hostVars, entry, kept>>
       \/ dir # Nil /\ Load(i, op[p].file) /\ dir' = op[p].file
          /\ bak' = (IF op[p].was THEN dir ELSE Nil) /\ kept' = (IF op[p].was THEN kept ELSE op[p].file)
          /\ Reenable(p, "update", i)
          /\ UNCHANGED pluginFaults
    /\ UNCHANGED <<chain, requests, events>>

\* Mutant of RolledBack: the new version is still loaded when the old one is put
\* back, so that loadPlugin throws.
RolledBackLoaded(p) ==
    LET i == NewInstance IN
    /\ op[p].pc = "back"
    /\ dir' = bak
    /\ bak' = Nil
    /\ IF bak = Nil \/ cur # Nil
       THEN Finish(p) /\ UNCHANGED <<memVars, hostVars, entry>>
       ELSE Load(i, bak) /\ Reenable(p, "restore", i)
    /\ UNCHANGED <<kept, cut, chain, raced, boundVars>>

\* The catch of updatePackage: the new version is unloaded and the backup put
\* back, loaded and enabled; what fails in that is swallowed.
RolledBack(p) ==
    LET i == NewInstance IN
    /\ op[p].pc = "back"
    /\ dir' = bak
    /\ bak' = Nil
    /\ IF bak = Nil
       THEN cur' = Nil /\ Finish(p) /\ UNCHANGED <<status, ver, settings, enabling, hostVars, entry>>
       ELSE Load(i, bak) /\ Reenable(p, "restore", i)
    /\ UNCHANGED <<kept, cut, chain, raced, boundVars>>

-----------------------------------------------------------------------------
(* The worker thread *)

\* registerHook in the plugin: the first one makes the host register its shim.
Subscribe(h) ==
    /\ Settled
    /\ worker[h] = "up"
    /\ h \notin subs
    /\ subs' = subs \cup {h}
    /\ hooks' = hooks \cup {h}
    /\ UNCHANGED <<memVars, slot, worker, owner, diskVars, op, chain, raced, boundVars>>

\* The plugin loops or never answers.
Wedge(h) ==
    /\ Settled
    /\ worker[h] = "up"
    /\ PluginFault
    /\ worker' = [worker EXCEPT ![h] = "wedged"]
    /\ UNCHANGED <<memVars, slot, owner, subs, hooks, diskVars, op, chain, raced, requests, events>>

\* What the exit of its worker means for an operation.
AfterExit(r) ==
    [r EXCEPT !.pc = IF @ \in {"up", "dropped"} THEN "fail" ELSE IF @ \in {"off", "term"} THEN "go" ELSE @]

\* terminate() has been called for the worker.
Terminated(h) == \E p \in Op : op[p].host = h /\ op[p].pc \in {"term", "dropped"}

\* handleExit: all calls that wait for the worker fail, its hooks let the event
\* pass.  An enable still under way drops its host.
Exit(h) ==
    /\ Settled
    /\ worker[h] # "dead"
    /\ \/ Terminated(h) /\ UNCHANGED pluginFaults
       \/ ~Terminated(h) /\ PluginFault
    /\ worker' = [worker EXCEPT ![h] = "dead"]
    /\ slot' = IF \E p \in Op : op[p].host = h /\ op[p].pc = "up" THEN Nil ELSE slot
    /\ op' = [p \in Op |-> IF op[p].host = h THEN AfterExit(op[p]) ELSE op[p]]
    /\ chain' = IF chain # Nil /\ chain.at = h THEN [chain EXCEPT !.at = Nil] ELSE chain
    /\ UNCHANGED <<memVars, owner, subs, hooks, diskVars, raced, requests, events>>

-----------------------------------------------------------------------------
(* HookManager.execute: one event at a time *)

EventArrives ==
    /\ Settled
    /\ chain = Nil
    /\ hooks # {}
    /\ events < MaxEvents /\ events' = events + 1
    /\ chain' = [todo |-> hooks, at |-> Nil]
    /\ UNCHANGED <<memVars, hostVars, diskVars, op, raced, requests, pluginFaults>>

\* The shim of registration r: the host that is in the slot now gets the event,
\* if the plugin is active for the session.
RunHandler(r) ==
    /\ Settled
    /\ chain # Nil
    /\ chain.at = Nil /\ r \in chain.todo
    /\ chain' =
          IF slot = Nil \/ settings[owner[r]] = "nowhere"
          THEN [chain EXCEPT !.todo = @ \ {r}]
          ELSE [todo |-> chain.todo \ {r}, at |-> slot]
    /\ UNCHANGED <<memVars, hostVars, diskVars, op, raced, boundVars>>

\* Mutant of HookOver: no time limit, the chain waits for the plugin.
HookAnswered(h) == worker[h] = "up"

\* The worker answers, or its five seconds are over.
HookOver(h) == worker[h] = "up" \/ worker[h] \in {"wedged", "dead"}

\* Only an answer can say { continue: false }.
HookResult ==
    /\ Settled
    /\ chain # Nil
    /\ chain.at # Nil
    /\ HookOver(chain.at)
    /\ \/ chain' = [chain EXCEPT !.at = Nil]
       \/ worker[chain.at] = "up" /\ chain' = [chain EXCEPT !.at = Nil, !.todo = {}]
    /\ UNCHANGED <<memVars, hostVars, diskVars, op, raced, boundVars>>

ChainDone ==
    /\ Settled
    /\ chain # Nil
    /\ chain.at = Nil /\ chain.todo = {}
    /\ chain' = Nil
    /\ UNCHANGED <<memVars, hostVars, diskVars, op, raced, boundVars>>

-----------------------------------------------------------------------------
\* The process is killed during a wait and started again: onModuleInit loads
\* every directory with a manifest, <id> before <id>.bak, and enables none.
HostRestart ==
    LET v == IF dir # Nil THEN dir ELSE bak IN
    /\ Settled
    /\ PluginFault
    /\ enabling' = FALSE
    /\ slot' = Nil /\ hooks' = {} /\ subs' = {}
    /\ worker' = [h \in Host |-> "dead"]
    /\ owner' = [h \in Host |-> Nil]
    /\ op' = [p \in Op |-> Idle]
    /\ chain' = Nil
    /\ raced' = FALSE
    /\ kept' = dir /\ cut' = (bak # Nil)
    /\ IF v = Nil THEN cur' = Nil /\ UNCHANGED <<status, ver, settings, entry>>
       ELSE Load(NewInstance, v)
    /\ UNCHANGED <<dir, bak, requests, events>>

Turn(p) ==
    \/ EnableDone(p) \/ BringUpFails(p) \/ EnableFails(p)
    \/ LifecycleOver(p) \/ DisableEnds(p) \/ Uninstalled(p) \/ Swapped(p) \/ RolledBack(p)

Chain == (\E r \in Host : RunHandler(r)) \/ HookResult \/ ChainDone

PluginNext ==
    \/ \E p \in Op : \/ \E v \in Version : Install(p, v)
                     \/ Enable(p) \/ Disable(p) \/ Uninstall(p) \/ Update(p)
                     \/ Turn(p)
    \/ \E s \in {"default", "nowhere"} : UpdateSettings(s)
    \/ \E h \in Host : Subscribe(h) \/ Wedge(h) \/ Exit(h)
    \/ EventArrives
    \/ Chain
    \/ HostRestart

PluginSpec == PluginInit /\ [][PluginNext]_pluginVars

\* Resumed code runs, workers answer or run out of time, and a thread that is
\* told to terminate does.  No request, fault or event has to come.
FairPluginSpec ==
    /\ PluginSpec
    /\ \A p \in Op : WF_pluginVars(Turn(p))
    /\ \A h \in Host : WF_pluginVars(Terminated(h) /\ Exit(h))
    /\ WF_pluginVars(Chain)

-----------------------------------------------------------------------------
(* Properties *)

Quiet == \A p \in Op : op[p] = Idle

\* Every variable has its type; a request names an instance and a package only
\* while it runs.
PluginTypeOK ==
    /\ cur \in Instance \cup {Nil}
    /\ status \in [Instance -> PluginStatus]
    /\ ver \in [Instance -> Version \cup {Nil}]
    /\ settings \in [Instance -> {"default", "nowhere"}]
    /\ entry \in {"default", "nowhere", Nil}
    /\ enabling \in BOOLEAN
    /\ slot \in Host \cup {Nil}
    /\ worker \in [Host -> {"up", "wedged", "dead"}]
    /\ owner \in [Host -> Instance \cup {Nil}]
    /\ subs \subseteq Host /\ hooks \subseteq subs
    /\ {dir, bak, kept} \subseteq Version \cup {Nil} /\ cut \in BOOLEAN
    /\ op \in [Op -> Work \cup {Idle}]
    /\ \/ chain = Nil
       \/ chain \in [todo : SUBSET Host, at : Host \cup {Nil}]
    /\ raced \in BOOLEAN
    /\ {requests, events, pluginFaults} \subseteq Nat

\* No worker thread is forgotten: one that runs is in the slot, where disable
\* finds it, or an operation is about to end it (disablePlugin, enableSandboxed).
NoWorkerIsLost ==
    ~raced => \A h \in Host : worker[h] # "dead" => slot = h \/ \E p \in Op : op[p].host = h

\* An update is all or nothing (updatePackage: "a bad update never leaves the plugin
\* broken").  Between requests the version on disk and the one in memory are the one
\* of the last install or update that succeeded, so after a failed update, whatever
\* failed in it, the old version is back in both; and no backup is left behind.  A
\* restart in an update starts afresh from what is in the directory, and the backup
\* it leaves is there until the next update.
LoadedIsOnDisk ==
    Quiet /\ ~raced =>
        /\ ~cut => bak = Nil /\ (cur = Nil <=> kept = Nil)
        /\ dir = kept
        /\ dir # Nil => cur # Nil /\ ver[cur] = dir

\* A wedged or crashed plugin holds up no event for good (dispatchHook's time
\* limit, handleExit).
EventsPass == chain # Nil ~> chain = Nil
=============================================================================
