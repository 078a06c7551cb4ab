---------------------------- MODULE ConfigReload ----------------------------
(***************************************************************************)
(* The configuration reloader (internal/config/reload.go): one goroutine   *)
(* that reloads on SIGHUP and, after a debounce, on changes of the file,   *)
(* beside callers of the public Reload.  Reload reads the file, compares   *)
(* with the current configuration, stores the new one and tells the        *)
(* subscribers one by one; nothing keeps two Reloads apart.                *)
(*                                                                         *)
(* The file system is an adversary: it writes the file in place, moves it  *)
(* away, removes it or moves another over it, and creates it anew.  The    *)
(* watch is on the file that was there when it was added.                  *)
(*                                                                         *)
(* A configuration is named by the file it was loaded from; Config gives   *)
(* what Load made of it.                                                   *)
(***************************************************************************)
EXTENDS ConfigRules

CONSTANTS
    Contents,      \* parsed files (see ConfigRules)
    Broken,        \* a file that does not parse
    Missing,       \* no file
    Callers,       \* goroutines that call Reload
    Loop,          \* the reloader's own goroutine
    Subscribers,   \* number of subscribers
    MaxEdits,      \* bound: changes of the file
    MaxSignals     \* bound: SIGHUPs

ASSUME CallersAssumption == Loop \notin Callers
ASSUME SubscribersAssumption == Subscribers \in Nat

\* The agents of a parsed file.
AgentConfig ==
    [name : STRING, url : STRING, timeout : Int, max_streams : Int, default : BOOLEAN,
     poll_interval : Int, card_change_policy : STRING, grpc_url : STRING]

ASSUME ContentsAssumption == \A c \in Contents : c.agents \in Seq(AgentConfig)

VARIABLES
    file,          \* what is at configPath
    watched,       \* the watcher watches the file that is there now
    event,         \* a write, create or rename event waits in the watcher
    sig,           \* a signal waits in sigChan
    watchFile,     \* ConfigReloader.watchFile
    phase,         \* "new", "failed" (Start), "running", "stopping", "stopped"
    timer,         \* the debounce timer runs, or has fired unread
    currentCfg,    \* ConfigReloader.currentCfg
    stage,            \* stage[a]: "idle", "load", "loaded", "store", "notify"
    newCfg,        \* newCfg[a]: what a loaded
    nextSub,       \* nextSub[a]: the subscriber a tells next
    held,          \* held[s]: the configuration s works with
    declined,      \* history: s returned an error the last time
    overlapped,    \* history: two Reloads ran beside each other
    unseen,        \* history: the last change came before Start
    edits,         \* bounded: changes of the file so far
    signals        \* bounded: signals so far

disk == <<file, watched, event, unseen, edits>>
life == <<watchFile, phase>>
subs == <<held, declined>>
work == <<stage, newCfg, nextSub>>
reloadVars == <<disk, sig, signals, life, timer, currentCfg, work, subs, overlapped>>

Actors == Callers \cup {Loop}
Subs == 1 .. Subscribers

Config == [c \in Contents |-> ApplyDefaults(c)]
Valid == {c \in Contents : Loads(c)}
Changes == [c \in Contents \X Contents |-> Diff(Config[c[1]], Config[c[2]])]

\* The gateway loaded the file it found; the reloader is built with that.
ReloadInit ==
    /\ file \in Valid
    /\ currentCfg = file
    /\ watchFile = Has(Config[file], "reload_watch_file")
    /\ watched = FALSE /\ event = FALSE /\ sig = FALSE
    /\ phase = "new" /\ timer = FALSE
    /\ stage = [a \in Actors |-> "idle"]
    /\ newCfg = [a \in Actors |-> currentCfg]
    /\ nextSub = [a \in Actors |-> 1]
    /\ held = [s \in Subs |-> currentCfg]
    /\ declined = [s \in Subs |-> FALSE]
    /\ overlapped = FALSE /\ unseen = FALSE
    /\ edits = 0 /\ signals = 0

----------------------------------------------------------------------------
(* The file and the operator *)

Edit ==
    /\ edits < MaxEdits
    /\ edits' = edits + 1
    /\ unseen' = (phase = "new")
    /\ UNCHANGED <<sig, signals, life, timer, currentCfg, work, subs, overlapped>>

\* In place: the watch stays.  A writer may truncate first, so anything may
\* be there for a while.
WriteFile ==
    /\ Edit
    /\ file # Missing
    /\ file' \in (Contents \cup {Broken}) \ {file}
    /\ event' = (event \/ watched)
    /\ UNCHANGED watched

\* The file is moved away: an event, and the watch goes with it.
MoveAway ==
    /\ Edit
    /\ file # Missing
    /\ file' = Missing
    /\ event' = (event \/ watched)
    /\ watched' = FALSE

\* It is removed, or another is moved over it: a remove event is not
\* among those the loop reacts to, and the watch is gone.
RemoveOrReplace ==
    /\ Edit
    /\ file # Missing
    /\ file' \in (Contents \cup {Missing}) \ {file}
    /\ watched' = FALSE
    /\ UNCHANGED event

CreateFile ==
    /\ Edit
    /\ file = Missing
    /\ file' \in Contents
    /\ UNCHANGED <<watched, event>>

\* sigChan has room for one signal; others that come meanwhile are dropped.
Signal ==
    /\ phase \in {"running", "stopping"}
    /\ signals < MaxSignals
    /\ signals' = signals + 1
    /\ sig' = TRUE
    /\ UNCHANGED <<disk, life, timer, currentCfg, work, subs, overlapped>>

----------------------------------------------------------------------------
(* Start, Stop *)

Start ==
    /\ phase = "new"
    /\ IF watchFile /\ file = Missing
          THEN phase' = "failed" /\ UNCHANGED watched
          ELSE phase' = "running" /\ watched' = watchFile
    /\ UNCHANGED <<file, event, unseen, edits, sig, signals, watchFile, timer, currentCfg,
                   work, subs, overlapped>>

\* The context is cancelled; Stop then waits for the loop.
Stop ==
    /\ phase = "running"
    /\ phase' = "stopping"
    /\ UNCHANGED <<disk, sig, signals, watchFile, timer, currentCfg, work, subs, overlapped>>

----------------------------------------------------------------------------
(* Reload, by its caller or by the loop *)

Busy == {a \in Actors : stage[a] # "idle"}

BeginReload(a) ==
    /\ stage[a] = "idle"
    /\ stage' = [stage EXCEPT ![a] = "load"]
    /\ overlapped' = (overlapped \/ Busy # {})
    /\ UNCHANGED <<newCfg, nextSub>>

Call(a) ==
    /\ a \in Callers
    /\ BeginReload(a)
    /\ UNCHANGED <<disk, sig, signals, life, timer, currentCfg, subs>>

Goto(a, s) == stage' = [stage EXCEPT ![a] = s]

\* Load: an unreadable, unparsable or invalid file changes nothing.
ReadFile(a) ==
    /\ stage[a] = "load"
    /\ \/ file \notin Valid /\ Goto(a, "idle") /\ UNCHANGED newCfg
       \/ /\ file \in Valid
          /\ newCfg' = [newCfg EXCEPT ![a] = file]
          /\ Goto(a, "loaded")
    /\ UNCHANGED <<disk, sig, signals, life, timer, currentCfg, nextSub, subs, overlapped>>

\* Mutant: an event that came since is dropped, as if the file just read
\* held that change too.
MutCompare(a) ==
    /\ stage[a] = "loaded"
    /\ Goto(a, IF Changes[<<currentCfg, newCfg[a]>>] = {} THEN "idle" ELSE "store")
    /\ event' = FALSE
    /\ UNCHANGED <<file, watched, unseen, edits, sig, signals, life, timer, currentCfg, newCfg,
                   nextSub, subs, overlapped>>

\* oldCfg is read, and compared.
Compare(a) ==
    /\ stage[a] = "loaded"
    /\ Goto(a, IF Changes[<<currentCfg, newCfg[a]>>] = {} THEN "idle" ELSE "store")
    /\ UNCHANGED <<disk, sig, signals, life, timer, currentCfg, newCfg, nextSub, subs, overlapped>>

\* The whole new configuration is stored, what needs a restart with it.
Store(a) ==
    /\ stage[a] = "store"
    /\ currentCfg' = newCfg[a]
    /\ Goto(a, IF Subscribers = 0 THEN "idle" ELSE "notify")
    /\ UNCHANGED <<disk, sig, signals, life, timer, newCfg, nextSub, subs, overlapped>>

After(a) ==
    IF nextSub[a] = Subscribers
    THEN Goto(a, "idle") /\ nextSub' = [nextSub EXCEPT ![a] = 1]
    ELSE nextSub' = [nextSub EXCEPT ![a] = @ + 1] /\ UNCHANGED stage

\* Mutant: the first subscriber that declines ends the round.
MutNotify(a) ==
    /\ stage[a] = "notify"
    /\ \/ /\ held' = [held EXCEPT ![nextSub[a]] = newCfg[a]]
          /\ declined' = [declined EXCEPT ![nextSub[a]] = FALSE]
          /\ After(a)
       \/ /\ declined' = [declined EXCEPT ![nextSub[a]] = TRUE]
          /\ Goto(a, "idle")
          /\ UNCHANGED <<held, nextSub>>
    /\ UNCHANGED <<disk, sig, signals, life, timer, currentCfg, newCfg, overlapped>>

\* A subscriber takes the configuration, or returns an error and keeps its
\* own; the next one is told in either case.
Notify(a) ==
    /\ stage[a] = "notify"
    /\ \/ /\ held' = [held EXCEPT ![nextSub[a]] = newCfg[a]]
          /\ declined' = [declined EXCEPT ![nextSub[a]] = FALSE]
       \/ /\ declined' = [declined EXCEPT ![nextSub[a]] = TRUE]
          /\ UNCHANGED held
    /\ After(a)
    /\ UNCHANGED <<disk, sig, signals, life, timer, currentCfg, newCfg, overlapped>>

----------------------------------------------------------------------------
(* run *)

Selecting == phase \in {"running", "stopping"} /\ stage[Loop] = "idle"

TakeSignal ==
    /\ Selecting /\ sig
    /\ sig' = FALSE
    /\ BeginReload(Loop)
    /\ UNCHANGED <<disk, signals, life, timer, currentCfg, subs>>

\* The timer starts anew with each event.
TakeEvent ==
    /\ Selecting /\ event
    /\ event' = FALSE
    /\ timer' = TRUE
    /\ UNCHANGED <<file, watched, unseen, edits, sig, signals, life, currentCfg, work, subs,
                   overlapped>>

\* The watch is added before the file is read; that it cannot be is ignored.
DebounceFires ==
    /\ Selecting /\ timer
    /\ timer' = FALSE
    /\ watched' = (file # Missing)
    /\ BeginReload(Loop)
    /\ UNCHANGED <<file, event, unseen, edits, sig, signals, life, currentCfg, subs>>

LoopEnds ==
    /\ Selecting /\ phase = "stopping"
    /\ phase' = "stopped"
    /\ watched' = FALSE
    /\ timer' = FALSE
    /\ UNCHANGED <<file, event, unseen, edits, sig, signals, watchFile, currentCfg, work, subs,
                   overlapped>>

----------------------------------------------------------------------------

Reload(a) == ReadFile(a) \/ Compare(a) \/ Store(a) \/ Notify(a)

Run == TakeSignal \/ TakeEvent \/ DebounceFires \/ LoopEnds \/ Reload(Loop)

ReloadNext ==
    \/ WriteFile \/ MoveAway \/ RemoveOrReplace \/ CreateFile
    \/ Signal \/ Start \/ Stop
    \/ Run
    \/ \E a \in Callers : Call(a) \/ Reload(a)

\* The loop's goroutine runs; nothing else has to happen.
ReloadSpec == ReloadInit /\ [][ReloadNext]_reloadVars /\ WF_reloadVars(Run)

----------------------------------------------------------------------------
(* Properties *)

\* When no Reload runs and none ever overlapped, every subscriber works with
\* the current configuration, or declined it: one that declines keeps nobody
\* else from being told.
AgreeUnlessOverlapped ==
    Busy = {} /\ ~overlapped => \A s \in Subs : held[s] = currentCfg \/ declined[s]

\* Whatever was written, and filled in by defaults, and however Reloads
\* interleave, what is current, and what a subscriber works with, has some
\* agent, at most one default, for each agent a positive interval to poll in
\* (NewTicker panics at any other) and a timeout, and for gRPC a port other
\* than that of HTTP.
Usable(c) ==
    /\ c.agents # <<>> /\ AtMostOneDefault(c)
    /\ \A i \in DOMAIN c.agents : c.agents[i].poll_interval > 0 /\ c.agents[i].timeout > 0
    /\ Has(c, "listen_port")
    /\ Has(c, "listen_grpc_port") => c.settings.listen_grpc_port # c.settings.listen_port

OnlyUsable == Usable(Config[currentCfg]) /\ \A s \in Subs : Usable(Config[held[s]])

\* Diff tells nothing apart any more; the configurations may still differ in
\* what it does not compare.
NothingToDiff == file \in Valid /\ Changes[<<currentCfg, file>>] = {}

\* Nothing changes the file any more; the loop watches it, and watched it when
\* it was last changed, or a signal waits.
Quiet ==
    /\ edits = MaxEdits /\ file \in Valid
    /\ phase = "running"
    /\ sig \/ (watched /\ ~unseen)

\* The last change of a watched file reaches the current configuration, moved
\* files included, in every setting and agent field that Diff compares, unless
\* Reloads overlap or the reloader is stopped.  Policies are not among them: a
\* change of the policies alone is dropped (reload.go:124-127; README, section 5).
ComparedSettle == Quiet ~> (NothingToDiff \/ overlapped \/ phase # "running")
=============================================================================
