------------------------------- MODULE Session -------------------------------
(***************************************************************************)
(* The supervising loop of core/main.c: it forks a gatekeeper and a logic  *)
(* engine for every target, reaps and replaces children that die, disables *)
(* a target whose gatekeeper gives up, passes the user's commands on as    *)
(* signals, and at the end stops and collects every child, the plugins     *)
(* included.                                                               *)
(*                                                                         *)
(* A process is a record at its pid; pids are not reused.  What matters of *)
(* a child is how far its start has come, for that decides what a signal   *)
(* does to it: children forked before line 243 have the default actions    *)
(* from the beginning, a replacement inherits main's handlers and has them *)
(* until it has run lines 97-98 (or 298-299), and a logic engine ignores   *)
(* SIGUSR1, as main does, until it has run logic.c:200.                    *)
(*                                                                         *)
(* kill(2) makes SIGUSR1 pending; the engine takes it when it next runs,   *)
(* and a second one sent before that is lost.  SIGINT and SIGTERM act with *)
(* the kill(2) itself: they end the process or are swallowed, no matter    *)
(* how often they are sent, and to take one later is to have been sent it  *)
(* later, since main does not look at the process in between.              *)
(*                                                                         *)
(* A logic engine never exits by itself: its loop has no end.  A           *)
(* gatekeeper exits only while it sets up its socket.                      *)
(*                                                                         *)
(* Of a plugin (module PluginHost has the details) only what can hold main *)
(* up or end it is kept: main writes to it through a pipe that may be      *)
(* full, and waits without a timeout for it to exit when it is stopped.    *)
(***************************************************************************)
EXTENDS Integers, Sequences, FiniteSets

CONSTANTS N,             \* targets given, at most NSR_MAX_TARGETS
          NumPlugins,    \* reg->count, at most NSR_MAX_PLUGINS
          MaxEvents      \* bound on what befalls the program: children killed
                         \*   or giving up, forks that fail, pauses, plugins
                         \*   toggled, exiting or not reading, the editor

ASSUME SessionAssumption ==
    /\ N \in Nat \ {0} /\ NumPlugins \in Nat /\ MaxEvents \in Nat

Sessions == 1..N
Roles    == {"gk", "logic"}
Plugins  == 1..NumPlugins

VARIABLES
    proc,        \* proc[pid]: every process ever forked
    pid,         \* pid[s][role]: gk_pid and logic_pid of g_sessions; -1 if
                 \*   fork failed
    active,      \* g_sessions[s].active
    running,     \* g_running
    pc,          \* main: "reap", "ui", "editor", "kill", "wait", "cleanup",
                 \*   "done", or "killed" by SIGPIPE
    waited,      \* main: children collected by the last loop
    plug,        \* plug[q]: what main has to do with plugin q, see below
    events       \* how many of those have happened

mainVars == <<pid, active, running, pc, waited>>
vars == <<proc, mainVars, plug, events>>

Starting == {"boot", "inherit", "reset"}
Live     == Starting \cup {"running"}
Zombie   == {"exited", "killed"}
Ended    == {"done", "killed"}

(* A plugin is "off" (not started, or stopped and collected), "up", or has *)
(* exited: "ended", and "lost" once main has found out.  In the other      *)
(* states main is in a blocking call: "full", a write of the frame to its  *)
(* pipe; "stopping", the write of `cleanup'; "told", waitpid.              *)
Gone    == {"ended", "lost"}
Holding == {"full", "stopping", "told"}

(* main is in a call that only a plugin, or the user's editor, can end.    *)
Held == pc = "editor" \/ \E q \in Plugins : plug[q] \in Holding

(* usr1: SIGUSR1 is pending; paused: a logic engine's g_paused.            *)
(* Bookkeeping: deaf, the last SIGTERM main sent was swallowed by main's   *)
(* own handler; merged, a SIGUSR1 was lost because one was still pending.  *)
Process(s, role, st) == [sess |-> s, role |-> role, st |-> st, usr1 |-> FALSE,
                         paused |-> FALSE, deaf |-> FALSE, merged |-> FALSE]

\* nothing is kept of a process that ended
Dead(p, st) == Process(p.sess, p.role, st)

Init ==
    /\ proc = [p \in 1..(2 * N) |->
                  Process((p + 1) \div 2, IF p % 2 = 1 THEN "gk" ELSE "logic", "boot")]
    /\ pid = [s \in Sessions |-> [gk |-> 2 * s - 1, logic |-> 2 * s]]
    /\ active = [s \in Sessions |-> TRUE]
    /\ running = TRUE
    /\ pc = "reap" /\ waited = 0
    /\ plug \in [Plugins -> {"off", "up"}]
    /\ events = 0

Event == events < MaxEvents /\ events' = events + 1

-----------------------------------------------------------------------------
(* Signals.                                                                *)

\* SIGINT of the terminal; main's handler, inherited, swallows it
OnInt(p) == IF p.st \in {"boot", "reset", "running"} THEN Dead(p, "killed") ELSE p

\* SIGTERM of main: the same, and remembered
OnTerm(p) == IF p.st = "inherit" THEN [p EXCEPT !.deaf = TRUE] ELSE OnInt(p)

\* mutant: line 245 moved before the first forks, so that every child
\* ignores the signal until it has a handler
OnUsr1_Ignored(p) == IF p.st = "running" THEN [p EXCEPT !.usr1 = TRUE, !.merged = @ \/ p.usr1] ELSE p

\* SIGUSR1 of main: dropped while ignored, else pending, once at most
OnUsr1(p) == IF p.st \in {"boot", "running"} THEN [p EXCEPT !.usr1 = TRUE, !.merged = @ \/ p.usr1] ELSE p

\* kill(2) on every pid of a set
Kill(procs, pids, On(_)) == [q \in DOMAIN procs |-> IF q \in pids THEN On(procs[q]) ELSE procs[q]]

-----------------------------------------------------------------------------
(* Children.                                                               *)

ChildStart(p) ==
    /\ proc[p].st \in Starting
    /\ proc' = [proc EXCEPT ![p].st = IF @ = "inherit" THEN "reset" ELSE "running"]
    /\ UNCHANGED <<mainVars, plug, events>>

handle_sigusr1(p) == [p EXCEPT !.usr1 = FALSE, !.paused = ~@]

\* before the handler is installed the default action is taken
TakeUsr1(p) ==
    /\ proc[p].st \in Live /\ proc[p].usr1
    /\ proc' = [proc EXCEPT ![p] = IF @.st = "boot" THEN Dead(@, "killed") ELSE handle_sigusr1(@)]
    /\ UNCHANGED <<mainVars, plug, events>>

\* the target address or the raw socket is refused: exit(1)
GkExit(p) ==
    /\ proc[p].role = "gk" /\ proc[p].st \in {"boot", "reset"}
    /\ Event
    /\ proc' = [proc EXCEPT ![p] = Dead(@, "exited")]
    /\ UNCHANGED <<mainVars, plug>>

ChildCrash(p) ==
    /\ proc[p].st \in Live
    /\ Event
    /\ proc' = [proc EXCEPT ![p] = Dead(@, "killed")]
    /\ UNCHANGED <<mainVars, plug>>

-----------------------------------------------------------------------------
(* Plugins and the editor: nothing makes them act.                         *)

\* room in the pipe: the write that main is in goes through
PluginReads(q) ==
    /\ plug[q] \in {"full", "stopping"}
    /\ plug' = [plug EXCEPT ![q] = IF @ = "full" THEN "up" ELSE "told"]
    /\ UNCHANGED <<proc, mainVars, events>>

(* A plugin exits: waitpid returns, or the write main is in raises SIGPIPE *)
(* and ends main, or nobody notices yet.                                   *)
PluginExits(q) ==
    /\ pc \notin Ended /\ plug[q] \in {"up"} \cup Holding
    /\ IF plug[q] = "up" THEN Event ELSE UNCHANGED events
    /\ plug' = [plug EXCEPT ![q] = IF @ = "told" THEN "off" ELSE "ended"]
    /\ pc' = IF plug[q] \in {"full", "stopping"} THEN "killed" ELSE pc
    /\ UNCHANGED <<proc, pid, active, running, waited>>

EditorEnds ==
    /\ pc = "editor" /\ pc' = "reap"
    /\ UNCHANGED <<proc, pid, active, running, waited, plug, events>>

-----------------------------------------------------------------------------
(* main: reaping.                                                          *)

\* mutant: the new pid is not stored
Spawn_ForgetsPid(procs, s, role) ==
    /\ proc' = Append(procs, Process(s, role, "inherit"))
    /\ UNCHANGED <<pid, events>>

(* fork() for a role of a session, on top of the processes `procs'.        *)
Spawn(procs, s, role) ==
    \/ /\ proc' = Append(procs, Process(s, role, "inherit"))
       /\ pid' = [pid EXCEPT ![s][role] = Len(procs) + 1]
       /\ UNCHANGED events
    \/ /\ Event
       /\ proc' = procs
       /\ pid' = [pid EXCEPT ![s][role] = -1]

\* mutants: a crashed gatekeeper is not replaced; the logic engine of a
\* disabled target is not stopped
GkReaped_NoRespawn(procs, s, st) ==
    /\ active' = IF st = "exited" THEN [active EXCEPT ![s] = FALSE] ELSE active
    /\ proc' = IF st = "exited" THEN Kill(procs, {pid[s]["logic"]}, OnTerm) ELSE procs
    /\ UNCHANGED <<pid, events>>

GkReaped_NoKill(procs, s, st) ==
    IF st = "exited"
    THEN active' = [active EXCEPT ![s] = FALSE] /\ proc' = procs /\ UNCHANGED <<pid, events>>
    ELSE Spawn(procs, s, "gk") /\ UNCHANGED active

(* waitpid(-1, WNOHANG) returned a child of session s.                     *)
GkReaped(procs, s, st) ==
    IF st = "exited"
    THEN /\ active' = [active EXCEPT ![s] = FALSE]
         /\ proc' = Kill(procs, {pid[s]["logic"]}, OnTerm)
         /\ UNCHANGED <<pid, events>>
    ELSE /\ Spawn(procs, s, "gk")
         /\ UNCHANGED active

\* mutant: the wrong role is started
LogicReaped_WrongRole(procs, s, st) ==
    IF st = "exited" \/ ~active[s]
    THEN active' = [active EXCEPT ![s] = FALSE] /\ proc' = procs /\ UNCHANGED <<pid, events>>
    ELSE Spawn(procs, s, "gk") /\ UNCHANGED active

LogicReaped(procs, s, st) ==
    IF st = "exited" \/ ~active[s]
    THEN /\ active' = [active EXCEPT ![s] = FALSE]
         /\ proc' = procs
         /\ UNCHANGED <<pid, events>>
    ELSE /\ Spawn(procs, s, "logic")
         /\ UNCHANGED active

(* The pass over the sessions that follows: without an active one the loop *)
(* will end.  Only main changes `active', so nothing comes in between.     *)
Scan == running' = (running /\ \E s \in Sessions : active'[s]) /\ pc' = "ui"

\* plugin_check_alive on every plugin
CheckAlive == plug' = [q \in Plugins |-> IF plug[q] = "ended" THEN "lost" ELSE plug[q]]

Reap(p) ==
    /\ pc = "reap" /\ running
    /\ proc[p].st \in Zombie
    /\ LET procs == [proc EXCEPT ![p].st = "reaped"]
           s     == proc[p].sess
       IN  IF pid[s]["gk"] = p THEN GkReaped(procs, s, proc[p].st)
           ELSE IF pid[s]["logic"] = p THEN LogicReaped(procs, s, proc[p].st)
           ELSE proc' = procs /\ UNCHANGED <<pid, active, events>>
    /\ Scan /\ CheckAlive
    /\ UNCHANGED waited

\* waitpid has no child of a session to return, or returns a plugin
NothingToReap ==
    /\ pc = "reap" /\ running
    /\ \/ \A p \in DOMAIN proc : proc[p].st \notin Zombie
       \/ \E q \in Plugins : plug[q] = "ended"
    /\ UNCHANGED active /\ Scan /\ CheckAlive
    /\ UNCHANGED <<proc, pid, waited, events>>

LoopEnds ==
    /\ pc = "reap" /\ ~running
    /\ pc' = "kill"
    /\ UNCHANGED <<proc, pid, active, running, waited, plug, events>>

-----------------------------------------------------------------------------
(* main: the command the TUI returns, 1 (quit), 2 (pause), or one that no  *)
(* other process sees: 0 (none), 4 and 5 (interval_ms, of which every      *)
(* child has its own copy since its fork), 6 (dashboard); and what a key   *)
(* does to a plugin.                                                       *)

UiNone ==
    /\ pc = "ui" /\ pc' = "reap"
    /\ UNCHANGED <<proc, pid, active, running, waited, plug, events>>

UiQuit ==
    /\ pc = "ui" /\ pc' = "kill"
    /\ UNCHANGED <<proc, pid, active, running, waited, plug, events>>

UiPause ==
    /\ pc = "ui" /\ pc' = "reap"
    /\ Event
    /\ proc' = Kill(proc, {pid[s]["logic"] : s \in Sessions}, OnUsr1)
    /\ UNCHANGED <<pid, active, running, waited, plug>>

(* plugin_stop: `cleanup', for which there may be no room, then SIGTERM    *)
(* and waitpid.  A plugin that has exited and whose pipe main has not read *)
(* to its end since then is written to all the same: SIGPIPE.              *)
Stop(q, next) ==
    \/ /\ plug[q] = "up"
       /\ \E st \in {"told", "stopping"} : plug' = [plug EXCEPT ![q] = st]
       /\ pc' = next
    \/ plug[q] \in Gone /\ plug' = [plug EXCEPT ![q] = "off"] /\ pc' = next
    \/ plug[q] \in Gone /\ pc' = "killed" /\ UNCHANGED plug

UiDisable(q) ==
    /\ pc = "ui" /\ Event /\ Stop(q, "reap")
    /\ UNCHANGED <<proc, pid, active, running, waited>>

(* plugin_spawn: `init' is answered; or it is not, and the plugin is       *)
(* stopped; or the plugin is gone before `init' is written.                *)
UiEnable(q) ==
    /\ pc = "ui" /\ plug[q] = "off" /\ Event
    /\ \/ pc' = "reap" /\ \E st \in {"up", "told"} : plug' = [plug EXCEPT ![q] = st]
       \/ pc' = "killed" /\ UNCHANGED plug
    /\ UNCHANGED <<proc, pid, active, running, waited>>

\* a message of this frame does not fit into the pipe
UiBlocks(q) ==
    /\ pc = "ui" /\ plug[q] = "up" /\ Event
    /\ plug' = [plug EXCEPT ![q] = "full"]
    /\ UNCHANGED <<proc, mainVars>>

\* a message of this frame to a plugin that exited since it was checked
UiPipe(q) ==
    /\ pc = "ui" /\ plug[q] = "ended"
    /\ pc' = "killed"
    /\ UNCHANGED <<proc, pid, active, running, waited, plug, events>>

\* a plugin has asked for the editor: system(3)
UiEditor ==
    /\ pc = "ui" /\ \E q \in Plugins : plug[q] = "up"
    /\ pc' = "editor" /\ Event
    /\ UNCHANGED <<proc, pid, active, running, waited, plug>>

-----------------------------------------------------------------------------
(* main: the end.                                                          *)

\* mutant: only the gatekeepers are told
KillAll_GkOnly ==
    /\ pc = "kill" /\ pc' = "wait"
    /\ proc' = Kill(proc, {pid[s]["gk"] : s \in Sessions}, OnTerm)
    /\ UNCHANGED <<pid, active, running, waited, plug, events>>

KillAll ==
    /\ pc = "kill" /\ pc' = "wait"
    /\ proc' = Kill(proc, {pid[s][r] : s \in Sessions, r \in Roles}, OnTerm)
    /\ UNCHANGED <<pid, active, running, waited, plug, events>>

\* the child whose turn it is: gatekeeper and logic engine of each session
Awaited == pid[waited \div 2 + 1][IF waited % 2 = 0 THEN "gk" ELSE "logic"]

(* waitpid without WNOHANG; it fails at once for a pid already reaped.     *)
WaitOne ==
    /\ pc = "wait"
    /\ IF Awaited \in DOMAIN proc
       THEN /\ proc[Awaited].st \notin Live
            /\ proc' = [proc EXCEPT ![Awaited].st = "reaped"]
       ELSE UNCHANGED proc
    /\ waited' = waited + 1
    /\ pc' = IF waited' = 2 * N THEN "cleanup" ELSE "wait"
    /\ UNCHANGED <<pid, active, running, plug, events>>

\* nsr_plugins_cleanup: one plugin after the other
CleanupOne(q) ==
    /\ pc = "cleanup" /\ \A r \in 1..(q - 1) : plug[r] = "off"
    /\ Stop(q, "cleanup")
    /\ UNCHANGED <<proc, pid, active, running, waited, events>>

Finish ==
    /\ pc = "cleanup" /\ \A q \in Plugins : plug[q] = "off"
    /\ pc' = "done"
    /\ UNCHANGED <<proc, pid, active, running, waited, plug, events>>

-----------------------------------------------------------------------------
(* Signals from outside: to main alone, or Ctrl-C to the whole group.      *)

Terminate ==
    /\ pc \notin Ended /\ running
    /\ running' = FALSE
    /\ UNCHANGED <<proc, pid, active, pc, waited, plug, events>>

\* system(3) has main ignore SIGINT while the editor runs
CtrlC ==
    /\ pc \notin Ended \cup {"editor"} /\ running
    /\ running' = FALSE
    /\ proc' = Kill(proc, DOMAIN proc, OnInt)
    /\ UNCHANGED <<pid, active, pc, waited, plug, events>>

-----------------------------------------------------------------------------
Main == /\ ~Held
        /\ \/ \E p \in DOMAIN proc : Reap(p)
           \/ NothingToReap \/ LoopEnds
           \/ UiNone \/ UiQuit \/ UiPause \/ UiEditor
           \/ \E q \in Plugins : \/ UiDisable(q) \/ UiEnable(q)
                                  \/ UiBlocks(q) \/ UiPipe(q) \/ CleanupOne(q)
           \/ KillAll \/ WaitOne \/ Finish

Start == \E p \in DOMAIN proc : ChildStart(p)

Next == \/ Main
        \/ Start
        \/ \E p \in DOMAIN proc : TakeUsr1(p) \/ GkExit(p) \/ ChildCrash(p)
        \/ \E q \in Plugins : PluginReads(q) \/ PluginExits(q)
        \/ EditorEnds \/ Terminate \/ CtrlC

Spec == Init /\ [][Next]_vars

(* Main and its starting children are scheduled; nobody has to press a     *)
(* key, leave the editor, or read or exit as a plugin.                     *)
FairSpec == Spec /\ WF_vars(Main) /\ WF_vars(Start)

-----------------------------------------------------------------------------
(* Properties.                                                             *)

(* Types of the supervisor's state.                                        *)
TypeOK ==
    /\ proc \in Seq([sess : Sessions, role : Roles, st : Live \cup Zombie \cup {"reaped"},
                     usr1 : BOOLEAN, paused : BOOLEAN, deaf : BOOLEAN, merged : BOOLEAN])
    /\ pid \in [Sessions -> [Roles -> DOMAIN proc \cup {-1}]]
    /\ active \in [Sessions -> BOOLEAN] /\ running \in BOOLEAN
    /\ pc \in {"reap", "ui", "editor", "kill", "wait", "cleanup"} \cup Ended
    /\ waited \in 0..(2 * N)
    /\ plug \in [Plugins -> {"off", "up"} \cup Gone \cup Holding]

Alive(s, role) == {p \in DOMAIN proc : proc[p].sess = s /\ proc[p].role = role /\ proc[p].st \in Live}

(* A session never has two live gatekeepers or two live logic engines, in  *)
(* whatever order children die, are reaped and replaced: each ring keeps   *)
(* its one producer and one consumer (shm_ring.h).                         *)
SingleIncarnation == TypeOK /\ \A s \in Sessions, r \in Roles : Cardinality(Alive(s, r)) <= 1

(* When main returns no child is left running, and none is a zombie: also  *)
(* not one that died, or was replaced, while the shutdown was beginning,   *)
(* and no plugin that exited, or was switched on or off, on the way.       *)
NoneLeft ==
    pc = "done" => /\ \A p \in DOMAIN proc : proc[p].st = "reaped"
                   /\ \A q \in Plugins : plug[q] = "off"

\* engine p of the first forks, at work, with every SIGUSR1 sent to it taken
Settled(p) == proc[p].st = "running" /\ ~proc[p].usr1 /\ ~proc[p].merged

(* However the signals of the pause key meet starting and dying children,  *)
(* the logic engines that have been there from the start, have lost no     *)
(* signal and have none waiting, are all paused or all at work: main keeps *)
(* no pause flag, each toggles its own.  Two presses before an engine runs *)
(* again are one signal to it; it then does the opposite of the others for *)
(* good, as does one that replaces a crashed engine: see PauseAgrees.      *)
PauseTogether ==
    \A s, t \in Sessions :
        Settled(2 * s) /\ Settled(2 * t) => proc[2 * s].paused = proc[2 * t].paused

(* A dead gatekeeper or logic engine of an active target is replaced,      *)
(* unless fork fails, the target is disabled, the program is stopping or   *)
(* has been ended by SIGPIPE, or main stays in a call for a plugin or the  *)
(* editor for ever.                                                        *)
Recovers ==
    \A s \in Sessions, r \in Roles :
        (active[s] /\ Alive(s, r) = {}) ~>
            (\/ Alive(s, r) # {} \/ ~active[s] \/ pid[s][r] = -1
             \/ pc \in {"kill", "wait", "cleanup"} \cup Ended \/ []Held)

(* A disabled target's logic engine does not stay behind, unless it is a   *)
(* replacement that took the SIGTERM of line 278 before it had reset the   *)
(* handlers it inherited.                                                  *)
DisabledStops ==
    \A s \in Sessions :
        ~active[s] ~> (Alive(s, "logic") = {} \/ \E p \in Alive(s, "logic") : proc[p].deaf)

StopAsked == ~running \/ pc = "kill" \/ \A s \in Sessions : ~active[s]

(* Once the program is asked to stop, or has no active target left, it     *)
(* ends, unless main waits for a child that has swallowed the one SIGTERM  *)
(* of the shutdown, or stays for ever in a write to a plugin that does not *)
(* read, in waitpid for one that does not exit, or in the editor.          *)
ShutdownEnds ==
    StopAsked ~> (\/ pc \in Ended
                  \/ pc = "wait" /\ Awaited \in DOMAIN proc /\ proc[Awaited].deaf
                  \/ []Held)

-----------------------------------------------------------------------------
(* What a document or a comment says and the code does not do: TLC refutes *)
(* it on this module.  Not part of a run; see `Divergences' in README.md.  *)

(* README.md:82, "`Q` -> Quit": without those exceptions.                  *)
QuitQuits == StopAsked ~> (pc = "done")

(* README.md:84, "`Z` -> Pause / Resume tracing": the key pauses or        *)
(* resumes tracing as a whole, so the logic engines that have no signal    *)
(* waiting agree.                                                          *)
PauseAgrees ==
    \A p, q \in DOMAIN proc :
        (/\ proc[p].role = "logic" /\ proc[p].st = "running" /\ ~proc[p].usr1
         /\ proc[q].role = "logic" /\ proc[q].st = "running" /\ ~proc[q].usr1)
            => proc[p].paused = proc[q].paused
=============================================================================
