----------------------------- MODULE PluginHost -----------------------------
(***************************************************************************)
(* The host's side of a plugin (plugin/plugin.c over json/json_rpc.c) in   *)
(* the frame loop of main.c: telemetry notification, render_hops, render,  *)
(* one key.  The plugin is a child process at the other end of two pipes;  *)
(* it answers requests in the order it reads them, may send force_sync on  *)
(* its own, may be slow or hang, and may die at any moment.                *)
(*                                                                         *)
(* A call of the host changes its entry and leaves what it writes in       *)
(* ent.out; HostWrite does the write(2)s one by one, so that the plugin    *)
(* can fall behind or die between a check and a write.  A pipe counts      *)
(* messages.  A line is kept as the fields the host reads from it.         *)
(***************************************************************************)
EXTENDS Integers, Sequences

CONSTANTS Builtin,    \* keys NSR acts on before it asks plugins
          Reserved,   \* keys the plugin reserved at init
          Generic,    \* the other keys
          QueueLen,   \* NSR_PLUGIN_KEY_QUEUE
          PipeCap,    \* messages that fit into the plugin's stdin
          MaxReads,   \* messages the plugin reads before it hangs
          MaxSyncs, MaxDeaths, MaxKeys, MaxToggles   \* bounds of a run

ASSUME PluginAssumption ==
    /\ QueueLen \in Nat \ {0} /\ PipeCap \in Nat \ {0}
    /\ {MaxReads, MaxSyncs, MaxDeaths, MaxKeys, MaxToggles} \subseteq Nat

Key   == Builtin \cup Reserved \cup Generic
NoKey == "none"

VARIABLES
    ent,       \* nsr_plugin_entry_t with its nsr_json_rpc_t
    enabled,   \* the entry's `enabled'
    pc,        \* the frame loop: "tel", "hops", "draw", "keys", "stop"
    host,      \* "up", or "killed" by SIGPIPE, which nothing in src/ handles
    child,     \* "up", "gone" (exited, reaped or not), "none" (rpc.pid = 0)
    stdin,     \* the plugin's stdin
    lastRead,  \* number of the last key the plugin has read
    pressed, acted,   \* keys pressed; keys NSR itself acted on
    reads, syncs, deaths, toggles   \* counters for the bounds

counters == <<reads, syncs, deaths, toggles>>
vars == <<ent, enabled, pc, host, child, stdin, lastRead, pressed, acted, counters>>

(* Pending flags and ids are one number, 0 when nothing is pending.  `told'*)
(* is no state of the program: the plugin has been modal to the host and   *)
(* has not said otherwise since.                                           *)
Entry0 == [initialized |-> FALSE, dead |-> FALSE, rpcDead |-> FALSE, next |-> 1,
           render |-> 0, hops |-> 0, key |-> 0, shown |-> "none", modal |-> FALSE,
           queue |-> <<>>, lastKey |-> NoKey, armed |-> FALSE, editor |-> FALSE,
           rx |-> <<>>, pipe |-> <<>>, out |-> <<>>, told |-> FALSE]

\* nsr_json_rpc_spawn gives the entry a new rpc; the id of init was 1
Spawned(e) == [e EXCEPT !.initialized = TRUE, !.rpcDead = FALSE, !.next = 2, !.rx = <<>>, !.pipe = <<>>]

Init ==
    /\ ent = Spawned(Entry0) /\ enabled = TRUE
    /\ pc = "tel" /\ host = "up"
    /\ child = "up" /\ stdin = <<>> /\ lastRead = 0
    /\ pressed = 0 /\ acted = 0
    /\ reads = 0 /\ syncs = 0 /\ deaths = 0 /\ toggles = 0

-----------------------------------------------------------------------------
(* json_rpc.c                                                              *)

Message(kind, id, n) == [kind |-> kind, id |-> id, n |-> n]

notify(e, kind) == IF e.rpcDead THEN e ELSE [e EXCEPT !.out = Append(@, Message(kind, 0, 0))]

\* slot: the pending field that takes the id
send_request(e, slot, n) ==
    IF e.rpcDead THEN [e EXCEPT !.dead = TRUE]
    ELSE [e EXCEPT !.next = @ + 1, ![slot] = e.next, !.out = Append(@, Message(slot, e.next, n))]

discard_queued(e) == [e EXCEPT !.rx = <<>>, !.pipe = <<>>, !.rpcDead = @ \/ child = "gone"]

-----------------------------------------------------------------------------
(* plugin.c                                                                *)

Usable(e) == enabled /\ e.initialized /\ ~e.dead

plugin_check_alive(e) ==
    IF e.initialized /\ child = "gone" THEN [e EXCEPT !.dead = TRUE, !.initialized = FALSE] ELSE e

plugin_send_next_key(e) ==
    IF e.key # 0 \/ e.rpcDead \/ e.queue = <<>> THEN e
    ELSE send_request([e EXCEPT !.queue = Tail(@)], "key", Head(e.queue))

\* mutant: the pending flag of render survives
plugin_force_sync_KeepsRender(e) ==
    [discard_queued(e) EXCEPT !.hops = 0, !.key = 0, !.shown = "none",
                              !.queue = <<>>, !.lastKey = NoKey, !.armed = FALSE, !.editor = FALSE]

plugin_force_sync(e) ==
    [discard_queued(e) EXCEPT !.render = 0, !.hops = 0, !.key = 0, !.shown = "none",
                              !.queue = <<>>, !.lastKey = NoKey, !.armed = FALSE, !.editor = FALSE]

SetModal(e, m) ==
    IF m = "absent" THEN e ELSE [e EXCEPT !.modal = (m = "yes"), !.told = (m = "yes")]

plugin_handle_on_key_result(e, line) ==
    LET e1 == SetModal(e, line.modal)
    IN  CASE line.act = "sync"   -> SetModal(plugin_force_sync(e), line.modal)
          [] line.act = "editor" -> [e1 EXCEPT !.editor = TRUE]
          [] OTHER               -> [e1 EXCEPT !.shown = IF line.handled THEN "none" ELSE @,
                                               !.lastKey = NoKey]

\* mutant: the next key is only sent after the answer to a key
HandleLine_NoNextKey(e, line) ==
    CASE line.kind = "sync" -> SetModal(plugin_force_sync(e), line.modal)
      [] e.render # 0 /\ line.id = e.render -> [e EXCEPT !.shown = line.modal, !.render = 0]
      [] e.hops # 0 /\ line.id = e.hops -> [e EXCEPT !.hops = 0]
      [] e.key # 0 /\ line.id = e.key -> plugin_handle_on_key_result([e EXCEPT !.key = 0], line)
      [] OTHER -> e

\* one line, as plugin_drain_response dispatches it
HandleLine(e, line) ==
    plugin_send_next_key(
        CASE line.kind = "sync" -> SetModal(plugin_force_sync(e), line.modal)
          [] e.render # 0 /\ line.id = e.render ->
                [e EXCEPT !.shown = line.modal, !.render = 0, !.told = @ /\ line.modal = "yes"]
          [] e.hops # 0 /\ line.id = e.hops -> [e EXCEPT !.hops = 0]
          [] e.key # 0 /\ line.id = e.key -> plugin_handle_on_key_result([e EXCEPT !.key = 0], line)
          [] OTHER -> e)

TakeLine(e) == HandleLine([e EXCEPT !.rx = Tail(@)], Head(e.rx))

(* With a timeout of 5 ms: a line that is buffered, else a read of the     *)
(* first n lines in the pipe, else end of file or nothing.                 *)
plugin_drain_response(e, n) ==
    IF e.rpcDead THEN e
    ELSE IF e.rx # <<>> THEN TakeLine(e)
    ELSE IF e.pipe # <<>>
    THEN TakeLine([e EXCEPT !.rx = SubSeq(e.pipe, 1, n), !.pipe = SubSeq(@, n + 1, Len(@))])
    ELSE [e EXCEPT !.rpcDead = (child = "gone")]

(* With a timeout of 0, until it fails: recv_line gives up before it polls,*)
(* so only what is buffered already is handled.                            *)
DrainBuffered(e) ==
    LET d[n \in 0..Len(e.rx)] ==
            IF n = 0 THEN e
            ELSE IF d[n - 1].rx = <<>> \/ d[n - 1].rpcDead THEN d[n - 1] ELSE TakeLine(d[n - 1])
    IN  d[Len(e.rx)]

\* mutant: the newest is put first
plugin_key_queue_enqueue_Front(queue, n) == <<n>> \o (IF Len(queue) >= QueueLen THEN Tail(queue) ELSE queue)

plugin_key_queue_enqueue(queue, n) ==
    Append(IF Len(queue) >= QueueLen THEN Tail(queue) ELSE queue, n)

(* soonModal: less than 120 ms after the last modal key; soonSame: less    *)
(* than 40 ms after the last key.                                          *)
plugin_try_on_key(e, ch, n, modal, soonModal, soonSame) ==
    LET e1 == IF modal THEN [e EXCEPT !.armed = TRUE] ELSE e
    IN  IF modal /\ e.armed /\ soonModal THEN e
        ELSE IF ch = e.lastKey /\ soonSame THEN e1
        ELSE plugin_send_next_key([e1 EXCEPT !.lastKey = ch,
                                             !.queue = plugin_key_queue_enqueue(@, n)])

(* The new entry, and whether NSR has to leave the key alone.              *)
nsr_plugins_on_key(e, ch, n, soonModal, soonSame) ==
    LET e1 == DrainBuffered(e)
    IN  IF ~Usable(e) THEN [ent |-> e, handled |-> FALSE]
        ELSE IF e1.editor THEN [ent |-> [e1 EXCEPT !.editor = FALSE], handled |-> TRUE]
        ELSE IF ~Usable(e1) THEN [ent |-> e1, handled |-> FALSE]
        ELSE [ent |-> plugin_try_on_key(e1, ch, n, e1.modal, soonModal, soonSame),
              handled |-> e1.modal \/ ch \in Reserved]

-----------------------------------------------------------------------------
(* The frame loop of the host.                                             *)

Ready(place) == host = "up" /\ ent.out = <<>> /\ pc = place

(* write(2): it waits while the pipe is full, and SIGPIPE ends the process *)
(* when nobody can read any more.                                          *)
HostWrite ==
    /\ host = "up" /\ ent.out # <<>>
    /\ \/ /\ child = "up" /\ Len(stdin) < PipeCap
          /\ stdin' = Append(stdin, Head(ent.out))
          /\ ent' = [ent EXCEPT !.out = Tail(@)]
          /\ UNCHANGED host
       \/ /\ child = "gone"
          /\ host' = "killed"
          /\ UNCHANGED <<stdin, ent>>
    /\ UNCHANGED <<enabled, pc, child, lastRead, pressed, acted, counters>>

nsr_plugins_update_telemetry ==
    /\ Ready("tel") /\ pc' = "hops"
    /\ LET e == plugin_check_alive(ent)
       IN  ent' = IF Usable(e) THEN notify(e, "telemetry") ELSE e
    /\ UNCHANGED <<enabled, host, child, stdin, lastRead, pressed, acted, counters>>

nsr_plugins_render_hops(n) ==
    /\ Ready("hops") /\ pc' = "draw"
    /\ LET e  == plugin_check_alive(ent)
           e1 == plugin_drain_response(e, n)
       IN  ent' = IF ~Usable(e) THEN e ELSE IF e1.hops = 0 THEN send_request(e1, "hops", 0) ELSE e1
    /\ UNCHANGED <<enabled, host, child, stdin, lastRead, pressed, acted, counters>>

nsr_plugins_render(n) ==
    /\ Ready("draw") /\ pc' = "keys"
    /\ LET e  == plugin_check_alive(ent)
           m  == ent.shown = "yes"
           e1 == plugin_drain_response([e EXCEPT !.modal = m, !.told = @ \/ m], n)
       IN  ent' = IF ~Usable(e) THEN e ELSE IF e1.render = 0 THEN send_request(e1, "render", 0) ELSE e1
    /\ UNCHANGED <<enabled, host, child, stdin, lastRead, pressed, acted, counters>>

\* another mode than Normal has no render_hops; a frozen screen has neither
SkipHops ==
    /\ Ready("hops") /\ pc' \in {"draw", "keys"}
    /\ UNCHANGED <<ent, enabled, host, child, stdin, lastRead, pressed, acted, counters>>

NoKeyPressed ==
    /\ Ready("keys") /\ pc' = "tel"
    /\ UNCHANGED <<ent, enabled, host, child, stdin, lastRead, pressed, acted, counters>>

(* nsr_tui_update: a modal plugin gets every key; else NSR's own keys come *)
(* first, then the plugin, then what NSR does with the rest.               *)
nsr_tui_update(ch, soonModal, soonSame) ==
    /\ Ready("keys") /\ pc' = "tel"
    /\ pressed < MaxKeys
    /\ pressed' = pressed + 1
    /\ LET e == plugin_check_alive(ent)
           r == nsr_plugins_on_key(e, ch, pressed', soonModal, soonSame)
       IN  IF ~(Usable(e) /\ e.modal) /\ ch \in Builtin
           THEN ent' = e /\ acted' = acted + 1
           ELSE /\ ent' = r.ent
                /\ acted' = IF r.handled \/ (Usable(e) /\ e.modal) THEN acted ELSE acted + 1
    /\ UNCHANGED <<enabled, host, child, stdin, lastRead, counters>>

-----------------------------------------------------------------------------
(* The Tools menu: nsr_plugins_set_enabled.                                *)

ToolsKey ==
    /\ Ready("keys") /\ toggles < MaxToggles
    /\ LET e == plugin_check_alive(ent) IN ~(Usable(e) /\ e.modal)
    /\ toggles' = toggles + 1
    /\ enabled' = ~enabled

\* plugin_stop, up to its notification
Disable ==
    /\ ToolsKey /\ enabled
    /\ ent' = IF child # "none" THEN notify(ent, "cleanup") ELSE ent
    /\ pc' = "stop"
    /\ UNCHANGED <<host, child, stdin, lastRead, pressed, acted, reads, syncs, deaths>>

\* the rest of plugin_stop: close, kill and wait, reset the entry
Stopped ==
    /\ Ready("stop") /\ pc' = "tel"
    /\ ent' = [Entry0 EXCEPT !.rpcDead = ent.rpcDead \/ child # "none"] /\ child' = "none" /\ stdin' = <<>>
    /\ UNCHANGED <<enabled, host, lastRead, pressed, acted, counters>>

\* plugin_spawn: a good answer to init; none within 2 s, or a bad one; fork
\* or pipe failed; the plugin gone before init is written
Enable ==
    /\ ToolsKey /\ ~enabled
    /\ \/ ent' = Spawned(ent) /\ child' = "up" /\ UNCHANGED <<host, deaths>>
       \/ /\ ent' = [ent EXCEPT !.dead = TRUE, !.rpcDead = TRUE]
          /\ UNCHANGED <<child, host, deaths>>
       \/ ent' = [ent EXCEPT !.rpcDead = FALSE] /\ UNCHANGED <<child, host, deaths>>
       \/ /\ deaths < MaxDeaths /\ deaths' = deaths + 1
          /\ host' = "killed" /\ UNCHANGED <<ent, child>>
    /\ pc' = "tel"
    /\ UNCHANGED <<stdin, lastRead, pressed, acted, reads, syncs>>

Host ==
    \/ HostWrite
    \/ nsr_plugins_update_telemetry
    \/ \E n \in 1..Len(ent.pipe) \cup {1} : nsr_plugins_render_hops(n) \/ nsr_plugins_render(n)
    \/ SkipHops \/ NoKeyPressed \/ Stopped

User ==
    \/ \E ch \in Key, soonModal, soonSame \in BOOLEAN : nsr_tui_update(ch, soonModal, soonSame)
    \/ Disable \/ Enable

-----------------------------------------------------------------------------
(* The plugin.                                                             *)

Line(kind, id, modal, handled, act) ==
    [kind |-> kind, id |-> id, modal |-> modal, handled |-> handled, act |-> act]

Says == {"yes", "no", "absent"}

KeyAnswers(id) == {Line("key", id, m, h, "none") : m \in Says, h \in BOOLEAN}
                    \cup {Line("key", id, m, TRUE, a) : m \in {"yes", "absent"}, a \in {"sync", "editor"}}

Answers(msg) ==
    CASE msg.kind = "render" -> {<<Line("render", msg.id, m, FALSE, "none")>> : m \in {"yes", "no"}}
      [] msg.kind = "hops"   -> {<<Line("hops", msg.id, "absent", FALSE, "none")>>}
      [] msg.kind = "key"    -> {<<line>> : line \in KeyAnswers(msg.id)}
      [] OTHER               -> {<<>>}

PluginStep ==
    /\ child = "up" /\ stdin # <<>> /\ reads < MaxReads
    /\ reads' = reads + 1
    /\ stdin' = Tail(stdin)
    /\ lastRead' = IF Head(stdin).kind = "key" THEN Head(stdin).n ELSE lastRead
    /\ \E lines \in Answers(Head(stdin)) : ent' = [ent EXCEPT !.pipe = @ \o lines]
    /\ UNCHANGED <<enabled, pc, host, child, pressed, acted, syncs, deaths, toggles>>

PluginSync ==
    /\ child = "up" /\ syncs < MaxSyncs
    /\ syncs' = syncs + 1
    /\ \E m \in {"yes", "absent"} :
           ent' = [ent EXCEPT !.pipe = Append(@, Line("sync", 0, m, FALSE, "none"))]
    /\ UNCHANGED <<enabled, pc, host, child, stdin, lastRead, pressed, acted, reads, deaths, toggles>>

PluginDies ==
    /\ child = "up" /\ deaths < MaxDeaths
    /\ deaths' = deaths + 1
    /\ child' = "gone"
    /\ stdin' = <<>>
    /\ UNCHANGED <<ent, enabled, pc, host, lastRead, pressed, acted, reads, syncs, toggles>>

Next == Host \/ User \/ PluginStep \/ PluginSync \/ PluginDies

Spec == Init /\ [][Next]_vars

(* The host is scheduled; of the plugin and the user nothing is expected.  *)
FairSpec == Spec /\ WF_vars(Host)

-----------------------------------------------------------------------------
(* Properties.                                                             *)

Ids == Nat
Msg == [kind : {"telemetry", "cleanup", "render", "hops", "key"}, id : Ids, n : Nat]
Lines == [kind : {"render", "hops", "key", "sync"}, id : Ids, modal : Says, handled : BOOLEAN,
          act : {"none", "sync", "editor"}]

(* Types; the key queue keeps within its array.                            *)
TypeOK ==
    /\ ent.initialized \in BOOLEAN /\ ent.dead \in BOOLEAN /\ ent.rpcDead \in BOOLEAN
    /\ {ent.next, ent.render, ent.hops, ent.key} \subseteq Ids
    /\ ent.shown \in {"none", "yes", "no"} /\ ent.modal \in BOOLEAN /\ ent.told \in BOOLEAN
    /\ ent.queue \in Seq(1..MaxKeys) /\ Len(ent.queue) <= QueueLen
    /\ ent.lastKey \in Key \cup {NoKey} /\ ent.armed \in BOOLEAN /\ ent.editor \in BOOLEAN
    /\ ent.rx \in Seq(Lines) /\ ent.pipe \in Seq(Lines) /\ ent.out \in Seq(Msg)
    /\ stdin \in Seq(Msg) /\ Len(stdin) <= PipeCap
    /\ enabled \in BOOLEAN /\ pc \in {"tel", "hops", "draw", "keys", "stop"}
    /\ host \in {"up", "killed"} /\ child \in {"up", "gone", "none"}

Increasing(numbers) == \A i, j \in DOMAIN numbers : i < j => numbers[i] < numbers[j]

(* PLUGINS.md:185, keys are "delivered to the plugin in order": none is    *)
(* overtaken or delivered twice, through the queue, force_sync, dropping   *)
(* of the oldest and restarts of the plugin.  First what the plugin has    *)
(* read, then what is in its pipe, what the host is about to write, and    *)
(* the queue.                                                              *)
KeysInOrder ==
    LET sent == stdin \o ent.out
        IsKey(i) == sent[i].kind = "key"
    IN  /\ \A i, j \in DOMAIN sent : IsKey(i) /\ IsKey(j) /\ i < j => sent[i].n < sent[j].n
        /\ Increasing(ent.queue)
        /\ \A i \in DOMAIN sent : IsKey(i) => lastRead < sent[i].n
        /\ \A j \in DOMAIN ent.queue :
              lastRead < ent.queue[j] /\ \A i \in DOMAIN sent : IsKey(i) => sent[i].n < ent.queue[j]

Elements(queue) == {queue[i] : i \in DOMAIN queue}

InTransit == {m.id : m \in Elements(ent.out) \cup Elements(stdin) \cup Elements(ent.pipe) \cup Elements(ent.rx)}

(* Requests and answers keep together.  An answer that matches a pending   *)
(* id is an answer to that request: late answers, from before a force_sync,*)
(* are never taken for another one.  And the host never waits for an       *)
(* answer it has thrown away itself: as long as the plugin lives, a        *)
(* pending request is on its way to it or back.                            *)
AnswersMatch ==
    /\ TypeOK
    /\ \A line \in Elements(ent.pipe) \cup Elements(ent.rx), slot \in {"render", "hops", "key"} :
          ent[slot] # 0 /\ line.id = ent[slot] /\ line.kind # "sync" => line.kind = slot
    /\ (ent.initialized /\ child = "up") =>
          \A slot \in {"render", "hops", "key"} : ent[slot] # 0 => ent[slot] \in InTransit

(* Keys never lie in the queue with nothing under way whose answer would   *)
(* send the next one.                                                      *)
NoIdleQueue == (ent.initialized /\ ~ent.rpcDead /\ ent.queue # <<>>) => ent.key # 0

-----------------------------------------------------------------------------
(* What a document or a comment says and the code does not do: TLC refutes *)
(* it on this module.  Not part of a run; see `Divergences' in README.md.  *)

(* PLUGINS.md:187, "If a plugin process exits, NSR marks it dead", and     *)
(* README.md:171, "Failures remain localized instead of collapsing the     *)
(* entire tracer process": the host outlives its plugin.                   *)
HostSurvives == host = "up"

(* PLUGINS.md:184, "Slow plugins no longer block the TUI": whatever the    *)
(* plugin does or fails to do, the loop comes round to the keys again.     *)
TuiGoesOn == []<>(pc = "keys")

(* PLUGINS.md:146, "when the plugin is currently modal, NSR always routes  *)
(* the key only to that plugin and does not apply any built-in NSR         *)
(* shortcut": NSR acts on no key while a plugin stays modal.               *)
ModalKeepsKeys == [][acted' # acted /\ child = "up" => ~ent.told]_vars

(* plugin.c:1011, "Drain any pending responses before handling this key":  *)
(* no answer that had arrived is left unread when a key has been handled.  *)
DrainedBeforeKey == [][pressed' # pressed /\ acted' = acted => ent'.pipe = <<>>]_vars
=============================================================================
