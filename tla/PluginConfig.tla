---------------------------- MODULE PluginConfig ----------------------------
(***************************************************************************)
(* ~/.nsrconfig and those who share it: NSR processes, which read it when  *)
(* they start (nsr_plugins_load_dir) and rewrite it when a plugin is       *)
(* switched in the Tools menu (nsr_plugins_set_enabled), the installer     *)
(* nsr-plugged, and the user, who appends settings of plugins to it.       *)
(* Nobody locks it, and a rewrite is three steps: the file is read,        *)
(* emptied by fopen(path, "w"), and written when it is closed.             *)
(*                                                                         *)
(* The file is a sequence of settings.  One without `nl' is not followed   *)
(* by a newline: it and the next form one line, which starts with the key  *)
(* of the first.  Settings are taken to be equally long, which decides     *)
(* what remains of a file when a shorter one is written over it.           *)
(***************************************************************************)
EXTENDS Integers, Sequences, FiniteSets, SequencesExt

CONSTANTS Hosts,        \* NSR processes
          Tools,        \* runs of nsr-plugged
          Dirs,         \* the directories main loads, each a set of plugins
          MaxPlugins,   \* NSR_MAX_PLUGINS
          MaxLines,     \* lines config_set_bool can hold: 256
          MaxAppends,   \* lines the user adds
          MaxSaves,     \* bound: changes made
          MaxFaults     \* bound: crashes, write errors, lost newlines

Plugins == UNION {Dirs[d] : d \in DOMAIN Dirs}
Other   == "IP2_LOCATION_DB"          \* a key without the prefix of NSR's own
Keys    == Plugins \cup {Other}
Actors  == Hosts \cup Tools

ASSUME ConfigAssumption ==
    /\ Dirs \in Seq(SUBSET Plugins) /\ Dirs # <<>> /\ IsFiniteSet(Plugins)
    /\ Other \notin Plugins
    /\ Hosts \cap Tools = {}
    /\ {MaxPlugins, MaxLines, MaxAppends, MaxSaves, MaxFaults} \subseteq Nat

VARIABLES
    file,      \* the contents of ~/.nsrconfig
    phase,     \* of each actor: "down"; "load"; "up"; "config" (nsr-plugged
               \*   has read its settings); "read", "open": saving
    reg,       \* reg[h]: the entries of the registry, in order
    plugin_dir,\* plugin_dir[h]: the directory last given to load_dir
    todo,      \* todo[h]: what readdir has not returned yet
    config,    \* config[t]: the settings a run of nsr-plugged has read
    buf,       \* buf[a]: the lines an actor is about to write
    change,    \* change[a]: the setting it is saving
    want,      \* ghost: for each plugin, what it was last switched to
    appended,  \* ghost: lines the user added
    clean,     \* ghost: no save has been disturbed so far
    saves, faults

procVars   == <<phase, reg, plugin_dir, todo, config, buf, change>>
configVars == <<file, procVars, want, appended, clean, saves, faults>>

Setting(k, v) == [key |-> k, val |-> v, nl |-> TRUE]

ConfigInit ==
    /\ file = <<>>
    /\ phase = [a \in Actors |-> "down"]
    /\ reg = [h \in Hosts |-> <<>>] /\ plugin_dir = [h \in Hosts |-> 0]
    /\ todo = [h \in Hosts |-> {}]
    /\ config = [t \in Tools |-> <<>>]
    /\ buf = [a \in Actors |-> <<>>]
    /\ change = [a \in Actors |-> <<>>]
    /\ want = [p \in Plugins |-> FALSE]
    /\ appended = 0 /\ clean = TRUE
    /\ saves = 0 /\ faults = 0

-----------------------------------------------------------------------------
(* Lines.                                                                  *)

\* where a line of the file begins
Heads(f) == {i \in DOMAIN f : i = 1 \/ f[i - 1].nl}

\* the settings on the line that begins at i
LineAt(f, i) == SubSeq(f, i, CHOOSE j \in i..Len(f) : /\ f[j].nl \/ j = Len(f)
                                                      /\ \A k \in i..(j - 1) : ~f[k].nl)

\* the lines of a file, each a sequence of settings; the n-th one begins
\* where n - 1 others have begun before
LinesOf(f) ==
    [n \in 1..Cardinality(Heads(f)) |->
        LineAt(f, CHOOSE i \in Heads(f) : Cardinality({j \in Heads(f) : j < i}) = n - 1)]

(* The first line that begins with the key counts; what follows the value  *)
(* on its line is left to atoi, which stops at it.                         *)
config_get_bool_default(f, k) ==
    LET at == {i \in Heads(f) : f[i].key = k}
    IN  at # {} /\ f[CHOOSE i \in at : \A j \in at : i <= j].val

\* mutants: only NSR's own lines are kept; the key is added without a look
\* for its old line
Rewritten_OwnOnly(f, s) ==
    FlattenSeq(SelectSeq(LinesOf(f), LAMBDA l : l[1].key \in Plugins \ {s.key})) \o <<s>>

Rewritten_Appends(f, s) == Append(f, s)

(* The lines to write: those of the file that fit, each one of the key     *)
(* replaced, and the key added if it was not there and still fits.         *)
Rewritten(f, s) ==
    LET kept == SubSeq(LinesOf(f), 1, IF Len(LinesOf(f)) < MaxLines THEN Len(LinesOf(f)) ELSE MaxLines)
        put  == [n \in DOMAIN kept |-> IF kept[n][1].key = s.key THEN <<s>> ELSE kept[n]]
        here == \E n \in DOMAIN kept : kept[n][1].key = s.key
    IN  FlattenSeq(IF here \/ Len(put) >= MaxLines THEN put ELSE Append(put, <<s>>))

(* write(2) at offset 0 of a file that others may have extended meanwhile. *)
Overwrite(f, new) == new \o SubSeq(f, Len(new) + 1, Len(f))

-----------------------------------------------------------------------------
(* NSR: starting.                                                          *)

\* the next directory is opened
OpenDir(h, d) ==
    /\ plugin_dir' = [plugin_dir EXCEPT ![h] = d]
    /\ todo' = [todo EXCEPT ![h] = Dirs[d]]

Start(h) ==
    /\ phase[h] = "down"
    /\ phase' = [phase EXCEPT ![h] = "load"]
    /\ reg' = [reg EXCEPT ![h] = <<>>]
    /\ OpenDir(h, 1)
    /\ UNCHANGED <<file, config, buf, change, want, appended, clean, saves, faults>>

(* One name out of readdir, in an order of its own: skipped if a plugin of *)
(* that name is there, the end of the directory if the registry is full,   *)
(* otherwise an entry, enabled if the file says so at this moment.         *)
LoadEntry(h, p) ==
    /\ phase[h] = "load" /\ p \in todo[h]
    /\ LET dup  == \E i \in DOMAIN reg[h] : reg[h][i].name = p
           full == Len(reg[h]) >= MaxPlugins
       IN  /\ todo' = [todo EXCEPT ![h] = IF full /\ ~dup THEN {} ELSE @ \ {p}]
           /\ reg' = IF dup \/ full THEN reg
                     ELSE [reg EXCEPT ![h] = Append(@, [name |-> p, dir |-> plugin_dir[h],
                                                       enabled |-> config_get_bool_default(file, p)])]
    /\ UNCHANGED <<file, phase, plugin_dir, config, buf, change, want, appended, clean, saves, faults>>

\* on to the directory of SUDO_USER, or to the main loop
LoadNext(h) ==
    /\ phase[h] = "load" /\ todo[h] = {}
    /\ IF plugin_dir[h] < Len(Dirs)
       THEN OpenDir(h, plugin_dir[h] + 1) /\ UNCHANGED phase
       ELSE phase' = [phase EXCEPT ![h] = "up"] /\ UNCHANGED <<plugin_dir, todo>>
    /\ UNCHANGED <<file, reg, config, buf, change, want, appended, clean, saves, faults>>

-----------------------------------------------------------------------------
(* Saving.                                                                 *)

Saving == {a \in Actors : phase[a] \in {"config", "read", "open"}}

Terminated(f) == f = <<>> \/ Last(f).nl

(* What can go wrong with a save of NSR from the start: another save is    *)
(* under way, the new line would join an unfinished one, or there are more *)
(* lines than NSR holds.                                                   *)
Disturbed(f, s) ==
    \/ Saving # {}
    \/ ~Terminated(f) /\ s.key # Last(LinesOf(f))[1].key
    \/ Len(LinesOf(f)) > MaxLines
    \/ \A i \in DOMAIN Rewritten(f, s) : Rewritten(f, s)[i] # s

(* nsr_plugins_set_enabled: the switch, and the file read.  The plugin is  *)
(* started or stopped when the file has been written.                      *)
Toggle(h, i) ==
    /\ phase[h] = "up" /\ i \in DOMAIN reg[h] /\ saves < MaxSaves
    /\ LET e == reg[h][i]
           s == Setting(e.name, ~e.enabled)
       IN  /\ reg' = [reg EXCEPT ![h][i].enabled = ~@]
           /\ change' = [change EXCEPT ![h] = s]
           /\ buf' = [buf EXCEPT ![h] = Rewritten(file, s)]
           /\ want' = [want EXCEPT ![e.name] = ~e.enabled]
           /\ clean' = (clean /\ ~Disturbed(file, s))
    /\ phase' = [phase EXCEPT ![h] = "read"]
    /\ saves' = saves + 1
    /\ UNCHANGED <<file, plugin_dir, todo, config, appended, faults>>

\* fopen(path, "w")
OpenForWriting(a) ==
    /\ phase[a] = "read"
    /\ phase' = [phase EXCEPT ![a] = "open"]
    /\ file' = <<>>
    /\ UNCHANGED <<reg, plugin_dir, todo, config, buf, change, want, appended, clean, saves, faults>>

\* the lines are freed; nsr-plugged ends
Done(a) ==
    /\ phase' = [phase EXCEPT ![a] = IF a \in Hosts THEN "up" ELSE "down"]
    /\ buf' = [buf EXCEPT ![a] = <<>>] /\ change' = [change EXCEPT ![a] = <<>>]

\* the file cannot be written: the change is made and not saved
OpenFails(a) ==
    /\ phase[a] = "read" /\ faults < MaxFaults
    /\ faults' = faults + 1 /\ clean' = FALSE
    /\ Done(a)
    /\ UNCHANGED <<file, reg, plugin_dir, todo, config, want, appended, saves>>

\* fclose: the buffered lines reach the file
Close(a) ==
    /\ phase[a] = "open"
    /\ file' = Overwrite(file, buf[a])
    /\ Done(a)
    /\ UNCHANGED <<reg, plugin_dir, todo, config, want, appended, clean, saves, faults>>

-----------------------------------------------------------------------------
(* nsr-plugged.                                                            *)

(* read_config: for every key what its last line says, which is "1" only   *)
(* if nothing follows it.                                                  *)
read_config(f) ==
    [k \in {f[i].key : i \in Heads(f)} |->
        LineAt(f, CHOOSE i \in Heads(f) : /\ f[i].key = k
                                          /\ \A j \in Heads(f) : f[j].key = k => j <= i)]

is_plugin_enabled(p, cfg) == p \in DOMAIN cfg /\ cfg[p][1].val /\ Len(cfg[p]) = 1

\* a line ended by a newline
Ended(l) == [l EXCEPT ![Len(l)].nl = TRUE]

(* write_config: every line of a key in cfg is rewritten, the others are   *)
(* kept, and the keys that no line has are added.                          *)
write_config(f, cfg) ==
    LET put == [n \in DOMAIN LinesOf(f) |->
                   LET l == LinesOf(f)[n] IN IF l[1].key \in DOMAIN cfg THEN Ended(cfg[l[1].key]) ELSE l]
        new == DOMAIN cfg \ {f[i].key : i \in Heads(f)}
    IN  FlattenSeq(put \o SetToSeq({Ended(cfg[k]) : k \in new}))

\* enable, disable: the settings are read and one is changed
ToolReads(t, p, v) ==
    /\ phase[t] = "down" /\ saves < MaxSaves
    /\ LET old == read_config(file)
       IN  config' = [config EXCEPT ![t] = [k \in DOMAIN old \cup {p} |->
                                               IF k = p THEN <<Setting(p, v)>> ELSE old[k]]]
    /\ change' = [change EXCEPT ![t] = Setting(p, v)]
    /\ want' = [want EXCEPT ![p] = v]
    /\ clean' = (clean /\ Saving = {})
    /\ phase' = [phase EXCEPT ![t] = "config"]
    /\ saves' = saves + 1
    /\ UNCHANGED <<file, reg, plugin_dir, todo, buf, appended, faults>>

\* write_config reads the file again
ToolRereads(t) ==
    /\ phase[t] = "config"
    /\ buf' = [buf EXCEPT ![t] = write_config(file, config[t])]
    /\ config' = [config EXCEPT ![t] = <<>>]
    /\ clean' = (clean /\ Saving = {t})
    /\ phase' = [phase EXCEPT ![t] = "read"]
    /\ UNCHANGED <<file, reg, plugin_dir, todo, change, want, appended, saves, faults>>

-----------------------------------------------------------------------------
(* Ends, crashes and the user.                                             *)

\* nothing is left in the memory of an actor that ended
Gone(a) ==
    /\ phase' = [phase EXCEPT ![a] = "down"]
    /\ reg' = [h \in Hosts |-> IF h = a THEN <<>> ELSE reg[h]]
    /\ plugin_dir' = [h \in Hosts |-> IF h = a THEN 0 ELSE plugin_dir[h]]
    /\ todo' = [h \in Hosts |-> IF h = a THEN {} ELSE todo[h]]
    /\ config' = [t \in Tools |-> IF t = a THEN <<>> ELSE config[t]]
    /\ buf' = [buf EXCEPT ![a] = <<>>] /\ change' = [change EXCEPT ![a] = <<>>]

(* main returns: nsr_plugins_cleanup saves nothing.                        *)
Quit(h) ==
    /\ phase[h] = "up" /\ Gone(h)
    /\ UNCHANGED <<file, want, appended, clean, saves, faults>>

Crash(a) ==
    /\ a \in Saving /\ faults < MaxFaults
    /\ Gone(a)
    /\ faults' = faults + 1 /\ clean' = FALSE
    /\ UNCHANGED <<file, want, appended, saves>>

(* IP2LOCATION.md:58, echo 'IP2_LOCATION_DB=...' >> ~/.nsrconfig            *)
UserAppends ==
    /\ appended < MaxAppends
    /\ appended' = appended + 1
    /\ file' = Append(file, Setting(Other, TRUE))
    /\ clean' = (clean /\ Saving = {} /\ Terminated(file))
    /\ UNCHANGED <<procVars, want, saves, faults>>

\* an editor that ends the last line without a newline
UserEdits ==
    /\ file # <<>> /\ Terminated(file) /\ faults < MaxFaults
    /\ file' = [file EXCEPT ![Len(file)].nl = FALSE]
    /\ faults' = faults + 1 /\ clean' = (clean /\ Saving = {})
    /\ UNCHANGED <<procVars, want, appended, saves>>

HostStep(h) ==
    \/ Start(h) \/ LoadNext(h) \/ Quit(h)
    \/ \E p \in todo[h] : LoadEntry(h, p)
    \/ \E i \in DOMAIN reg[h] : Toggle(h, i)

ToolStep(t) ==
    \/ \E p \in Plugins, v \in BOOLEAN : ToolReads(t, p, v)
    \/ ToolRereads(t)

ConfigNext ==
    \/ \E h \in Hosts : HostStep(h)
    \/ \E t \in Tools : ToolStep(t)
    \/ \E a \in Actors : OpenForWriting(a) \/ OpenFails(a) \/ Close(a) \/ Crash(a)
    \/ UserAppends \/ UserEdits

ConfigSpec == ConfigInit /\ [][ConfigNext]_configVars

-----------------------------------------------------------------------------
(* Properties.                                                             *)

\* what NSR, and nsr-plugged, would find of a plugin in the file
Enabled(p) == config_get_bool_default(file, p)
Active(p)  == is_plugin_enabled(p, read_config(file))

(* As long as no save was disturbed by another save, a crash, a write      *)
(* error, an unfinished line or too many lines, the file says of every     *)
(* plugin, to NSR and to nsr-plugged, what it was last switched to by      *)
(* either of them, however long ago and whatever was saved since, and it   *)
(* still has every line the user added (nsr-plugged:44, "without losing    *)
(* unrelated lines").                                                      *)
Persisted ==
    clean /\ Saving = {} =>
        /\ \A p \in Plugins : Enabled(p) = want[p] /\ Active(p) = want[p]
        /\ Cardinality({i \in Heads(file) : file[i].key = Other}) = appended

(* Whoever closes the file last has his own change in it, whatever other   *)
(* saves it overlapped and whatever they left in the file, provided it was *)
(* a line of its own among the lines to write.                             *)
SaveEffective ==
    [][\A a \in Actors :
          Close(a) /\ (\E i \in Heads(buf[a]) : buf[a][i] = change[a])
              => config_get_bool_default(file', change[a].key) = change[a].val]_configVars

-----------------------------------------------------------------------------
(* What a document or a comment says and the code does not do: TLC refutes *)
(* it on this module.  Not part of a run; see `Divergences' in README.md.  *)

(* PLUGINS.md:40, "Enabled state is persisted in `~/.nsrconfig`": also     *)
(* when saves overlap, a process dies or a newline is missing.             *)
AlwaysPersisted == Saving = {} => \A p \in Plugins : Enabled(p) = want[p]

(* nsr-plugged:44, "We update existing config without losing unrelated     *)
(* lines".                                                                 *)
UnrelatedKept == Saving = {} => Cardinality({i \in Heads(file) : file[i].key = Other}) = appended

(* PLUGINS.md:50, "plugin_dir" of init: the directory of the plugin that   *)
(* is started, for all of them when one is enabled from the menu.          *)
OwnDirectory == \A h \in Hosts : phase[h] = "up" => \A i \in DOMAIN reg[h] : reg[h][i].dir = plugin_dir[h]
=============================================================================
