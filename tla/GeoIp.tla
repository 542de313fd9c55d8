------------------------------- MODULE GeoIp --------------------------------
(***************************************************************************)
(* The GeoIP plugin (plugins/geoip/geoip.c) and the host that feeds it.    *)
(* The plugin reads one line after the other.  A line of telemetry makes   *)
(* it look up every address it does not know, one by one, each for up to   *)
(* five seconds, and it reads nothing meanwhile; a render_hops request is  *)
(* answered from its cache, an open addressing table without removal.  The *)
(* host writes to it in every frame, through a pipe that holds PipeCap     *)
(* lines and blocks when it is full.                                       *)
(*                                                                         *)
(* What the hash function does with an address is left open: TLC tries     *)
(* every function.  A list of hops is a tuple of addresses, indexed by     *)
(* hop_idx.  A text is what "[country provider]" is made from.             *)
(***************************************************************************)
EXTENDS Integers, Sequences, FiniteSets

CONSTANTS Ip,          \* addresses of routers
          CacheSize,   \* GEO_CACHE_SIZE
          Place,       \* texts a successful lookup may give
          MaxHops,     \* hops in a view
          Views,       \* lists of hops the screen may show
          PipeCap,     \* lines that fit into the plugin's stdin
          AnswerCap    \* lines that fit into its stdout

ASSUME GeoAssumption ==
    /\ CacheSize \in Nat \ {0} /\ MaxHops \in Nat \ {0}
    /\ PipeCap \in Nat \ {0} /\ AnswerCap \in Nat \ {0}
    /\ Views \subseteq [1..MaxHops -> Ip \cup {"none"}]
    /\ "none" \notin Ip /\ Place \cap {"none", "failed"} = {}

Slot     == 0..(CacheSize - 1)
NoAddr   == "none"   \* a hop that has not answered: "" or "Reply Received"
Addr     == Ip \cup {NoAddr}
Failed   == "failed" \* a lookup returned false
Unknown  == "?"      \* what is stored after a failure
NoText   == "none"
Hops     == [1..MaxHops -> Addr]
Invalid  == [valid |-> FALSE, ip |-> NoAddr, text |-> NoText]

VARIABLES
    hash,     \* geo_hash, fixed
    cache,    \* g_state.cache
    todo,     \* hops of the telemetry line the plugin is working on
    stdin, stdout,   \* the two pipes
    pc,       \* host: "init", "tel", then drain and ask for "hops" and "render"
    view,     \* host: the hops on the screen
    asked,    \* host: requests without an answer (render_hops_pending, render_pending)
    shown,    \* host: last_render_hops_resp
    told,     \* no state of the program: text of the first lookup of an address,
    again     \*   and addresses looked up more than once

plugin == <<hash, cache, todo>>
ghosts == <<told, again>>
host   == <<pc, view, asked, shown>>
vars   == <<plugin, stdin, stdout, host, ghosts>>

NoAnnotation == [hops |-> [i \in 1..MaxHops |-> NoAddr], text |-> [i \in 1..MaxHops |-> NoText]]

Init ==
    /\ hash \in [Ip -> Slot]
    /\ cache = [s \in Slot |-> Invalid] /\ todo = <<>>
    /\ stdin = <<[kind |-> "init"]>> /\ stdout = <<>>
    /\ pc = "init" /\ view = NoAnnotation.hops /\ asked = {} /\ shown = NoAnnotation
    /\ told = [a \in Ip |-> NoText] /\ again = {}

-----------------------------------------------------------------------------
(* The cache.                                                              *)

\* the slots in the order both loops visit them, from the hash of the address
Probe(ip, i) == (hash[ip] + i) % CacheSize
Steps        == 0..(CacheSize - 1)
First(S) == CHOOSE i \in S : \A j \in S : i <= j

\* up to the address or the first slot that is not valid
geo_cache_find(ip) ==
    LET stops == {i \in Steps : ~cache[Probe(ip, i)].valid \/ cache[Probe(ip, i)].ip = ip}
    IN  IF stops = {} THEN Invalid ELSE cache[Probe(ip, First(stops))]

\* mutant: the table is filled from its beginning
geo_cache_store_FromZero(ip, text) ==
    LET free == {s \in Slot : ~cache[s].valid \/ cache[s].ip = ip}
    IN  IF free = {} THEN cache
        ELSE [cache EXCEPT ![First(free)] = [valid |-> TRUE, ip |-> ip, text |-> text]]

\* a full table keeps nothing
geo_cache_store(ip, text) ==
    LET free == {i \in Steps : ~cache[Probe(ip, i)].valid \/ cache[Probe(ip, i)].ip = ip}
    IN  IF free = {} THEN cache
        ELSE [cache EXCEPT ![Probe(ip, First(free))] = [valid |-> TRUE, ip |-> ip, text |-> text]]

-----------------------------------------------------------------------------
(* The plugin's handlers.                                                  *)

\* always a failure unless handle_init has opened an IP2Location database
local_lookup == Place \cup {Failed}

(* Timeout, refusal, a status other than 200, "fail", or none of the       *)
(* fields; a body of length 0 leaves the buffer as it was, so that any     *)
(* outcome is possible.                                                    *)
web_lookup == Place \cup {Failed}

\* local_lookup first, web_lookup if it found nothing
Lookup == (local_lookup \ {Failed}) \cup web_lookup

\* mutant: a failed lookup is not remembered
Remember_OnlySuccess(ip, found) == IF found = Failed THEN cache ELSE geo_cache_store(ip, found)

Remember(ip, found) == geo_cache_store(ip, IF found = Failed THEN Unknown ELSE found)

resolve_one(ip) ==
    IF ip = NoAddr \/ geo_cache_find(ip).valid
    THEN UNCHANGED <<cache, ghosts>>
    ELSE \E found \in Lookup :
            /\ cache' = Remember(ip, found)
            /\ told' = [told EXCEPT ![ip] = IF @ # NoText THEN @ ELSE IF found = Failed THEN Unknown ELSE found]
            /\ again' = IF told[ip] # NoText THEN again \cup {ip} ELSE again

\* mutant: a hop without an address ends the loop
Telemetry_Stops ==
    /\ todo # <<>>
    /\ todo' = IF Head(todo) = NoAddr THEN <<>> ELSE Tail(todo)
    /\ resolve_one(Head(todo))
    /\ UNCHANGED <<hash, stdin, stdout, host>>

\* handle_update_telemetry, one hop
Telemetry ==
    /\ todo # <<>>
    /\ todo' = Tail(todo)
    /\ resolve_one(Head(todo))
    /\ UNCHANGED <<hash, stdin, stdout, host>>

Answer(kind, hops, text) == [kind |-> kind, hops |-> hops, text |-> text]

Annotations(hops) ==
    [i \in 1..MaxHops |-> IF hops[i] = NoAddr THEN NoText ELSE geo_cache_find(hops[i]).text]

(* One line read by main: init is answered, telemetry is begun,            *)
(* render_hops is answered from the cache, any other request (the host's   *)
(* render) with an error.                                                  *)
ReadLine ==
    /\ todo = <<>> /\ stdin # <<>>
    /\ LET m == Head(stdin)
       IN  \/ /\ m.kind = "init"
              /\ stdout' = Append(stdout, [kind |-> "init"])
              /\ UNCHANGED todo
           \/ /\ m.kind = "tel"
              /\ todo' = m.hops
              /\ UNCHANGED stdout
           \/ /\ m.kind = "hops" /\ Len(stdout) < AnswerCap
              /\ stdout' = Append(stdout, Answer("hops", m.hops, Annotations(m.hops)))
              /\ UNCHANGED todo
           \/ /\ m.kind = "render" /\ Len(stdout) < AnswerCap
              /\ stdout' = Append(stdout, [kind |-> "render"])
              /\ UNCHANGED todo
    /\ stdin' = Tail(stdin)
    /\ UNCHANGED <<hash, cache, host, ghosts>>

-----------------------------------------------------------------------------
(* The host, as far as this plugin is concerned.                           *)

\* the answer to init, which the host waits for
Started ==
    /\ pc = "init" /\ stdout # <<>>
    /\ stdout' = Tail(stdout) /\ pc' = "tel"
    /\ UNCHANGED <<plugin, stdin, view, asked, shown, ghosts>>

\* a new address, another target, another view, a scrolled tree
ViewChanges ==
    /\ pc = "tel"
    /\ view' \in Views
    /\ UNCHANGED <<plugin, stdin, stdout, pc, asked, shown, ghosts>>

update_telemetry ==
    /\ pc = "tel" /\ Len(stdin) < PipeCap
    /\ stdin' = Append(stdin, [kind |-> "tel", hops |-> view])
    /\ pc' = "drain_hops"
    /\ UNCHANGED <<plugin, stdout, view, asked, shown, ghosts>>

\* mutant: an answer drained by the other call leaves its request pending
Drain_OwnOnly ==
    /\ \/ pc = "drain_hops" /\ pc' = "ask_hops"
       \/ pc = "drain_render" /\ pc' = "ask_render"
    /\ IF stdout = <<>> THEN UNCHANGED <<stdout, asked, shown>>
       ELSE /\ stdout' = Tail(stdout)
            /\ asked' = asked \ ({Head(stdout).kind} \cap {IF pc = "drain_hops" THEN "hops" ELSE "render"})
            /\ shown' = IF Head(stdout).kind = "hops" /\ pc = "drain_hops"
                        THEN [hops |-> Head(stdout).hops, text |-> Head(stdout).text] ELSE shown
    /\ UNCHANGED <<plugin, stdin, view, ghosts>>

(* plugin_drain_response, called by render_hops and by render: at most one *)
(* answer, which may be the one to the other request.                      *)
Drain ==
    /\ \/ pc = "drain_hops" /\ pc' = "ask_hops"
       \/ pc = "drain_render" /\ pc' = "ask_render"
    /\ IF stdout = <<>> THEN UNCHANGED <<stdout, asked, shown>>
       ELSE /\ stdout' = Tail(stdout)
            /\ asked' = asked \ {Head(stdout).kind}
            /\ shown' = IF Head(stdout).kind = "hops"
                        THEN [hops |-> Head(stdout).hops, text |-> Head(stdout).text] ELSE shown
    /\ UNCHANGED <<plugin, stdin, view, ghosts>>

\* one request of a kind at a time
Request(kind, line) ==
    IF kind \in asked THEN UNCHANGED <<stdin, asked>>
    ELSE /\ Len(stdin) < PipeCap
         /\ stdin' = Append(stdin, line)
         /\ asked' = asked \cup {kind}

render_hops ==
    /\ pc = "ask_hops" /\ pc' = "drain_render"
    /\ Request("hops", [kind |-> "hops", hops |-> view])
    /\ UNCHANGED <<plugin, stdout, view, shown, ghosts>>

render ==
    /\ pc = "ask_render" /\ pc' = "tel"
    /\ Request("render", [kind |-> "render"])
    /\ UNCHANGED <<plugin, stdout, view, shown, ghosts>>

Host   == Started \/ update_telemetry \/ Drain \/ render_hops \/ render
Plugin == Telemetry \/ ReadLine
Next   == Host \/ Plugin \/ ViewChanges

Spec == Init /\ [][Next]_vars

(* Both processes are scheduled, and a lookup ends after CURLOPT_TIMEOUT.  *)
FairSpec == Spec /\ WF_vars(Host) /\ WF_vars(Plugin)

-----------------------------------------------------------------------------
(* Properties.                                                             *)

(* Types of the plugin's and the host's state.                             *)
TypeOK ==
    /\ cache \in [Slot -> [valid : BOOLEAN, ip : Addr, text : Place \cup {Unknown, NoText}]]
    /\ todo \in UNION {[1..n -> Addr] : n \in 0..MaxHops}
    /\ Len(stdin) <= PipeCap /\ Len(stdout) <= AnswerCap
    /\ view \in Hops /\ asked \subseteq {"hops", "render"}
    /\ shown \in [hops : Hops, text : [1..MaxHops -> Place \cup {Unknown, NoText}]]

Full == \A s \in Slot : cache[s].valid

(* Whatever the hash does, an address that has been stored is found again, *)
(* in one slot only and with what its own first lookup gave (geo_cache_    *)
(* find stops at the first free slot, geo_cache_store fills that one).     *)
CacheSound ==
    /\ TypeOK
    /\ \A s \in Slot : cache[s].valid =>
          /\ geo_cache_find(cache[s].ip) = cache[s]
          /\ cache[s].text = told[cache[s].ip]
          /\ \A t \in Slot \ {s} : cache[t].ip # cache[s].ip

(* An address is looked up once, also when the lookup failed: a second     *)
(* lookup, which stops the plugin for up to five seconds in every frame,   *)
(* happens only to an address that found the table full.                   *)
LookedUpOnce == \A a \in again : Full /\ \A s \in Slot : cache[s].ip # a

(* An answer to render_hops annotates every hop of the request that has an *)
(* address, with the text of that address, which has been looked up by     *)
(* then: the telemetry of the same frame went ahead of the request.  Only  *)
(* a full table leaves a hop without.                                      *)
AnswersComplete ==
    \A k \in DOMAIN stdout : stdout[k].kind = "hops" =>
        \A i \in 1..MaxHops :
            LET ip == stdout[k].hops[i]
            IN  IF ip = NoAddr THEN stdout[k].text[i] = NoText
                ELSE \/ stdout[k].text[i] = told[ip] /\ told[ip] # NoText
                     \/ stdout[k].text[i] = NoText /\ Full /\ \A s \in Slot : cache[s].ip # ip

(* Annotations are put beside a hop by its index, from an answer that may  *)
(* belong to an older list of hops.  Once the list no longer changes, what *)
(* is shown ends up belonging to it: although the host blocks in a write   *)
(* while the plugin looks up addresses, and the plugin can block on its    *)
(* answers, they do not stop each other on the way there.                  *)
AnnotationsCatchUp == <>[][view' = view]_view => <>[](shown.hops = view)

-----------------------------------------------------------------------------
(* What a document or a comment says and the code does not do: TLC refutes *)
(* it on this module.  Not part of a run; see `Divergences' in README.md.  *)

(* geoip.c:234, "Resolve hop IPs to country & provider": the text shown    *)
(* beside a hop is that of the address shown there.                        *)
AnnotationsCurrent ==
    \A i \in 1..MaxHops : shown.text[i] # NoText => shown.hops[i] = view[i]
=============================================================================
