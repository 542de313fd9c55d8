-------------------------------- MODULE Tui --------------------------------
(***************************************************************************)
(* The text interface (ui/tui.c, ui/key_slots.c): which view is shown, the *)
(* cursors and scroll positions of its lists, and what a key does.  Every  *)
(* frame of main.c folds telemetry into the topology, draws, and handles   *)
(* at most one key, so a key acts on what the last frame has drawn, unless *)
(* the screen is frozen: then nothing is drawn but the world goes on.      *)
(*                                                                         *)
(* Characters on the screen are left out; of a drawn list it is kept which *)
(* entry was highlighted (lit).  Keys are caseless but for 'S'.  A modal   *)
(* plugin that takes a key (module PluginHost) changes nothing here.       *)
(***************************************************************************)
EXTENDS Integers, SequencesExt

CONSTANTS Target,      \* targets of the nodes in the topology
          MaxNodes,    \* NSR_TOPOLOGY_MAX_NODES
          MaxTTL,
          Reserves,    \* per plugin, the sequence of its reserved_keys
          NavDepth,    \* NSR_UI_STACK_DEPTH
          Page,        \* 5: what h and l skip in the lists
          CellWidth,   \* 14: columns of a cell of the grid
          MinBox,      \* 10: the least height of the box of the Tools menu
          BoxWidth,    \* 64: its width
          Heights, Widths,    \* lines and columns a terminal may have
          Starts,      \* bound of a run: sets of plugins enabled at the start
          MaxKeys      \* bound of a run: keys pressed

ASSUME TuiAssumption ==
    /\ {MaxNodes, MaxTTL, NavDepth, Page, CellWidth, BoxWidth} \subseteq Nat \ {0}
    /\ MinBox \in Nat /\ MinBox > 4 /\ MaxKeys \in Nat
    /\ Heights \subseteq {n \in Nat : n > 4} /\ Widths \subseteq {n \in Nat : n > 3}
    /\ Reserves \in Seq(Seq(STRING)) /\ Starts \subseteq SUBSET (1..Len(Reserves))

Mode    == {"NORMAL", "GRID", "TREE", "TOOLS"}
Lists   == {"GRID", "TREE", "TOOLS"}
Plugins == 1..Len(Reserves)

(* RESERVED_KEYS and the pool of slots; further keys that do something.    *)
Shortcuts == {"q", "n", "g", "m", "t", "z", "s", "p", "d"}
Slots     == <<"q", "w", "e", "r", "t", "y", "u", "i", "o", "p">>
Key       == Shortcuts \cup {"w", "e", "f", "h", "j", "k", "l", "c", "S", "enter", "esc"}

VARIABLES
    mode, stack,           \* current_mode, nav_stack
    cursor, scroll,        \* *_cursor and *_scroll of the three lists
    focused,               \* focused_node_id
    frozen, dashboard, stats,
    remap,                 \* keys.remap, "" where there is none
    on,                    \* enabled plugins
    topo,                  \* active nodes in the order of their slots
    control,               \* ids with control_plane set
    tree,                  \* ids of g_tree_nodes, as last drawn
    lit,                   \* id (plugin number) highlighted on the screen, 0: none
    max_y, max_x,          \* size of the terminal
    pc, keys               \* place in the frame; keys pressed so far

nav   == <<mode, stack>>
world == <<topo, control, on>>
opts  == <<frozen, dashboard, stats>>
size  == <<max_y, max_x>>
vars  == <<nav, cursor, scroll, focused, opts, remap, world, tree, lit, size, pc, keys>>

-----------------------------------------------------------------------------
(* key_slots.c                                                             *)

(* key_mgr_init: the reserved keys of the enabled plugins, one after the   *)
(* other; each that is a shortcut moves that shortcut to the next slot.    *)
key_mgr_init(enabled) ==
    LET reserved == FlattenSeq([p \in Plugins |-> IF p \in enabled THEN Reserves[p] ELSE <<>>])
        Move(m, rk) == IF rk \notin Shortcuts \/ m.remap[rk] # "" \/ m.slots = <<>> THEN m
                       ELSE [remap |-> [m.remap EXCEPT ![rk] = Head(m.slots)], slots |-> Tail(m.slots)]
    IN  FoldLeft(Move, [remap |-> [k \in Shortcuts |-> ""], slots |-> Slots], reserved).remap

Lower(ch) == IF ch = "S" THEN "s" ELSE ch
key_mgr_matches(original, ch) ==
    Lower(ch) = IF remap[original] # "" THEN remap[original] ELSE original

Init ==
    /\ mode = "NORMAL" /\ stack = <<>>
    /\ cursor = [l \in Lists |-> 0] /\ scroll = [l \in Lists |-> 0]
    /\ focused = 0
    /\ frozen = FALSE /\ dashboard = FALSE /\ stats = FALSE
    /\ on \in Starts /\ remap = key_mgr_init(on)
    /\ topo = <<>> /\ control = {} /\ tree = <<>> /\ lit = 0
    /\ max_y \in Heights /\ max_x \in Widths
    /\ pc = "draw" /\ keys = 0

-----------------------------------------------------------------------------
(* Between two frames: the topology changes, the terminal is resized.      *)

(* The slot of a node is its id modulo MaxNodes: the last node that fits   *)
(* comes first.                                                            *)
NewNode(target, ttl) ==
    /\ pc = "draw" /\ Len(topo) < MaxNodes
    /\ LET node == [id |-> Len(topo) + 1, target |-> target, ttl |-> ttl]
       IN  topo' = IF node.id = MaxNodes THEN <<node>> \o topo ELSE Append(topo, node)
    /\ UNCHANGED <<nav, cursor, scroll, focused, opts, remap, control, on, tree, lit, size, pc, keys>>

NewTtl(i, ttl) ==
    /\ pc = "draw" /\ topo[i].ttl # ttl
    /\ topo' = [topo EXCEPT ![i].ttl = ttl]
    /\ UNCHANGED <<nav, cursor, scroll, focused, opts, remap, control, on, tree, lit, size, pc, keys>>

Resize ==
    /\ pc = "draw"
    /\ max_y' \in Heights /\ max_x' \in Widths /\ size' # size
    /\ UNCHANGED <<nav, cursor, scroll, focused, opts, remap, world, tree, lit, pc, keys>>

-----------------------------------------------------------------------------
(* Drawing.                                                                *)

\* columns of the grid; lines of the grid and of the tree, below the title and above the footer
cols == IF max_x \div CellWidth < 1 THEN 1 ELSE max_x \div CellWidth
rows == max_y - 4

\* a cursor within a list of n entries, and 0 in an empty one
Within(c, n) == IF c >= n THEN (IF n > 0 THEN n - 1 ELSE 0) ELSE IF c < 0 THEN 0 ELSE c

\* mutant: one line too few
Follow_OffByOne(line, s, avail) ==
    IF line < s THEN line ELSE IF line > s + avail THEN line - avail + 1 ELSE s

\* the scroll position that follows the cursor's line
Follow(line, s, avail) ==
    IF line < s THEN line ELSE IF line >= s + avail THEN line - avail + 1 ELSE s

Redraws == ~frozen \/ mode = "TOOLS"

\* nsr_tui_render of a frozen screen: only a mark is drawn
KeepScreen ==
    /\ pc = "draw" /\ ~Redraws
    /\ pc' = "key"
    /\ UNCHANGED <<nav, cursor, scroll, focused, opts, remap, world, tree, lit, size, keys>>

render_normal ==
    /\ pc = "draw" /\ Redraws /\ mode = "NORMAL"
    /\ pc' = "key" /\ lit' = 0
    /\ UNCHANGED <<nav, cursor, scroll, focused, opts, remap, world, tree, size, keys>>

render_grid ==
    /\ pc = "draw" /\ Redraws /\ mode = "GRID"
    /\ pc' = "key"
    /\ LET total == Len(topo)
           c     == Within(cursor["GRID"], total)
           need  == IF total = 0 THEN 1 ELSE (total + cols - 1) \div cols
           s     == Follow(c \div cols, scroll["GRID"], rows)
       IN  /\ cursor' = [cursor EXCEPT !["GRID"] = c]
           /\ scroll' = [scroll EXCEPT !["GRID"] = IF need > rows /\ s > need - rows THEN need - rows ELSE s]
           /\ lit' = IF total = 0 THEN 0 ELSE topo[c + 1].id
    /\ UNCHANGED <<nav, focused, opts, remap, world, tree, size, keys>>

(* The nodes under a heading per target, targets as they come in the       *)
(* table, the nodes of one by ttl.                                         *)
FirstOf(t) == CHOOSE i \in DOMAIN topo : topo[i].target = t /\ \A j \in 1..(i - 1) : topo[j].target # t
TreeBefore(i, j) ==
    LET a == FirstOf(topo[i].target)
        b == FirstOf(topo[j].target)
    IN  \/ a < b
        \/ a = b /\ topo[i].ttl < topo[j].ttl
        \/ a = b /\ topo[i].ttl = topo[j].ttl /\ i < j

\* the table sorted by TreeBefore: entry k has k - 1 before it
TreeOrder == [k \in DOMAIN topo |->
    CHOOSE i \in DOMAIN topo : Cardinality({j \in DOMAIN topo : TreeBefore(j, i)}) = k - 1]

\* the line of entry k (from 0) of the tree, headings counted
TreeLine(order, k) == k + Cardinality({topo[order[i]].target : i \in 1..(k + 1)})

\* mutant: g_tree_nodes is only filled once
render_tree_Stale ==
    /\ pc = "draw" /\ Redraws /\ mode = "TREE"
    /\ pc' = "key"
    /\ LET order == TreeOrder
           c     == cursor["TREE"]
           w     == Within(c, Len(order))
       IN  /\ tree' = IF tree # <<>> THEN tree ELSE [i \in 1..Len(order) |-> topo[order[i]].id]
           /\ lit' = IF c \in 0..(Len(order) - 1) /\ TreeLine(order, c) \in scroll["TREE"]..(scroll["TREE"] + rows - 1)
                     THEN topo[order[c + 1]].id ELSE 0
           /\ cursor' = [cursor EXCEPT !["TREE"] = w]
           /\ scroll' = [scroll EXCEPT !["TREE"] = Follow(w, @, rows)]
    /\ UNCHANGED <<nav, focused, opts, remap, world, size, keys>>

(* Cursor and scroll are adjusted after the lines have been drawn.         *)
render_tree ==
    /\ pc = "draw" /\ Redraws /\ mode = "TREE"
    /\ pc' = "key"
    /\ LET order == TreeOrder
           c     == cursor["TREE"]
           w     == Within(c, Len(order))
       IN  /\ tree' = [i \in 1..Len(order) |-> topo[order[i]].id]
           /\ lit' = IF c \in 0..(Len(order) - 1) /\ TreeLine(order, c) \in scroll["TREE"]..(scroll["TREE"] + rows - 1)
                     THEN topo[order[c + 1]].id ELSE 0
           /\ cursor' = [cursor EXCEPT !["TREE"] = w]
           /\ scroll' = [scroll EXCEPT !["TREE"] = Follow(w, @, rows)]
    /\ UNCHANGED <<nav, focused, opts, remap, world, size, keys>>

(* The box of the Tools menu: its height has a minimum and its width is    *)
(* fixed, so that on a small terminal a part of it is outside the screen.  *)
Half(n)   == IF n < 0 THEN -((-n) \div 2) ELSE n \div 2       \* n / 2 in C
BoxHeight == IF max_y - 8 < MinBox THEN MinBox ELSE max_y - 8
BoxTop    == Half(max_y - BoxHeight)
BoxLeft   == Half(max_x - BoxWidth)

ToolsAvail  == BoxHeight - 4
ToolsRow(i) == BoxTop + 2 + i

(* What is drawn in that row, from column BoxLeft + 2, can be read: the    *)
(* row and the column exist, and neither the line of help, from column     *)
(* BoxLeft of row max_y - 3, nor the footer is drawn over it.              *)
OnScreen(row) ==
    /\ row >= 0 /\ row < max_y - 1
    /\ BoxLeft + 2 >= 0
    /\ row # max_y - 3 \/ BoxLeft < 0

render_tools ==
    /\ pc = "draw" /\ mode = "TOOLS"
    /\ pc' = "key"
    /\ LET c == Within(cursor["TOOLS"], Len(Reserves))
           s == Follow(c, scroll["TOOLS"], ToolsAvail)
       IN  /\ cursor' = [cursor EXCEPT !["TOOLS"] = c]
           /\ scroll' = [scroll EXCEPT !["TOOLS"] = s]
           /\ lit' = IF Plugins # {} /\ OnScreen(ToolsRow(c - s)) THEN c + 1 ELSE 0
    /\ UNCHANGED <<nav, focused, opts, remap, world, tree, size, keys>>

-----------------------------------------------------------------------------
(* Keys: nsr_tui_update.                                                   *)

(* What a key is taken for, in the order of the function: quit, dashboard, *)
(* all of the Tools menu, views, Esc, freeze, plugins, the current view.   *)
FirstMatch(shortcuts, ch, otherwise) ==
    LET i == SelectInSeq(shortcuts, LAMBDA s : key_mgr_matches(s, ch))
    IN  IF i = 0 THEN otherwise ELSE shortcuts[i]

ReservedNow(ch) == \E p \in on : Lower(ch) \in ToSet(Reserves[p])

Meaning(ch) ==
    FirstMatch(<<"q", "d">>, ch,
        IF mode = "TOOLS" THEN "tools"
        ELSE FirstMatch(<<"n", "g", "m", "t">>, ch,
                IF ch = "esc" THEN "esc"
                ELSE FirstMatch(<<"p">>, ch, IF ReservedNow(ch) THEN "plugin" ELSE mode)))

Pressed(ch, meaning) ==
    /\ pc = "key" /\ keys < MaxKeys
    /\ Meaning(ch) = meaning
    /\ keys' = keys + 1

\* mutant: a full stack is emptied
push_nav_Restart(m) ==
    /\ stack' = IF Len(stack) < NavDepth THEN Append(stack, mode) ELSE <<mode>>
    /\ mode' = m

push_nav(m) ==
    /\ stack' = IF Len(stack) < NavDepth THEN Append(stack, mode) ELSE stack
    /\ mode' = m

pop_nav ==
    /\ mode' = IF stack # <<>> THEN Last(stack) ELSE "NORMAL"
    /\ stack' = IF stack # <<>> THEN Front(stack) ELSE stack

Quit(ch) ==
    /\ Pressed(ch, "q") /\ pc' = "done"
    /\ UNCHANGED <<nav, cursor, scroll, focused, opts, remap, world, tree, lit, size>>

\* outside the Normal view only a notice appears
Dashboard(ch) ==
    /\ Pressed(ch, "d") /\ pc' = "draw"
    /\ dashboard' = (dashboard # (mode = "NORMAL"))
    /\ UNCHANGED <<nav, cursor, scroll, focused, frozen, stats, remap, world, tree, lit, size>>

GotoNormal(ch) ==
    /\ Pressed(ch, "n") /\ pc' = "draw"
    /\ mode' = "NORMAL" /\ stack' = <<>>
    /\ UNCHANGED <<cursor, scroll, focused, opts, remap, world, tree, lit, size>>

GotoView(ch, shortcut, m) ==
    /\ Pressed(ch, shortcut) /\ pc' = "draw"
    /\ IF mode # m THEN push_nav(m) ELSE UNCHANGED nav
    /\ UNCHANGED <<cursor, scroll, focused, opts, remap, world, tree, lit, size>>

Back(ch) ==
    /\ Pressed(ch, "esc") /\ pc' = "draw"
    /\ pop_nav
    /\ UNCHANGED <<cursor, scroll, focused, opts, remap, world, tree, lit, size>>

Freeze(ch) ==
    /\ Pressed(ch, "p") /\ pc' = "draw"
    /\ frozen' = ~frozen
    /\ UNCHANGED <<nav, cursor, scroll, focused, dashboard, stats, remap, world, tree, lit, size>>

\* nsr_plugins_on_key keeps it
ToPlugin(ch) ==
    /\ Pressed(ch, "plugin") /\ pc' = "draw"
    /\ UNCHANGED <<nav, cursor, scroll, focused, opts, remap, world, tree, lit, size>>

\* the Normal view: Z, J and K return commands to main (module Session)
NormalKey(ch) ==
    /\ Pressed(ch, "NORMAL") /\ pc' = "draw"
    /\ stats' = (stats # (ch = "S" /\ ~key_mgr_matches("z", ch)))
    /\ UNCHANGED <<nav, cursor, scroll, focused, frozen, dashboard, remap, world, tree, lit, size>>

\* steps in a list of n entries; h and l skip a page, but not from an end
ListStep(c, ch, n) ==
    CASE ch = "k" /\ c > 0     -> c - 1
      [] ch = "j" /\ c < n - 1 -> c + 1
      [] ch = "h" /\ c > 0     -> c - Page
      [] ch = "l" /\ c < n - 1 -> c + Page
      [] OTHER                 -> c

GridStep(c, ch) ==
    CASE ch = "h" -> c - 1 [] ch = "l" -> c + 1
      [] ch = "k" -> c - cols [] ch = "j" -> c + cols [] OTHER -> c

\* as Within, but -1 in an empty list
Clamped(c, n) == IF (IF c < 0 THEN 0 ELSE c) >= n THEN n - 1 ELSE IF c < 0 THEN 0 ELSE c

Flip(S, x) == IF x \in S THEN S \ {x} ELSE S \cup {x}

(* The remap stays what it was at the start.                               *)
ToolsKey(ch) ==
    /\ Pressed(ch, "tools") /\ pc' = "draw"
    /\ IF ch = "esc" \/ (ch = "t" /\ key_mgr_matches("t", ch)) THEN pop_nav ELSE UNCHANGED nav
    /\ on' = IF ch = "enter" /\ cursor["TOOLS"] + 1 \in Plugins THEN Flip(on, cursor["TOOLS"] + 1) ELSE on
    /\ cursor' = [cursor EXCEPT !["TOOLS"] = Within(ListStep(@, ch, Len(Reserves)), Len(Reserves))]
    /\ UNCHANGED <<scroll, focused, opts, remap, topo, control, tree, lit, size>>

\* Enter on the node with this id, 0 when there is none
Focus(id) ==
    /\ focused' = IF id # 0 THEN id ELSE focused
    /\ push_nav("NORMAL")

GridNode == IF cursor["GRID"] + 1 \in DOMAIN topo THEN topo[cursor["GRID"] + 1].id ELSE 0
TreeNode == IF cursor["TREE"] + 1 \in DOMAIN tree THEN tree[cursor["TREE"] + 1] ELSE 0

\* Enter and C in the grid or the tree, on the entry under the cursor
OnNode(ch, view, id) ==
    /\ ch \in {"enter", "c"}
    /\ IF ch = "enter" /\ cursor[view] \in 0..(Len(topo) - 1)
       THEN Focus(id) ELSE UNCHANGED <<nav, focused>>
    /\ control' = IF ch = "c" /\ id # 0 THEN Flip(control, id) ELSE control
    /\ UNCHANGED cursor

GridKey(ch) ==
    /\ Pressed(ch, "GRID") /\ pc' = "draw"
    /\ \/ OnNode(ch, "GRID", GridNode)
       \/ /\ ch \notin {"enter", "c"}
          /\ cursor' = [cursor EXCEPT !["GRID"] = Clamped(GridStep(@, ch), Len(topo))]
          /\ UNCHANGED <<nav, focused, control>>
    /\ UNCHANGED <<scroll, opts, remap, topo, on, tree, lit, size>>

TreeKey(ch) ==
    /\ Pressed(ch, "TREE") /\ pc' = "draw"
    /\ \/ OnNode(ch, "TREE", TreeNode)
       \/ /\ ch \notin {"enter", "c"}
          /\ cursor' = [cursor EXCEPT !["TREE"] = Clamped(ListStep(@, ch, Len(topo)), Len(topo))]
          /\ UNCHANGED <<nav, focused, control>>
    /\ UNCHANGED <<scroll, opts, remap, topo, on, tree, lit, size>>

\* no key
Idle ==
    /\ pc = "key" /\ pc' = "draw"
    /\ UNCHANGED <<nav, cursor, scroll, focused, opts, remap, world, tree, lit, size, keys>>

Draw == KeepScreen \/ render_normal \/ render_grid \/ render_tree \/ render_tools

Press ==
    \E ch \in Key : \/ Quit(ch) \/ Dashboard(ch) \/ GotoNormal(ch) \/ Back(ch) \/ Freeze(ch)
                    \/ GotoView(ch, "g", "GRID") \/ GotoView(ch, "m", "TOOLS") \/ GotoView(ch, "t", "TREE")
                    \/ ToPlugin(ch) \/ NormalKey(ch) \/ ToolsKey(ch) \/ GridKey(ch) \/ TreeKey(ch)

Next ==
    \/ \E t \in Target, ttl \in 1..MaxTTL : NewNode(t, ttl)
    \/ \E i \in DOMAIN topo, ttl \in 1..MaxTTL : NewTtl(i, ttl)
    \/ Resize \/ Draw \/ Press \/ Idle

Spec == Init /\ [][Next]_vars

-----------------------------------------------------------------------------
(* Properties.                                                             *)

(* Types; an empty list may leave a cursor at -1 until it is drawn.        *)
TypeOK ==
    /\ mode \in Mode /\ stack \in Seq(Mode) /\ Len(stack) <= NavDepth
    /\ cursor \in [Lists -> -1..(MaxNodes + Len(Reserves))]
    /\ scroll \in [Lists -> 0..(MaxNodes + Len(Reserves))]
    /\ focused \in 0..MaxNodes /\ control \subseteq 1..MaxNodes
    /\ {frozen, dashboard, stats} \subseteq BOOLEAN /\ on \subseteq Plugins
    /\ topo \in Seq([id : 1..MaxNodes, target : Target, ttl : 1..MaxTTL])
    /\ tree \in Seq(1..MaxNodes) /\ lit \in Nat
    /\ pc \in {"draw", "key", "done"}

(* README.md:93, `Esc' goes "Back to previous view": the Normal view is at *)
(* the bottom of the stack, also when it has overflowed, and unless it is  *)
(* full, Esc changes the view; no press is lost on the way home.           *)
EscLeadsHome ==
    LET views == Append(stack, mode)
    IN  /\ TypeOK
        /\ views[1] = "NORMAL"
        /\ \A i \in 1..(Len(views) - 1) : (i = Len(stack) /\ i = NavDepth) \/ views[i] # views[i + 1]

(* After a frame has been drawn the cursor is on the screen: that of the   *)
(* grid on a terminal of any size, that of the Tools menu when the terminal*)
(* has more lines than the least box and the box does not begin more than  *)
(* two columns to the left of it (11 lines and 59 columns); on a smaller   *)
(* one it is only known to be in a line of the box.  That of the tree,     *)
(* whose scrolling forgets the headings, is missed by no more lines than   *)
(* there are headings.  A terminal has five lines and four columns at      *)
(* least; what a plugin paints over a list is left out.                    *)
Headings == Cardinality({topo[i].target : i \in DOMAIN topo})
CursorShown ==
    pc = "key" /\ Redraws =>
        /\ mode = "GRID" =>
              cursor["GRID"] \div cols \in scroll["GRID"]..(scroll["GRID"] + rows - 1)
        /\ mode = "TOOLS" =>
              /\ cursor["TOOLS"] \in scroll["TOOLS"]..(scroll["TOOLS"] + ToolsAvail - 1)
              /\ max_y > MinBox /\ BoxLeft + 2 >= 0 => OnScreen(ToolsRow(cursor["TOOLS"] - scroll["TOOLS"]))
        /\ mode = "TREE" /\ tree # <<>> =>
              TreeLine(TreeOrder, cursor["TREE"]) \in scroll["TREE"]..(scroll["TREE"] + rows - 1 + Headings)

(* Refuted: that Enter in the Tools menu always flips a plugin whose entry *)
(* can be read.                                                            *)
ToolsReadable == [][on' # on => lit # 0]_vars

(* README.md:91-92: Enter and C act on the node (or plugin) that the last  *)
(* frame has highlighted, although nodes arrive, change places and fill    *)
(* the table's first slot in between; unless the screen is frozen or shows *)
(* no highlight, the cursor being outside it.                              *)
ActsOnHighlighted ==
    [][/\ (focused' # focused /\ ~frozen /\ lit # 0) => focused' = lit
       /\ (control' # control /\ ~frozen /\ lit # 0) => control' = Flip(control, lit)
       /\ (on' # on /\ lit # 0) => on' = Flip(on, lit)]_vars
=============================================================================
