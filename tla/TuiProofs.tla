----------------------------- MODULE TuiProofs -----------------------------
(***************************************************************************)
(* Proofs about the interface for every number of nodes and plugins, every *)
(* size of the terminal and every sequence of keys: EscLeadsHome,          *)
(* CursorShown and ActsOnHighlighted.                                      *)
(*                                                                         *)
(* EscLeadsHome speaks of the stack and is inductive with its type.        *)
(* CursorShown needs the sizes of the lists, and ActsOnHighlighted that    *)
(* between a frame and the next key nothing moves the list under the       *)
(* highlight (Lit).                                                        *)
(***************************************************************************)
EXTENDS Tui, SequenceTheorems, SetInduction

Node == [id : 1..MaxNodes, target : Target, ttl : 1..MaxTTL]

(* What the screen highlights is what is under the cursor, until the key   *)
(* has been handled; a frame that was not drawn promises nothing.          *)
Lit ==
    pc = "key" /\ Redraws =>
        /\ mode = "GRID" /\ topo # <<>> =>
              cursor["GRID"] + 1 \in DOMAIN topo /\ lit = topo[cursor["GRID"] + 1].id
        /\ mode = "TREE" /\ lit # 0 =>
              cursor["TREE"] + 1 \in DOMAIN tree /\ lit = tree[cursor["TREE"] + 1]
        /\ mode = "TOOLS" /\ lit # 0 => lit = cursor["TOOLS"] + 1

(* EscLeadsHome of a stack and a view.                                     *)
LeadsHome(st, m) ==
    LET views == Append(st, m)
    IN  /\ views[1] = "NORMAL"
        /\ \A i \in 1..(Len(views) - 1) : (i = Len(st) /\ i = NavDepth) \/ views[i] # views[i + 1]

Sized == max_y \in Heights /\ max_x \in Widths /\ Len(topo) <= MaxNodes

ListsOK == /\ cursor \in [Lists -> -1..(MaxNodes + Len(Reserves))]
           /\ scroll \in [Lists -> 0..(MaxNodes + Len(Reserves))]
NavOK   == mode \in Mode /\ stack \in Seq(Mode) /\ Len(stack) <= NavDepth
OptsOK  == {frozen, dashboard, stats} \subseteq BOOLEAN
WorldOK == /\ focused \in 0..MaxNodes /\ control \subseteq 1..MaxNodes /\ on \subseteq Plugins
           /\ topo \in Seq(Node) /\ tree \in Seq(1..MaxNodes) /\ lit \in Nat
PcOK    == pc \in {"draw", "key", "done"}

TuiInv == TypeOK /\ Sized /\ LeadsHome(stack, mode) /\ CursorShown /\ Lit

(* What the assumption says of the bounds.                                 *)
LEMMA Sizes ==
    /\ MaxNodes \in Nat /\ MaxTTL \in Nat /\ NavDepth \in Nat /\ Page \in Nat
    /\ CellWidth \in Nat /\ BoxWidth \in Nat /\ MinBox \in Nat
    /\ MaxNodes > 0 /\ MaxTTL > 0 /\ NavDepth > 0 /\ Page > 0 /\ CellWidth > 0 /\ BoxWidth > 0
    /\ MinBox > 4 /\ Len(Reserves) \in Nat
    /\ \A y \in Heights : y \in Nat /\ y > 4
    /\ \A x \in Widths : x \in Nat /\ x > 3
    /\ \A S \in Starts : S \subseteq Plugins
  BY TuiAssumption, LenProperties DEF Plugins

(* The lists have a line and a column at least.                            *)
LEMMA GridSize ==
    ASSUME Sized
    PROVE  cols \in Nat /\ cols > 0 /\ rows \in Nat /\ rows > 0
  <1>1. max_y \in Nat /\ max_y > 4 /\ max_x \in Nat
    BY Sizes DEF Sized
  <1>2. max_x \div CellWidth \in Int
    BY <1>1, Sizes
  <1>3. QED
    BY <1>1, <1>2 DEF cols, rows

(* On a terminal with more lines than the least box, and whose first       *)
(* columns are not left of the box's entries, every line of the box can be *)
(* read.                                                                   *)
LEMMA BoxOnScreen ==
    ASSUME Sized, max_y > MinBox, BoxLeft + 2 >= 0, NEW i \in 0..(ToolsAvail - 1)
    PROVE  OnScreen(ToolsRow(i))
  <1>1. max_y \in Nat /\ max_x \in Nat /\ MinBox \in Nat /\ MinBox > 4 /\ max_y > MinBox
    BY Sizes DEF Sized
  <1>2. BoxHeight \in Nat /\ BoxHeight > 4 /\ BoxHeight < max_y
    BY <1>1 DEF BoxHeight
  <1>3. BoxTop \in Nat /\ 2 * BoxTop <= max_y - BoxHeight
    BY <1>1, <1>2 DEF BoxTop, Half
  <1>4. ToolsRow(i) \in Nat /\ ToolsRow(i) < BoxTop + BoxHeight - 2 /\ BoxTop + BoxHeight + 1 <= max_y
    BY <1>1, <1>2, <1>3 DEF ToolsRow, ToolsAvail
  <1>5. ToolsRow(i) < max_y - 3
    BY <1>1, <1>2, <1>3, <1>4
  <1>6. QED
    BY <1>1, <1>4, <1>5 DEF OnScreen

(* The order of the tree is a rearrangement of the table.                  *)
LEMMA TreeOrderType ==
    ASSUME topo \in Seq(Node)
    PROVE  TreeOrder \in [DOMAIN topo -> DOMAIN topo]
  <1> DEFINE D == DOMAIN topo
             first == [i \in D |-> FirstOf(topo[i].target)]
             R == {e \in D \X D : TreeBefore(e[1], e[2])}
  <1>1. Len(topo) \in Nat /\ D = 1..Len(topo) /\ \A i \in D : topo[i] \in Node
    BY LenProperties, ElementOfSeq
  <1>2. ASSUME NEW i \in D PROVE first[i] \in Nat
    <2> DEFINE same == {j \in D : topo[j].target = topo[i].target}
    <2>1. same \subseteq Nat /\ same # {}
      BY <1>1
    <2>2. PICK m \in same : \A j \in same : m <= j
      <3> HIDE DEF same
      <3>1. QED
        BY <2>1, NatSetLeast
    <2>3. \A j \in 1..(m - 1) : topo[j].target # topo[i].target
      <3>1. TAKE j \in 1..(m - 1)
      <3>2. j \in D /\ ~(m <= j)
        BY <1>1, <2>2
      <3>3. QED
        BY <2>2, <3>2
    <2>4. \E k \in D : topo[k].target = topo[i].target /\ \A j \in 1..(k - 1) : topo[j].target # topo[i].target
      BY <2>2, <2>3
    <2>5. FirstOf(topo[i].target) \in D
      BY <2>4, Zenon DEF FirstOf
    <2>6. QED
      BY <1>1, <2>5
  <1>3. \A i \in D : topo[i].ttl \in Nat /\ i \in Nat
    BY <1>1, Sizes DEF Node
  <1>4. /\ \A i \in D : ~TreeBefore(i, i)
        /\ \A i, j, k \in D : TreeBefore(i, j) /\ TreeBefore(j, k) => TreeBefore(i, k)
        /\ \A i, j \in D : i = j \/ TreeBefore(i, j) \/ TreeBefore(j, i)
    <2> HIDE DEF first
    <2>1. \A i, j \in D : TreeBefore(i, j) <=> \/ first[i] < first[j]
                                               \/ first[i] = first[j] /\ topo[i].ttl < topo[j].ttl
                                               \/ first[i] = first[j] /\ topo[i].ttl = topo[j].ttl /\ i < j
      BY DEF TreeBefore, first
    <2>2. \A i \in D : ~TreeBefore(i, i)
      BY <1>2, <1>3, <2>1
    <2>3. ASSUME NEW i \in D, NEW j \in D, NEW k \in D, TreeBefore(i, j), TreeBefore(j, k)
          PROVE  TreeBefore(i, k)
      <3> DEFINE a == first[i]
                 b == first[j]
                 c == first[k]
                 u == topo[i].ttl
                 v == topo[j].ttl
                 w == topo[k].ttl
      <3>1. a \in Nat /\ b \in Nat /\ c \in Nat /\ u \in Nat /\ v \in Nat /\ w \in Nat
            /\ i \in Nat /\ j \in Nat /\ k \in Nat
        BY <1>2, <1>3
      <3>2. (a < b \/ (a = b /\ u < v) \/ (a = b /\ u = v /\ i < j))
            /\ (b < c \/ (b = c /\ v < w) \/ (b = c /\ v = w /\ j < k))
        BY <2>1, <2>3
      <3>3. a < c \/ (a = c /\ u < w) \/ (a = c /\ u = w /\ i < k)
        <4> HIDE DEF a, b, c, u, v, w
        <4>1. QED
          BY <3>1, <3>2
      <3>4. QED
        BY <2>1, <3>3
    <2>4. \A i, j \in D : i = j \/ TreeBefore(i, j) \/ TreeBefore(j, i)
      BY <1>2, <1>3, <2>1
    <2>5. QED
      BY <2>2, <2>3, <2>4
  <1>5. \A i, j \in D : <<i, j>> \in R <=> TreeBefore(i, j)
    BY Zenon
  <1> HIDE DEF first, R
  <1>6. /\ \A i \in D : <<i, i>> \notin R
        /\ \A i, j, k \in D : <<i, j>> \in R /\ <<j, k>> \in R => <<i, k>> \in R
        /\ \A i, j \in D : i = j \/ <<i, j>> \in R \/ <<j, i>> \in R
    <2> HIDE DEF D
    <2>1. QED
      BY <1>4, <1>5, Zenon
  <1>7. IsFiniteSet(D) /\ Cardinality(D) = Len(topo)
    BY <1>1, FS_Interval
  <1>8. \A k \in 1..Cardinality(D) : \E i \in D : Cardinality(Below(D, R, i)) = k - 1
    <2> HIDE DEF D
    <2>1. QED
      BY <1>6, <1>7, Ranking
  <1>9. \A i \in D : Below(D, R, i) = {j \in D : TreeBefore(j, i)}
    BY DEF Below, R
  <1>10. \A k \in D : \E i \in D : Cardinality({j \in D : TreeBefore(j, i)}) = k - 1
    BY <1>1, <1>7, <1>8, <1>9
  <1>11. \A k \in D : (CHOOSE i \in D : Cardinality({j \in D : TreeBefore(j, i)}) = k - 1) \in D
    BY <1>10, Zenon
  <1>12. QED
    BY <1>11 DEF TreeOrder

(* The type invariant in the parts that a step changes together.           *)
LEMMA TypeParts == TypeOK <=> ListsOK /\ NavOK /\ OptsOK /\ WorldOK /\ PcOK
  BY DEF TypeOK, ListsOK, NavOK, OptsOK, WorldOK, PcOK, Node

-----------------------------------------------------------------------------
(* The stack of views.                                                     *)

(* Opening another view, with room on the stack or without, leaves a stack *)
(* that leads home.                                                        *)
LEMMA PushHome ==
    ASSUME NavOK, LeadsHome(stack, mode), NEW m \in Mode, m # mode, push_nav(m)
    PROVE  NavOK' /\ LeadsHome(stack, mode)'
  <1>1. mode' = m /\ mode \in Mode /\ stack \in Seq(Mode) /\ Len(stack) \in Nat /\ Len(stack) <= NavDepth
    BY LenProperties DEF push_nav, NavOK
  <1>2. CASE Len(stack) < NavDepth
    <2>1. stack' = Append(stack, mode)
      BY <1>2 DEF push_nav
    <2>2. NavOK'
      BY <1>1, <1>2, <2>1, Sizes DEF NavOK
    <2>3. LeadsHome(stack', m)
      BY <1>1, <1>2, <2>1, Sizes DEF LeadsHome
    <2>4. QED
      BY <1>1, <2>2, <2>3 DEF LeadsHome
  <1>3. CASE ~(Len(stack) < NavDepth)
    <2>1. stack' = stack /\ Len(stack) = NavDepth
      BY <1>1, <1>3, Sizes DEF push_nav
    <2>2. NavOK'
      BY <1>1, <2>1 DEF NavOK
    <2>3. LeadsHome(stack, m)
      BY <1>1, <2>1, Sizes DEF LeadsHome
    <2>4. QED
      BY <1>1, <2>1, <2>2, <2>3 DEF LeadsHome
  <1>4. QED
    BY <1>2, <1>3

(* So does Esc.                                                            *)
LEMMA PopHome ==
    ASSUME NavOK, LeadsHome(stack, mode), pop_nav
    PROVE  NavOK' /\ LeadsHome(stack, mode)'
  <1>1. mode \in Mode /\ stack \in Seq(Mode) /\ Len(stack) \in Nat /\ Len(stack) <= NavDepth
    BY LenProperties DEF NavOK
  <1>2. CASE stack # <<>>
    <2>1. Len(stack) > 0
      BY <1>1, <1>2, EmptySeq
    <2>2. mode' = stack[Len(stack)] /\ stack' = SubSeq(stack, 1, Len(stack) - 1)
      BY <1>2 DEF pop_nav, Last, Front
    <2>3. /\ stack' \in Seq(Mode) /\ Len(stack') = Len(stack) - 1
          /\ \A i \in 1..(Len(stack) - 1) : stack'[i] = stack[i]
      <3>1. Len(stack) - 1 \in 0..Len(stack)
        BY <1>1, <2>1
      <3>2. SubSeq(stack, 1, Len(stack) - 1) = [i \in 1..(Len(stack) - 1) |-> stack[i]]
        BY <1>1, <2>1
      <3>3. \A i \in 1..(Len(stack) - 1) : stack[i] \in Mode
        BY <1>1, <2>1
      <3>4. Len(stack) - 1 \in Nat
        BY <1>1, <2>1
      <3>5. [i \in 1..(Len(stack) - 1) |-> stack[i]] \in Seq(Mode)
        BY <3>3, <3>4, IsASeq
      <3>6. stack' = [i \in 1..(Len(stack) - 1) |-> stack[i]]
        BY <2>2, <3>2
      <3>7. stack' \in Seq(Mode) /\ DOMAIN stack' = 1..(Len(stack) - 1)
        BY <3>5, <3>6
      <3>8. Len(stack') = Len(stack) - 1
        BY <3>4, <3>7, LenProperties
      <3>9. QED
        BY <3>6, <3>7, <3>8
    <2>4. NavOK'
      <3>1. stack[Len(stack)] \in Mode
        BY <1>1, <2>1
      <3>2. Len(stack') <= NavDepth
        BY <1>1, <2>3, Sizes
      <3>3. QED
        BY <2>2, <2>3, <3>1, <3>2 DEF NavOK
    <2>5. LeadsHome(stack', stack[Len(stack)])
      BY <1>1, <2>1, <2>3 DEF LeadsHome
    <2>6. QED
      BY <2>2, <2>4, <2>5 DEF LeadsHome
  <1>3. CASE stack = <<>>
    <2>1. mode' = "NORMAL" /\ stack' = <<>>
      BY <1>3 DEF pop_nav
    <2>2. QED
      BY <2>1, Sizes DEF NavOK, LeadsHome, Mode
  <1>4. QED
    BY <1>2, <1>3

-----------------------------------------------------------------------------
(* What a key is taken for: a shortcut, or what is left of it.             *)

(* The first shortcut of a list that a key matches is one of the list.     *)
LEMMA FirstMatchIs ==
    ASSUME NEW s \in Seq(Shortcuts), NEW ch, NEW other
    PROVE  FirstMatch(s, ch, other) = other \/ FirstMatch(s, ch, other) \in Shortcuts
  <1> DEFINE I == {i \in 1..Len(s) : key_mgr_matches(s[i], ch)}
  <1>1. CASE I = {}
    BY <1>1 DEF FirstMatch, SelectInSeq
  <1>2. CASE I # {}
    <2>1. I \subseteq Nat
      OBVIOUS
    <2>2. \E x \in I : \A y \in I : x <= y
      <3> HIDE DEF I
      <3>1. QED
        BY <1>2, <2>1, NatSetLeast
    <2>3. Min(I) \in I
      BY <2>2 DEF Min
    <2>4. Min(I) # 0 /\ Min(I) \in 1..Len(s)
      BY <2>3
    <2>5. FirstMatch(s, ch, other) = s[Min(I)]
      BY <1>2, <2>4 DEF FirstMatch, SelectInSeq
    <2>6. QED
      BY <2>4, <2>5, ElementOfSeq
  <1>3. QED
    BY <1>1, <1>2

(* A key is handled by a view only while that view is shown.               *)
LEMMA MeaningIs ==
    ASSUME mode \in Mode, NEW ch
    PROVE  /\ Meaning(ch) = "tools" => mode = "TOOLS"
           /\ Meaning(ch) \in Mode => mode = Meaning(ch)
  <1> DEFINE view == FirstMatch(<<"p">>, ch, IF ReservedNow(ch) THEN "plugin" ELSE mode)
             other == FirstMatch(<<"n", "g", "m", "t">>, ch, IF ch = "esc" THEN "esc" ELSE view)
             rest == IF mode = "TOOLS" THEN "tools" ELSE other
  <1>1. <<"q", "d">> \in Seq(Shortcuts) /\ <<"n", "g", "m", "t">> \in Seq(Shortcuts) /\ <<"p">> \in Seq(Shortcuts)
    BY DEF Shortcuts
  <1>2. Meaning(ch) = rest \/ Meaning(ch) \in Shortcuts
    BY <1>1, FirstMatchIs DEF Meaning
  <1>3. other = (IF ch = "esc" THEN "esc" ELSE view) \/ other \in Shortcuts
    <2> HIDE DEF view
    <2>1. QED
      BY <1>1, FirstMatchIs
  <1>4. view = (IF ReservedNow(ch) THEN "plugin" ELSE mode) \/ view \in Shortcuts
    BY <1>1, FirstMatchIs
  <1> HIDE DEF view, other
  <1>5. QED
    BY <1>2, <1>3, <1>4 DEF Shortcuts, Mode

-----------------------------------------------------------------------------
(* Cursors and scroll positions.                                           *)

(* A clamped cursor is on an entry if there is one.                        *)
LEMMA WithinIs ==
    ASSUME NEW c \in Int, NEW n \in Nat
    PROVE  /\ Within(c, n) \in Nat
           /\ n > 0 => Within(c, n) \in 0..(n - 1)
           /\ n = 0 => Within(c, n) = 0
           /\ c \in 0..(n - 1) => Within(c, n) = c
  BY DEF Within

(* A scroll position that follows the cursor shows its line.               *)
LEMMA FollowIs ==
    ASSUME NEW line \in Nat, NEW s \in Nat, NEW avail \in Nat, avail > 0
    PROVE  /\ Follow(line, s, avail) \in Nat
           /\ line \in Follow(line, s, avail)..(Follow(line, s, avail) + avail - 1)
           /\ Follow(line, s, avail) <= line \/ Follow(line, s, avail) = s
  BY DEF Follow

(* Entry c of n is on one of the rows that n entries need.                 *)
LEMMA RowOf ==
    ASSUME NEW n \in Nat, NEW k \in Nat, k > 0, NEW c \in 0..(n - 1)
    PROVE  /\ c \div k \in Nat /\ c \div k <= c
           /\ (n + k - 1) \div k \in Nat /\ (n + k - 1) \div k <= n
           /\ c \div k + 1 <= (n + k - 1) \div k
  <1> DEFINE q == c \div k
             d == (n + k - 1) \div k
  <1>1. q \in Int /\ d \in Int
    BY SMT
  <1>2. q * k <= c /\ c < q * k + k
    BY SMT
  <1>3. d * k <= n + k - 1 /\ n + k - 1 < d * k + k
    BY SMT
  <1> HIDE DEF q, d
  <1>4. q >= 0 /\ q <= c
    BY <1>1, <1>2, SMT
  <1>5. d <= n
    <2>1. SUFFICES ASSUME d >= n + 1 PROVE FALSE
      BY <1>1
    <2>2. d * k >= (n + 1) * k
      BY <1>1, <2>1, SMT
    <2>3. (n + 1) * k >= n + k
      BY SMT
    <2>4. QED
      BY <1>1, <1>3, <2>2, <2>3, SMT
  <1>6. q + 1 <= d
    <2>1. SUFFICES ASSUME d <= q PROVE FALSE
      BY <1>1
    <2>2. d * k <= q * k
      BY <1>1, <2>1, SMT
    <2>3. QED
      BY <1>1, <1>2, <1>3, <2>2, SMT
  <1>7. QED
    BY <1>1, <1>4, <1>5, <1>6 DEF q, d

-----------------------------------------------------------------------------
(* Drawing a frame.                                                        *)

(* The types of the cursor and the scroll position of a list, and of what  *)
(* a step writes to them.                                                  *)
LEMMA ListFacts ==
    ASSUME ListsOK, NEW l \in Lists
    PROVE  /\ cursor[l] \in Int /\ scroll[l] \in Nat /\ scroll[l] <= MaxNodes + Len(Reserves)
           /\ \A c \in Nat : c <= MaxNodes + Len(Reserves) =>
                 [cursor EXCEPT ![l] = c] \in [Lists -> -1..(MaxNodes + Len(Reserves))]
           /\ \A s \in Nat : s <= MaxNodes + Len(Reserves) =>
                 [scroll EXCEPT ![l] = s] \in [Lists -> 0..(MaxNodes + Len(Reserves))]
  BY Sizes DEF ListsOK

(* Drawing the grid clamps the cursor, scrolls to it and highlights its    *)
(* entry.                                                                  *)
LEMMA GridInv ==
    ASSUME TuiInv, render_grid
    PROVE  TuiInv'
  <1> DEFINE N     == MaxNodes + Len(Reserves)
             total == Len(topo)
             c     == Within(cursor["GRID"], total)
             need  == IF total = 0 THEN 1 ELSE (total + cols - 1) \div cols
             row   == c \div cols
             s     == Follow(row, scroll["GRID"], rows)
             t     == IF need > rows /\ s > need - rows THEN need - rows ELSE s
  <1>1. /\ ListsOK /\ NavOK /\ OptsOK /\ WorldOK /\ PcOK /\ Sized /\ LeadsHome(stack, mode)
        /\ total \in Nat /\ total <= MaxNodes /\ topo \in Seq(Node)
        /\ cols \in Nat /\ cols > 0 /\ rows \in Nat /\ rows > 0 /\ N \in Nat /\ MaxNodes <= N
    BY TypeParts, Sizes, GridSize, LenProperties DEF TuiInv, WorldOK, Sized
  <1>2. /\ pc = "draw" /\ pc' = "key" /\ Redraws /\ mode = "GRID"
        /\ cursor' = [cursor EXCEPT !["GRID"] = c]
        /\ scroll' = [scroll EXCEPT !["GRID"] = t]
        /\ lit' = IF total = 0 THEN 0 ELSE topo[c + 1].id
        /\ UNCHANGED <<mode, stack, focused, frozen, dashboard, stats, remap, topo, control, on, tree, max_y, max_x, cols, rows, keys>>
    BY DEF render_grid, nav, opts, world, size, cols, rows
  <1>3. "GRID" \in Lists /\ cursor["GRID"] \in Int /\ scroll["GRID"] \in Nat /\ scroll["GRID"] <= N
    BY <1>1, ListFacts DEF Lists
  <1>4. c \in Nat /\ (total > 0 => c \in 0..(total - 1)) /\ (total = 0 => c = 0)
    BY <1>1, <1>3, WithinIs
  <1> HIDE DEF N, total, c
  <1>5. row \in Nat /\ row <= c /\ need \in Nat /\ row + 1 <= need /\ (need <= N \/ need = 1)
    <2>1. CASE total = 0
      BY <1>1, <1>4, <2>1
    <2>2. CASE total > 0
      <3>1. need = (total + cols - 1) \div cols
        BY <2>2
      <3>2. c \in 0..(total - 1)
        BY <1>4, <2>2
      <3>3. /\ row \in Nat /\ row <= c
            /\ (total + cols - 1) \div cols \in Nat /\ (total + cols - 1) \div cols <= total
            /\ row + 1 <= (total + cols - 1) \div cols
        BY <1>1, <3>2, RowOf
      <3> HIDE DEF row, need
      <3>4. QED
        BY <1>1, <3>1, <3>3, Sizes
    <2>3. QED
      BY <1>1, <2>1, <2>2
  <1> HIDE DEF row, need
  <1>6. /\ s \in Nat /\ row \in s..(s + rows - 1) /\ (s <= row \/ s = scroll["GRID"])
    BY <1>1, <1>3, <1>5, FollowIs
  <1>7. c <= N
    BY <1>1, <1>4, Sizes
  <1> HIDE DEF s
  <1>8. t \in Nat /\ t <= N /\ row \in t..(t + rows - 1)
    BY <1>1, <1>3, <1>5, <1>6, <1>7
  <1> HIDE DEF t
  <1>9. ListsOK'
    BY <1>1, <1>2, <1>3, <1>4, <1>7, <1>8, ListFacts DEF ListsOK, N
  <1>10. NavOK' /\ OptsOK' /\ PcOK' /\ Sized' /\ LeadsHome(stack, mode)'
    BY <1>1, <1>2 DEF NavOK, OptsOK, PcOK, Sized, LeadsHome
  <1>11. total > 0 => c + 1 \in DOMAIN topo /\ topo[c + 1].id \in 1..MaxNodes
    <2>1. SUFFICES ASSUME total > 0 PROVE c + 1 \in DOMAIN topo /\ topo[c + 1].id \in 1..MaxNodes
      OBVIOUS
    <2>2. c + 1 \in 1..total /\ DOMAIN topo = 1..total
      BY <1>1, <1>4, <2>1, LenProperties DEF total
    <2>3. topo[c + 1] \in Node
      BY <1>1, <2>2, ElementOfSeq DEF total
    <2>4. QED
      BY <2>2, <2>3 DEF Node
  <1>12. WorldOK'
    <2>1. lit' \in Nat
      BY <1>1, <1>2, <1>11, Sizes
    <2>2. QED
      BY <1>1, <1>2, <2>1 DEF WorldOK
  <1>13. cursor'["GRID"] = c /\ scroll'["GRID"] = t
    BY <1>1, <1>2, <1>3 DEF ListsOK
  <1>14. CursorShown'
    BY <1>2, <1>8, <1>13 DEF CursorShown, row
  <1>15. Lit'
    BY <1>1, <1>2, <1>11, <1>13, EmptySeq DEF Lit, total
  <1>16. TypeOK'
    BY <1>9, <1>10, <1>12, TypeParts DEF TypeOK, ListsOK, NavOK, OptsOK, WorldOK, PcOK, Node
  <1>17. QED
    BY <1>10, <1>14, <1>15, <1>16 DEF TuiInv

(* Headings push an entry of the tree down by no more than their number.   *)
LEMMA LineOf ==
    ASSUME topo \in Seq(Node), NEW k \in 0..(Len(topo) - 1)
    PROVE  Headings \in Nat /\ TreeLine(TreeOrder, k) \in k..(k + Headings)
  <1> DEFINE D == DOMAIN topo
             f == [i \in D |-> topo[i].target]
             All == {topo[i].target : i \in D}
             Some == {topo[TreeOrder[i]].target : i \in 1..(k + 1)}
  <1>1. Len(topo) \in Nat /\ D = 1..Len(topo)
    BY LenProperties
  <1>2. IsFiniteSet(D)
    BY <1>1, FS_Interval
  <1>3. f \in Surjection(D, All)
    BY DEF Surjection
  <1>4. IsFiniteSet(All)
    <2> HIDE DEF f, D, All
    <2>1. QED
      BY <1>2, <1>3, FS_Surjection
  <1>5. Some \subseteq All
    <2>1. \A i \in 1..(k + 1) : TreeOrder[i] \in D
      BY <1>1, TreeOrderType
    <2>2. QED
      BY <2>1
  <1>6. Cardinality(All) \in Nat /\ Cardinality(Some) \in Nat /\ Cardinality(Some) <= Cardinality(All)
    <2> HIDE DEF All, Some
    <2>1. QED
      BY <1>4, <1>5, FS_Subset, FS_CardinalityType
  <1>7. Headings = Cardinality(All) /\ TreeLine(TreeOrder, k) = k + Cardinality(Some)
    BY DEF Headings, TreeLine
  <1>8. QED
    BY <1>1, <1>6, <1>7

(* The order of the tree depends on the table of nodes only.               *)
LEMMA SameTree ==
    ASSUME topo' = topo
    PROVE  TreeOrder' = TreeOrder /\ Headings' = Headings /\ \A o, k : TreeLine(o, k)' = TreeLine(o, k)
  BY DEF TreeOrder, TreeBefore, FirstOf, Headings, TreeLine

(* Drawing the tree, whose lines are those of the nodes and of the         *)
(* headings between them.                                                  *)
LEMMA TreeInv ==
    ASSUME TuiInv, render_tree
    PROVE  TuiInv'
  <1> DEFINE N    == MaxNodes + Len(Reserves)
             n    == Len(topo)
             c    == cursor["TREE"]
             w    == Within(c, n)
             s    == Follow(w, scroll["TREE"], rows)
             drawn == TreeLine(TreeOrder, c) \in scroll["TREE"]..(scroll["TREE"] + rows - 1)
             ids  == [i \in 1..n |-> topo[TreeOrder[i]].id]
  <1>1. /\ ListsOK /\ NavOK /\ OptsOK /\ WorldOK /\ PcOK /\ Sized /\ LeadsHome(stack, mode)
        /\ n \in Nat /\ n <= MaxNodes /\ topo \in Seq(Node) /\ DOMAIN topo = 1..n
        /\ cols \in Nat /\ cols > 0 /\ rows \in Nat /\ rows > 0 /\ N \in Nat /\ MaxNodes <= N
    BY TypeParts, Sizes, GridSize, LenProperties DEF TuiInv, WorldOK, Sized
  <1>2. TreeOrder \in [1..n -> 1..n] /\ Len(TreeOrder) = n
    <2>1. TreeOrder \in [1..n -> 1..n]
      BY <1>1, TreeOrderType
    <2>2. TreeOrder \in Seq(1..n) /\ DOMAIN TreeOrder = 1..n
      BY <1>1, <2>1, IsASeq
    <2>3. QED
      BY <1>1, <2>1, <2>2, LenProperties
  <1>3. /\ pc = "draw" /\ pc' = "key" /\ Redraws /\ mode = "TREE"
        /\ cursor' = [cursor EXCEPT !["TREE"] = w]
        /\ scroll' = [scroll EXCEPT !["TREE"] = s]
        /\ tree' = ids
        /\ lit' = IF c \in 0..(n - 1) /\ drawn THEN topo[TreeOrder[c + 1]].id ELSE 0
        /\ UNCHANGED <<mode, stack, focused, frozen, dashboard, stats, remap, topo, control, on, max_y, max_x, cols, rows, keys>>
    BY <1>2 DEF render_tree, nav, opts, world, size, cols, rows
  <1>4. "TREE" \in Lists /\ c \in Int /\ scroll["TREE"] \in Nat /\ scroll["TREE"] <= N
    BY <1>1, ListFacts DEF Lists
  <1>5. /\ w \in Nat /\ (n > 0 => w \in 0..(n - 1)) /\ (n = 0 => w = 0)
        /\ c \in 0..(n - 1) => w = c
    BY <1>1, <1>4, WithinIs
  <1>6. \A i \in 1..n : topo[TreeOrder[i]].id \in 1..MaxNodes
    <2>1. \A i \in 1..n : TreeOrder[i] \in 1..n
      BY <1>2
    <2>2. \A i \in 1..n : topo[i] \in Node
      BY <1>1, ElementOfSeq
    <2>3. QED
      BY <2>1, <2>2 DEF Node
  <1>7. ids \in Seq(1..MaxNodes) /\ Len(ids) = n /\ DOMAIN ids = 1..n
    <2>1. ids \in Seq(1..MaxNodes) /\ DOMAIN ids = 1..n
      BY <1>1, <1>6, IsASeq
    <2>2. QED
      BY <1>1, <2>1, LenProperties
  <1> HIDE DEF N, n, w, drawn
  <1>8. s \in Nat /\ w \in s..(s + rows - 1) /\ (s <= w \/ s = scroll["TREE"])
    BY <1>1, <1>4, <1>5, FollowIs
  <1>9. w <= N /\ s <= N
    <2> HIDE DEF s
    <2>1. w <= N
      BY <1>1, <1>5, Sizes
    <2>2. QED
      BY <1>1, <1>4, <1>5, <1>8, <2>1
  <1> HIDE DEF s
  <1>10. ListsOK'
    BY <1>1, <1>3, <1>4, <1>5, <1>8, <1>9, ListFacts DEF ListsOK, N
  <1>11. NavOK' /\ OptsOK' /\ PcOK' /\ Sized' /\ LeadsHome(stack, mode)'
    BY <1>1, <1>3 DEF NavOK, OptsOK, PcOK, Sized, LeadsHome
  <1>12. lit' # 0 => c \in 0..(n - 1) /\ lit' = ids[c + 1] /\ lit' \in 1..MaxNodes /\ c + 1 \in 1..n
    <2>1. SUFFICES ASSUME lit' # 0 PROVE c \in 0..(n - 1) /\ lit' = ids[c + 1] /\ lit' \in 1..MaxNodes /\ c + 1 \in 1..n
      OBVIOUS
    <2>2. c \in 0..(n - 1) /\ lit' = topo[TreeOrder[c + 1]].id
      BY <1>3, <2>1
    <2>3. c + 1 \in 1..n
      BY <1>1, <1>4, <2>2
    <2>4. QED
      BY <1>6, <2>2, <2>3
  <1> HIDE DEF ids
  <1>13. WorldOK'
    <2>1. lit' \in Nat
      BY <1>12, Sizes
    <2>2. QED
      BY <1>1, <1>3, <1>7, <2>1 DEF WorldOK
  <1>14. cursor'["TREE"] = w /\ scroll'["TREE"] = s
    BY <1>1, <1>3, <1>4 DEF ListsOK
  <1>15. CursorShown'
    <2>1. SUFFICES ASSUME tree' # <<>>
                   PROVE  TreeLine(TreeOrder, cursor["TREE"])' \in (scroll["TREE"]..(scroll["TREE"] + rows - 1 + Headings))'
      BY <1>3 DEF CursorShown
    <2>2. n > 0
      BY <1>1, <1>3, <1>7, <2>1, EmptySeq
    <2>3. w \in 0..(n - 1)
      BY <1>5, <2>2
    <2>4. Headings \in Nat /\ TreeLine(TreeOrder, w) \in w..(w + Headings)
      BY <1>1, <2>3, LineOf DEF n
    <2>5. TreeOrder' = TreeOrder /\ Headings' = Headings
      BY <1>3, SameTree
    <2>6. TreeLine(TreeOrder, w) \in s..(s + rows - 1 + Headings)
      BY <1>1, <1>5, <1>8, <2>4
    <2>7. QED
      BY <1>3, <1>14, <2>5, <2>6 DEF TreeLine
  <1>16. Lit'
    BY <1>3, <1>5, <1>7, <1>12, <1>14 DEF Lit
  <1>17. TypeOK'
    BY <1>10, <1>11, <1>13 DEF TypeOK, ListsOK, NavOK, OptsOK, WorldOK, PcOK, Node
  <1>18. QED
    BY <1>11, <1>15, <1>16, <1>17 DEF TuiInv

(* The box depends on the size of the terminal only.                       *)
LEMMA SameBox ==
    ASSUME max_y' = max_y, max_x' = max_x
    PROVE  ToolsAvail' = ToolsAvail /\ BoxLeft' = BoxLeft /\ \A i : OnScreen(ToolsRow(i))' = OnScreen(ToolsRow(i))
  BY DEF ToolsAvail, BoxLeft, OnScreen, ToolsRow, BoxTop, BoxHeight, Half

(* Drawing the list of plugins.                                            *)
LEMMA ToolsInv ==
    ASSUME TuiInv, render_tools
    PROVE  TuiInv'
  <1> DEFINE N == MaxNodes + Len(Reserves)
             n == Len(Reserves)
             c == Within(cursor["TOOLS"], n)
             s == Follow(c, scroll["TOOLS"], ToolsAvail)
  <1>1. /\ ListsOK /\ NavOK /\ OptsOK /\ WorldOK /\ PcOK /\ Sized /\ LeadsHome(stack, mode)
        /\ n \in Nat /\ N \in Nat /\ n <= N /\ ToolsAvail \in Nat /\ ToolsAvail > 0
    BY TypeParts, Sizes DEF TuiInv, WorldOK, Sized, ToolsAvail, BoxHeight
  <1>2. /\ pc = "draw" /\ pc' = "key" /\ mode = "TOOLS"
        /\ cursor' = [cursor EXCEPT !["TOOLS"] = c]
        /\ scroll' = [scroll EXCEPT !["TOOLS"] = s]
        /\ lit' = IF Plugins # {} /\ OnScreen(ToolsRow(c - s)) THEN c + 1 ELSE 0
        /\ UNCHANGED <<mode, stack, focused, frozen, dashboard, stats, remap, topo, control, on, tree, max_y, max_x, cols, rows, keys>>
    BY DEF render_tools, nav, opts, world, size, cols, rows
  <1>3. "TOOLS" \in Lists /\ cursor["TOOLS"] \in Int /\ scroll["TOOLS"] \in Nat /\ scroll["TOOLS"] <= N
    BY <1>1, ListFacts DEF Lists
  <1>4. c \in Nat /\ (n > 0 => c \in 0..(n - 1)) /\ (n = 0 => c = 0)
    BY <1>1, <1>3, WithinIs
  <1> HIDE DEF N, n, c
  <1>5. s \in Nat /\ c \in s..(s + ToolsAvail - 1) /\ (s <= c \/ s = scroll["TOOLS"])
    BY <1>1, <1>3, <1>4, FollowIs
  <1> HIDE DEF s
  <1>6. c <= N /\ s <= N
    BY <1>1, <1>3, <1>4, <1>5
  <1>7. ListsOK'
    BY <1>1, <1>2, <1>3, <1>4, <1>5, <1>6, ListFacts DEF ListsOK, N
  <1>8. NavOK' /\ OptsOK' /\ PcOK' /\ Sized' /\ LeadsHome(stack, mode)'
    BY <1>1, <1>2 DEF NavOK, OptsOK, PcOK, Sized, LeadsHome
  <1>9. WorldOK'
    <2>1. lit' \in Nat
      BY <1>2, <1>4
    <2>2. QED
      BY <1>1, <1>2, <2>1 DEF WorldOK
  <1>10. cursor'["TOOLS"] = c /\ scroll'["TOOLS"] = s
    BY <1>1, <1>2, <1>3 DEF ListsOK
  <1>11. ToolsAvail' = ToolsAvail /\ BoxLeft' = BoxLeft /\ \A i : OnScreen(ToolsRow(i))' = OnScreen(ToolsRow(i))
    BY <1>2, SameBox
  <1>12. CursorShown'
    <2>1. c - s \in 0..(ToolsAvail - 1)
      BY <1>1, <1>4, <1>5
    <2>2. max_y > MinBox /\ BoxLeft + 2 >= 0 => OnScreen(ToolsRow(c - s))
      BY <1>1, <2>1, BoxOnScreen
    <2>3. OnScreen(ToolsRow(cursor["TOOLS"] - scroll["TOOLS"]))' = OnScreen(ToolsRow(c - s))
      BY <1>2, <1>10 DEF OnScreen, ToolsRow, BoxTop, BoxLeft, BoxHeight, Half
    <2>4. QED
      BY <1>2, <1>5, <1>10, <1>11, <2>2, <2>3 DEF CursorShown
  <1>13. Lit'
    BY <1>2, <1>10 DEF Lit
  <1>14. TypeOK'
    BY <1>7, <1>8, <1>9 DEF TypeOK, ListsOK, NavOK, OptsOK, WorldOK, PcOK, Node
  <1>15. QED
    BY <1>8, <1>12, <1>13, <1>14 DEF TuiInv

(* A frozen screen, and the Normal view, keep the lists as they are.       *)
LEMMA PlainInv ==
    ASSUME TuiInv, render_normal \/ KeepScreen
    PROVE  TuiInv'
  <1>1. /\ pc' = "key" /\ lit' \in {0, lit} /\ (mode = "NORMAL" \/ ~Redraws)
        /\ UNCHANGED <<mode, stack, cursor, scroll, focused, frozen, dashboard, stats, remap,
                       topo, control, on, tree, max_y, max_x, cols, rows, keys>>
    BY DEF render_normal, KeepScreen, nav, opts, world, size, cols, rows
  <1>2. /\ ListsOK /\ NavOK /\ OptsOK /\ WorldOK /\ PcOK /\ Sized /\ LeadsHome(stack, mode)
    BY TypeParts DEF TuiInv
  <1>3. ListsOK' /\ NavOK' /\ OptsOK' /\ PcOK' /\ Sized' /\ LeadsHome(stack, mode)'
    BY <1>1, <1>2 DEF ListsOK, NavOK, OptsOK, PcOK, Sized, LeadsHome
  <1>4. WorldOK'
    BY <1>1, <1>2 DEF WorldOK
  <1>5. CursorShown' /\ Lit'
    BY <1>1 DEF CursorShown, Lit, Redraws
  <1>6. TypeOK'
    BY <1>3, <1>4 DEF TypeOK, ListsOK, NavOK, OptsOK, WorldOK, PcOK, Node
  <1>7. QED
    BY <1>3, <1>5, <1>6 DEF TuiInv

-----------------------------------------------------------------------------
(* Between two frames, and keys: nothing is promised of the screen until   *)
(* the next frame.                                                         *)
LEMMA Undrawn ==
    ASSUME ListsOK', NavOK', OptsOK', WorldOK', Sized', LeadsHome(stack, mode)', pc' \in {"draw", "done"}
    PROVE  TuiInv'
  <1>1. TypeOK'
    BY DEF TypeOK, ListsOK, NavOK, OptsOK, WorldOK, PcOK, Node
  <1>2. CursorShown' /\ Lit'
    BY DEF CursorShown, Lit
  <1>3. QED
    BY <1>1, <1>2 DEF TuiInv

(* What happens between two keys: nodes come and change their TTL, the     *)
(* terminal changes its size.                                              *)
LEMMA WorldInv ==
    ASSUME TuiInv,
           \/ \E t \in Target, ttl \in 1..MaxTTL : NewNode(t, ttl)
           \/ \E i \in DOMAIN topo, ttl \in 1..MaxTTL : NewTtl(i, ttl)
           \/ Resize \/ Idle
    PROVE  TuiInv'
  <1>1. ListsOK /\ NavOK /\ OptsOK /\ WorldOK /\ PcOK /\ Sized /\ LeadsHome(stack, mode)
    BY TypeParts DEF TuiInv
  <1>2. Len(topo) \in Nat /\ topo \in Seq(Node)
    BY <1>1, LenProperties DEF WorldOK
  <1>3. ASSUME NEW t \in Target, NEW ttl \in 1..MaxTTL, NewNode(t, ttl)
        PROVE  TuiInv'
    <2> DEFINE node == [id |-> Len(topo) + 1, target |-> t, ttl |-> ttl]
    <2>1. /\ Len(topo) < MaxNodes /\ pc' = "draw"
          /\ topo' = IF node.id = MaxNodes THEN <<node>> \o topo ELSE Append(topo, node)
          /\ UNCHANGED <<mode, stack, cursor, scroll, focused, frozen, dashboard, stats, control, on, tree, lit, max_y, max_x>>
      BY <1>3 DEF NewNode, nav, opts, size
    <2>2. node \in Node
      BY <1>2, <2>1, Sizes DEF Node
    <2> HIDE DEF node
    <2>3. topo' \in Seq(Node) /\ Len(topo') = Len(topo) + 1
      <3>1. Append(topo, node) \in Seq(Node) /\ Len(Append(topo, node)) = Len(topo) + 1
        BY <1>2, <2>2, AppendProperties
      <3>2. <<node>> \in Seq(Node) /\ Len(<<node>>) = 1
        BY <2>2
      <3>3. <<node>> \o topo \in Seq(Node) /\ Len(<<node>> \o topo) = Len(topo) + 1
        BY <1>2, <3>2, ConcatProperties
      <3>4. QED
        BY <2>1, <3>1, <3>3
    <2>4. ListsOK' /\ NavOK' /\ OptsOK' /\ LeadsHome(stack, mode)'
      BY <1>1, <2>1 DEF ListsOK, NavOK, OptsOK, LeadsHome
    <2>5. WorldOK' /\ Sized'
      BY <1>1, <1>2, <2>1, <2>3, Sizes DEF WorldOK, Sized
    <2>6. QED
      BY <2>1, <2>4, <2>5, Undrawn
  <1>4. ASSUME NEW i \in DOMAIN topo, NEW ttl \in 1..MaxTTL, NewTtl(i, ttl)
        PROVE  TuiInv'
    <2>1. /\ pc' = "draw" /\ topo' = [topo EXCEPT ![i].ttl = ttl]
          /\ UNCHANGED <<mode, stack, cursor, scroll, focused, frozen, dashboard, stats, control, on, tree, lit, max_y, max_x>>
      BY <1>4 DEF NewTtl, nav, opts, size
    <2>2. \A j \in 1..Len(topo) : topo[j] \in Node
      BY <1>2, ElementOfSeq
    <2>3. DOMAIN topo = 1..Len(topo) /\ topo \in [1..Len(topo) -> Node]
      BY <1>2, <2>2
    <2>4. [topo[i] EXCEPT !.ttl = ttl] \in Node
      BY <2>2, <2>3 DEF Node
    <2>5. topo' \in [1..Len(topo) -> Node]
      BY <2>1, <2>3, <2>4
    <2>6. topo' \in Seq(Node) /\ DOMAIN topo' = 1..Len(topo)
      BY <1>2, <2>5, IsASeq
    <2>7. Len(topo') = Len(topo)
      BY <1>2, <2>6, LenProperties
    <2>8. ListsOK' /\ NavOK' /\ OptsOK' /\ LeadsHome(stack, mode)'
      BY <1>1, <2>1 DEF ListsOK, NavOK, OptsOK, LeadsHome
    <2>9. WorldOK' /\ Sized'
      BY <1>1, <1>2, <2>1, <2>6, <2>7, Sizes DEF WorldOK, Sized
    <2>10. QED
      BY <2>1, <2>8, <2>9, Undrawn
  <1>5. CASE Resize
    <2>1. /\ pc' = "draw" /\ max_y' \in Heights /\ max_x' \in Widths
          /\ UNCHANGED <<mode, stack, cursor, scroll, focused, frozen, dashboard, stats, topo, control, on, tree, lit>>
      BY <1>5 DEF Resize, nav, opts, world
    <2>2. ListsOK' /\ NavOK' /\ OptsOK' /\ LeadsHome(stack, mode)' /\ WorldOK' /\ Sized'
      BY <1>1, <2>1 DEF ListsOK, NavOK, OptsOK, LeadsHome, WorldOK, Sized
    <2>3. QED
      BY <2>1, <2>2, Undrawn
  <1>6. CASE Idle
    <2>1. /\ pc' = "draw"
          /\ UNCHANGED <<mode, stack, cursor, scroll, focused, frozen, dashboard, stats, topo, control, on, tree, lit, max_y, max_x>>
      BY <1>6 DEF Idle, nav, opts, world, size
    <2>2. ListsOK' /\ NavOK' /\ OptsOK' /\ LeadsHome(stack, mode)' /\ WorldOK' /\ Sized'
      BY <1>1, <2>1 DEF ListsOK, NavOK, OptsOK, LeadsHome, WorldOK, Sized
    <2>3. QED
      BY <2>1, <2>2, Undrawn
  <1>7. QED
    BY <1>3, <1>4, <1>5, <1>6

(* A cursor moved beyond the end of its list is at most one behind it.     *)
LEMMA ClampedIs ==
    ASSUME NEW c \in Int, NEW n \in Nat
    PROVE  Clamped(c, n) \in -1..n
  BY DEF Clamped

(* Moved cursors are numbers.                                              *)
LEMMA StepsAre ==
    ASSUME NEW c \in Int, NEW n \in Nat, NEW ch, Sized
    PROVE  ListStep(c, ch, n) \in Int /\ GridStep(c, ch) \in Int
  <1>1. cols \in Int
    BY GridSize
  <1>2. ListStep(c, ch, n) \in Int
    BY Sizes DEF ListStep
  <1>3. GridStep(c, ch) \in Int
    BY <1>1 DEF GridStep
  <1>4. QED
    BY <1>2, <1>3

(* Keys that only flip an option, or go to another view.                   *)
LEMMA OptionInv ==
    ASSUME TuiInv, NEW ch, Quit(ch) \/ Dashboard(ch) \/ Freeze(ch) \/ ToPlugin(ch) \/ NormalKey(ch)
    PROVE  TuiInv'
  <1>1. ListsOK /\ NavOK /\ OptsOK /\ WorldOK /\ PcOK /\ Sized /\ LeadsHome(stack, mode)
    BY TypeParts DEF TuiInv
  <1>2. /\ pc' \in {"draw", "done"}
        /\ UNCHANGED <<mode, stack, cursor, scroll, focused, topo, control, on, tree, lit, max_y, max_x>>
    BY DEF Quit, Dashboard, Freeze, ToPlugin, NormalKey, nav, opts, world, size
  <1>3. OptsOK'
    <2>1. frozen \in BOOLEAN /\ dashboard \in BOOLEAN /\ stats \in BOOLEAN
      BY <1>1 DEF OptsOK
    <2>2. frozen' \in BOOLEAN /\ dashboard' \in BOOLEAN /\ stats' \in BOOLEAN
      BY <2>1, Zenon DEF Quit, Dashboard, Freeze, ToPlugin, NormalKey, opts
    <2>3. QED
      BY <2>2 DEF OptsOK
  <1>4. ListsOK' /\ NavOK' /\ LeadsHome(stack, mode)' /\ WorldOK' /\ Sized'
    BY <1>1, <1>2 DEF ListsOK, NavOK, LeadsHome, WorldOK, Sized
  <1>5. QED
    BY <1>2, <1>3, <1>4, Undrawn

(* The keys that change the view.                                          *)
LEMMA ViewInv ==
    ASSUME TuiInv, NEW ch,
           \/ GotoNormal(ch) \/ Back(ch)
           \/ GotoView(ch, "g", "GRID") \/ GotoView(ch, "m", "TOOLS") \/ GotoView(ch, "t", "TREE")
    PROVE  TuiInv'
  <1>1. ListsOK /\ NavOK /\ OptsOK /\ WorldOK /\ PcOK /\ Sized /\ LeadsHome(stack, mode)
    BY TypeParts DEF TuiInv
  <1>2. /\ pc' = "draw"
        /\ UNCHANGED <<cursor, scroll, focused, frozen, dashboard, stats, topo, control, on, tree, lit, max_y, max_x>>
    BY DEF GotoNormal, Back, GotoView, opts, world, size
  <1>3. NavOK' /\ LeadsHome(stack, mode)'
    <2>1. CASE GotoNormal(ch)
      BY <2>1, Sizes DEF GotoNormal, NavOK, LeadsHome, Mode
    <2>2. CASE Back(ch)
      BY <1>1, <2>2, PopHome DEF Back
    <2>3. ASSUME NEW m \in Mode, IF mode # m THEN push_nav(m) ELSE UNCHANGED nav
          PROVE  NavOK' /\ LeadsHome(stack, mode)'
      <3>1. CASE mode # m
        BY <1>1, <2>3, <3>1, PushHome
      <3>2. CASE mode = m
        <4>1. mode' = mode /\ stack' = stack
          BY <2>3, <3>2 DEF nav
        <4>2. QED
          BY <1>1, <4>1 DEF NavOK, LeadsHome
      <3>3. QED
        BY <3>1, <3>2
    <2>4. "GRID" \in Mode /\ "TOOLS" \in Mode /\ "TREE" \in Mode
      BY DEF Mode
    <2>5. QED
      BY <2>1, <2>2, <2>3, <2>4 DEF GotoView
  <1>4. ListsOK' /\ OptsOK' /\ WorldOK' /\ Sized'
    BY <1>1, <1>2 DEF ListsOK, OptsOK, WorldOK, Sized
  <1>5. QED
    BY <1>2, <1>3, <1>4, Undrawn

(* The keys of the list of plugins.                                        *)
LEMMA ToolsKeyInv ==
    ASSUME TuiInv, NEW ch, ToolsKey(ch)
    PROVE  TuiInv'
  <1> DEFINE n == Len(Reserves)
             w == Within(ListStep(cursor["TOOLS"], ch, n), n)
  <1>1. ListsOK /\ NavOK /\ OptsOK /\ WorldOK /\ PcOK /\ Sized /\ LeadsHome(stack, mode)
    BY TypeParts DEF TuiInv
  <1>2. /\ pc' = "draw" /\ (pop_nav \/ UNCHANGED nav)
        /\ cursor' = [cursor EXCEPT !["TOOLS"] = w]
        /\ UNCHANGED <<scroll, focused, frozen, dashboard, stats, topo, control, tree, lit, max_y, max_x>>
    BY DEF ToolsKey, opts, size
  <1>3. NavOK' /\ LeadsHome(stack, mode)'
    <2>1. CASE pop_nav
      BY <1>1, <2>1, PopHome
    <2>2. CASE UNCHANGED nav
      <3>1. mode' = mode /\ stack' = stack
        BY <2>2 DEF nav
      <3>2. QED
        BY <1>1, <3>1 DEF NavOK, LeadsHome
    <2>3. QED
      BY <1>2, <2>1, <2>2
  <1>4. "TOOLS" \in Lists /\ cursor["TOOLS"] \in Int
    BY <1>1, ListFacts DEF Lists
  <1>5. w \in Nat /\ w <= MaxNodes + n
    <2>1. n \in Nat /\ ListStep(cursor["TOOLS"], ch, n) \in Int
      BY <1>1, <1>4, StepsAre, Sizes
    <2>2. w \in Nat /\ (n > 0 => w \in 0..(n - 1)) /\ (n = 0 => w = 0)
      BY <2>1, WithinIs
    <2> HIDE DEF n, w
    <2>3. QED
      BY <2>1, <2>2, Sizes
  <1>6. ListsOK'
    <2> HIDE DEF w
    <2>1. QED
      BY <1>1, <1>2, <1>4, <1>5, ListFacts DEF ListsOK
  <1>7. on' \subseteq Plugins
    <2>1. on \subseteq Plugins
      BY <1>1 DEF WorldOK
    <2>2. QED
      BY <2>1 DEF ToolsKey, Flip
  <1>8. OptsOK' /\ WorldOK' /\ Sized'
    BY <1>1, <1>2, <1>7 DEF OptsOK, WorldOK, Sized
  <1>9. QED
    BY <1>2, <1>3, <1>6, <1>8, Undrawn

(* Enter and C on an entry of the grid or the tree.                        *)
LEMMA OnNodeInv ==
    ASSUME TuiInv, NEW ch, NEW view, mode # "NORMAL", NEW id \in 0..MaxNodes, OnNode(ch, view, id), pc' = "draw",
           UNCHANGED <<scroll, opts, remap, topo, on, tree, lit, size>>
    PROVE  TuiInv'
  <1>1. ListsOK /\ NavOK /\ OptsOK /\ WorldOK /\ PcOK /\ Sized /\ LeadsHome(stack, mode)
    BY TypeParts DEF TuiInv
  <1>2. UNCHANGED <<cursor, scroll, frozen, dashboard, stats, topo, on, tree, lit, max_y, max_x>>
    BY DEF OnNode, opts, size
  <1>3. NavOK' /\ LeadsHome(stack, mode)' /\ focused' \in 0..MaxNodes
    <2>1. CASE Focus(id)
      <3>1. focused' \in 0..MaxNodes
        BY <1>1, <2>1 DEF Focus, WorldOK
      <3>2. push_nav("NORMAL") /\ "NORMAL" \in Mode
        BY <2>1 DEF Focus, Mode
      <3>3. QED
        BY <1>1, <3>1, <3>2, PushHome
    <2>2. CASE UNCHANGED <<nav, focused>>
      <3>1. mode' = mode /\ stack' = stack /\ focused' = focused
        BY <2>2 DEF nav
      <3>2. QED
        BY <1>1, <3>1 DEF NavOK, LeadsHome, WorldOK
    <2>3. QED
      BY <2>1, <2>2 DEF OnNode
  <1>4. control' \subseteq 1..MaxNodes
    <2>1. control \subseteq 1..MaxNodes
      BY <1>1 DEF WorldOK
    <2>2. id # 0 => id \in 1..MaxNodes
      BY Sizes
    <2>3. QED
      BY <2>1, <2>2 DEF OnNode, Flip
  <1>5. ListsOK' /\ OptsOK' /\ WorldOK' /\ Sized'
    BY <1>1, <1>2, <1>3, <1>4 DEF ListsOK, OptsOK, WorldOK, Sized
  <1>6. QED
    BY <1>3, <1>5, Undrawn

(* A step of the cursor.                                                   *)
LEMMA MoveInv ==
    ASSUME TuiInv, NEW view \in Lists, NEW c \in Int, cursor' = [cursor EXCEPT ![view] = Clamped(c, Len(topo))],
           pc' = "draw", UNCHANGED <<nav, focused, control, scroll, opts, remap, topo, on, tree, lit, size>>
    PROVE  TuiInv'
  <1>1. ListsOK /\ NavOK /\ OptsOK /\ WorldOK /\ PcOK /\ Sized /\ LeadsHome(stack, mode)
    BY TypeParts DEF TuiInv
  <1>2. UNCHANGED <<mode, stack, focused, control, scroll, frozen, dashboard, stats, topo, on, tree, lit, max_y, max_x>>
    BY DEF nav, opts, size
  <1>3. Len(topo) \in Nat /\ Len(topo) <= MaxNodes
    BY <1>1, LenProperties DEF WorldOK, Sized
  <1>4. Clamped(c, Len(topo)) \in -1..(MaxNodes + Len(Reserves))
    <2>1. Clamped(c, Len(topo)) \in -1..Len(topo)
      BY <1>3, ClampedIs
    <2>2. QED
      BY <1>3, <2>1, Sizes
  <1>5. ListsOK'
    BY <1>1, <1>2, <1>4 DEF ListsOK
  <1>6. NavOK' /\ OptsOK' /\ WorldOK' /\ Sized' /\ LeadsHome(stack, mode)'
    BY <1>1, <1>2 DEF NavOK, OptsOK, WorldOK, Sized, LeadsHome
  <1>7. QED
    BY <1>5, <1>6, Undrawn

(* The node under a cursor is one of the table, or none.                   *)
LEMMA NodeUnderCursor ==
    ASSUME WorldOK
    PROVE  GridNode \in 0..MaxNodes /\ TreeNode \in 0..MaxNodes
  <1>1. topo \in Seq(Node) /\ tree \in Seq(1..MaxNodes)
    BY DEF WorldOK
  <1>2. \A i \in DOMAIN topo : topo[i].id \in 0..MaxNodes
    <2>1. \A i \in DOMAIN topo : topo[i] \in Node
      BY <1>1, LenProperties, ElementOfSeq
    <2>2. QED
      BY <2>1, Sizes DEF Node
  <1>3. \A i \in DOMAIN tree : tree[i] \in 0..MaxNodes
    <2>1. \A i \in DOMAIN tree : tree[i] \in 1..MaxNodes
      BY <1>1, LenProperties, ElementOfSeq
    <2>2. QED
      BY <2>1, Sizes
  <1>4. 0 \in 0..MaxNodes
    BY Sizes
  <1>5. QED
    BY <1>2, <1>3, <1>4 DEF GridNode, TreeNode

(* The keys of the grid and of the tree.                                   *)
LEMMA ListKeyInv ==
    ASSUME TuiInv, NEW ch, GridKey(ch) \/ TreeKey(ch)
    PROVE  TuiInv'
  <1>1. ListsOK /\ NavOK /\ OptsOK /\ WorldOK /\ PcOK /\ Sized /\ LeadsHome(stack, mode)
    BY TypeParts DEF TuiInv
  <1>2. Len(topo) \in Nat /\ "GRID" \in Lists /\ "TREE" \in Lists
    BY <1>1, LenProperties DEF WorldOK, Lists
  <1>3. cursor["GRID"] \in Int /\ cursor["TREE"] \in Int
    BY <1>1, <1>2, ListFacts
  <1>4. GridStep(cursor["GRID"], ch) \in Int /\ ListStep(cursor["TREE"], ch, Len(topo)) \in Int
    BY <1>1, <1>2, <1>3, StepsAre
  <1>5. Meaning(ch) \in {"GRID", "TREE"} => mode = Meaning(ch)
    BY <1>1, MeaningIs DEF NavOK, Mode
  <1>6. CASE GridKey(ch)
    <2>1. /\ mode # "NORMAL" /\ pc' = "draw" /\ UNCHANGED <<scroll, opts, remap, topo, on, tree, lit, size>>
          /\ \/ OnNode(ch, "GRID", GridNode)
             \/ /\ cursor' = [cursor EXCEPT !["GRID"] = Clamped(GridStep(cursor["GRID"], ch), Len(topo))]
                /\ UNCHANGED <<nav, focused, control>>
      BY <1>5, <1>6 DEF GridKey, Pressed
    <2>2. QED
      BY <1>1, <1>2, <1>4, <2>1, OnNodeInv, MoveInv, NodeUnderCursor
  <1>7. CASE TreeKey(ch)
    <2>1. /\ mode # "NORMAL" /\ pc' = "draw" /\ UNCHANGED <<scroll, opts, remap, topo, on, tree, lit, size>>
          /\ \/ OnNode(ch, "TREE", TreeNode)
             \/ /\ cursor' = [cursor EXCEPT !["TREE"] = Clamped(ListStep(cursor["TREE"], ch, Len(topo)), Len(topo))]
                /\ UNCHANGED <<nav, focused, control>>
      BY <1>5, <1>7 DEF TreeKey, Pressed
    <2>2. QED
      BY <1>1, <1>2, <1>4, <2>1, OnNodeInv, MoveInv, NodeUnderCursor
  <1>8. QED
    BY <1>6, <1>7

-----------------------------------------------------------------------------
(* The theorems.                                                           *)

(* The invariant holds when the interface starts.                          *)
LEMMA TuiInit == Init => TuiInv
  <1>1. SUFFICES ASSUME Init PROVE TuiInv
    OBVIOUS
  <1>2. ListsOK
    BY <1>1, Sizes DEF Init, ListsOK
  <1>3. NavOK /\ LeadsHome(stack, mode)
    BY <1>1, Sizes DEF Init, NavOK, LeadsHome, Mode
  <1>4. OptsOK /\ WorldOK /\ PcOK
    <2>1. OptsOK
      BY <1>1, Zenon DEF Init, OptsOK
    <2>2. topo \in Seq(Node) /\ tree \in Seq(1..MaxNodes)
      BY <1>1 DEF Init
    <2>3. QED
      BY <1>1, <2>1, <2>2, Sizes DEF Init, WorldOK, PcOK
  <1>5. Sized
    BY <1>1, Sizes DEF Init, Sized
  <1>6. CursorShown /\ Lit
    BY <1>1 DEF Init, CursorShown, Lit
  <1>7. QED
    BY <1>2, <1>3, <1>4, <1>5, <1>6, TypeParts DEF TuiInv

(* Every step of the interface keeps the invariant.                        *)
LEMMA TuiNext == TuiInv /\ [Next]_vars => TuiInv'
  <1>1. SUFFICES ASSUME TuiInv, [Next]_vars PROVE TuiInv'
    OBVIOUS
  <1>2. CASE Draw
    BY <1>1, <1>2, GridInv, TreeInv, ToolsInv, PlainInv DEF Draw
  <1>3. CASE Press
    BY <1>1, <1>3, OptionInv, ViewInv, ToolsKeyInv, ListKeyInv DEF Press
  <1>4. CASE UNCHANGED vars
    <2>1. /\ UNCHANGED <<mode, stack, cursor, scroll, focused, frozen, dashboard, stats, topo, control, on, tree, lit>>
          /\ UNCHANGED <<max_y, max_x, pc>>
      BY <1>4 DEF vars, nav, opts, world, size
    <2>2. TypeOK' /\ Sized' /\ LeadsHome(stack, mode)'
      BY <1>1, <2>1 DEF TuiInv, TypeOK, Sized, LeadsHome
    <2>3. CursorShown'
      <3>1. TreeOrder' = TreeOrder /\ Headings' = Headings /\ cols' = cols /\ rows' = rows
        BY <2>1, SameTree DEF cols, rows
      <3>2. CursorShown
        BY <1>1 DEF TuiInv
      <3>3. /\ ToolsAvail' = ToolsAvail /\ BoxLeft' = BoxLeft
            /\ OnScreen(ToolsRow(cursor["TOOLS"] - scroll["TOOLS"]))' = OnScreen(ToolsRow(cursor["TOOLS"] - scroll["TOOLS"]))
        BY <2>1 DEF ToolsAvail, BoxLeft, OnScreen, ToolsRow, BoxTop, BoxHeight, Half
      <3>4. QED
        BY <2>1, <3>1, <3>2, <3>3 DEF CursorShown, Redraws, TreeLine
    <2>4. Lit'
      BY <1>1, <2>1 DEF TuiInv, Lit, Redraws
    <2>5. QED
      BY <2>2, <2>3, <2>4 DEF TuiInv
  <1>5. CASE \/ \E t \in Target, ttl \in 1..MaxTTL : NewNode(t, ttl)
             \/ \E i \in DOMAIN topo, ttl \in 1..MaxTTL : NewTtl(i, ttl)
             \/ Resize \/ Idle
    BY <1>1, <1>5, WorldInv
  <1>6. QED
    BY <1>1, <1>2, <1>3, <1>4, <1>5 DEF Next

(* The invariant of the interface, which the results below rest on: types  *)
(* and sizes, a stack that leads home, cursors that are shown, and a       *)
(* highlight that is what is under the cursor.                             *)
THEOREM TuiInvariant == Spec => []TuiInv
  BY TuiInit, TuiNext, PTL DEF Spec

(* However many views are opened, beyond what the stack holds too, Esc     *)
(* leads back to the Normal view and changes the view at every press       *)
(* (push_nav, pop_nav).                                                    *)
THEOREM EscGoesHome == Spec => []EscLeadsHome
  <1>1. TuiInv => EscLeadsHome
    BY DEF TuiInv, EscLeadsHome, LeadsHome
  <1>2. QED
    BY <1>1, TuiInvariant, PTL

(* A drawn frame shows the cursor of the grid; that of the Tools menu on a *)
(* terminal with more lines than the least box and columns enough for it,  *)
(* and on a smaller one keeps it among the lines of the box; and it misses *)
(* that of the tree by no more lines than there are headings (render_grid, *)
(* render_tools, render_tree).                                             *)
THEOREM CursorIsShown == Spec => []CursorShown
  <1>1. TuiInv => CursorShown
    BY DEF TuiInv
  <1>2. QED
    BY <1>1, TuiInvariant, PTL

(* A key that acts on an entry acts on the highlighted one, because the    *)
(* frame was drawn after the last change of the lists.                     *)
LEMMA ActsStep ==
    ASSUME TuiInv, [Next]_vars
    PROVE  /\ (focused' # focused /\ ~frozen /\ lit # 0) => focused' = lit
           /\ (control' # control /\ ~frozen /\ lit # 0) => control' = Flip(control, lit)
           /\ (on' # on /\ lit # 0) => on' = Flip(on, lit)
  <1>1. TypeOK /\ Lit /\ mode \in Mode /\ ListsOK /\ WorldOK
    BY TypeParts DEF TuiInv, NavOK
  <1>2. CASE UNCHANGED <<focused, control, on>>
    BY <1>2
  <1>3. ASSUME NEW ch, ToolsKey(ch)
        PROVE  focused' = focused /\ control' = control /\ (on' # on /\ lit # 0 => on' = Flip(on, lit))
    <2>1. mode = "TOOLS" /\ pc = "key"
      BY <1>1, <1>3, MeaningIs DEF ToolsKey, Pressed
    <2>2. lit # 0 => lit = cursor["TOOLS"] + 1
      BY <1>1, <2>1 DEF Lit, Redraws
    <2>3. QED
      BY <1>3, <2>2 DEF ToolsKey
  <1>4. ASSUME NEW ch, NEW view, NEW id, OnNode(ch, view, id), on' = on,
               ~frozen /\ lit # 0 => id = lit
        PROVE  /\ (focused' # focused /\ ~frozen /\ lit # 0) => focused' = lit
               /\ (control' # control /\ ~frozen /\ lit # 0) => control' = Flip(control, lit)
               /\ (on' # on /\ lit # 0) => on' = Flip(on, lit)
    <2>1. focused' # focused => focused' = id /\ id # 0
      BY <1>4 DEF OnNode, Focus
    <2>2. control' # control => control' = Flip(control, id)
      BY <1>4 DEF OnNode
    <2>3. QED
      BY <1>4, <2>1, <2>2
  <1>5. ASSUME NEW ch, GridKey(ch)
        PROVE  ~frozen /\ lit # 0 /\ topo # <<>> => GridNode = lit
    <2>1. mode = "GRID" /\ pc = "key"
      BY <1>1, <1>5, MeaningIs DEF GridKey, Pressed, Mode
    <2>2. QED
      BY <1>1, <2>1 DEF Lit, Redraws, GridNode
  <1>6. ASSUME NEW ch, TreeKey(ch)
        PROVE  ~frozen /\ lit # 0 => TreeNode = lit
    <2>1. mode = "TREE" /\ pc = "key"
      BY <1>1, <1>6, MeaningIs DEF TreeKey, Pressed, Mode
    <2>2. QED
      BY <1>1, <2>1 DEF Lit, Redraws, TreeNode
  <1>7. ASSUME NEW ch, OnNode(ch, "GRID", GridNode), topo = <<>>
        PROVE  UNCHANGED <<focused, control>>
    <2>1. Len(topo) = 0 /\ GridNode = 0
      BY <1>7 DEF GridNode
    <2>2. ~(cursor["GRID"] \in 0..(Len(topo) - 1))
      BY <2>1
    <2>3. QED
      BY <1>7, <2>1, <2>2 DEF OnNode
  <1>8. ASSUME NEW ch, GridKey(ch)
        PROVE  /\ (focused' # focused /\ ~frozen /\ lit # 0) => focused' = lit
               /\ (control' # control /\ ~frozen /\ lit # 0) => control' = Flip(control, lit)
               /\ (on' # on /\ lit # 0) => on' = Flip(on, lit)
    <2>1. on' = on /\ (OnNode(ch, "GRID", GridNode) \/ UNCHANGED <<focused, control>>)
      BY <1>8 DEF GridKey
    <2>2. QED
      BY <1>4, <1>5, <1>7, <1>8, <2>1
  <1>9. ASSUME NEW ch, TreeKey(ch)
        PROVE  /\ (focused' # focused /\ ~frozen /\ lit # 0) => focused' = lit
               /\ (control' # control /\ ~frozen /\ lit # 0) => control' = Flip(control, lit)
               /\ (on' # on /\ lit # 0) => on' = Flip(on, lit)
    <2>1. on' = on /\ (OnNode(ch, "TREE", TreeNode) \/ UNCHANGED <<focused, control>>)
      BY <1>9 DEF TreeKey
    <2>2. QED
      BY <1>4, <1>6, <1>9, <2>1
  <1>10. CASE Press
    <2>1. PICK ch \in Key : \/ Quit(ch) \/ Dashboard(ch) \/ GotoNormal(ch) \/ Back(ch) \/ Freeze(ch)
                    \/ GotoView(ch, "g", "GRID") \/ GotoView(ch, "m", "TOOLS") \/ GotoView(ch, "t", "TREE")
                    \/ ToPlugin(ch) \/ NormalKey(ch) \/ ToolsKey(ch) \/ GridKey(ch) \/ TreeKey(ch)
      BY <1>10 DEF Press
    <2>2. CASE \/ Quit(ch) \/ Dashboard(ch) \/ GotoNormal(ch) \/ Back(ch) \/ Freeze(ch)
               \/ GotoView(ch, "g", "GRID") \/ GotoView(ch, "m", "TOOLS") \/ GotoView(ch, "t", "TREE")
               \/ ToPlugin(ch) \/ NormalKey(ch)
      BY <1>2, <2>2 DEF Quit, Dashboard, GotoNormal, Back, Freeze, GotoView, ToPlugin, NormalKey, world
    <2>3. QED
      BY <1>3, <1>8, <1>9, <2>1, <2>2
  <1>11. CASE ~Press
    <2>1. UNCHANGED <<focused, control, on>>
      BY <1>11 DEF Next, NewNode, NewTtl, Resize, Draw, KeepScreen, render_normal, render_grid, render_tree,
                   render_tools, Idle, vars, world
    <2>2. QED
      BY <1>2, <2>1
  <1>12. QED
    BY <1>10, <1>11

(* Enter and C act on what the last frame has highlighted, whatever nodes  *)
(* have arrived since (nsr_tui_update).                                    *)
THEOREM KeysActOnHighlighted == Spec => ActsOnHighlighted
  <1>1. TuiInv /\ [Next]_vars =>
           [/\ (focused' # focused /\ ~frozen /\ lit # 0) => focused' = lit
            /\ (control' # control /\ ~frozen /\ lit # 0) => control' = Flip(control, lit)
            /\ (on' # on /\ lit # 0) => on' = Flip(on, lit)]_vars
    BY ActsStep
  <1>2. QED
    BY <1>1, TuiInvariant, PTL DEF Spec, ActsOnHighlighted
=============================================================================
