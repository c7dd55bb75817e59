----------------------------- MODULE GlassScene -----------------------------
(***************************************************************************)
(* The scenes of the liquid_glass crate: the nodes that each surface puts    *)
(* into a new Scene (surfaces/*.rs, scene/graph.rs), what lies under the      *)
(* pointer (hit_test.rs) and the order of the Tab key (focus.rs).  Lengths    *)
(* are logical pixels; texts, roles and materials are left out.               *)
(***************************************************************************)
EXTENDS Integers, Sequences, FiniteSets

Rect(x, y, width, height) == [x |-> x, y |-> y, width |-> width, height |-> height]
ContainsPoint(r, p) == /\ p.x \in r.x..(r.x + r.width) /\ p.y \in r.y..(r.y + r.height)
Within(r, outer) == /\ r.x >= outer.x /\ r.x + r.width <= outer.x + outer.width
                    /\ r.y >= outer.y /\ r.y + r.height <= outer.y + outer.height

\* Where a press may fall: the middle, and halfway from it to the left and to the right edge.
Probes(r) == {[x |-> r.x + ((i * r.width) \div 4), y |-> r.y + (r.height \div 2)] : i \in 1..3}

\* A node: what it is, where, how high, its parent, and whether Tab stops at it.
NodeId(kind, n, piece) == <<kind, n, piece>>
Root == NodeId("root", 0, "")
Node(id, r, z, parent, focusable) ==
    [id |-> id, bounds |-> r, z |-> z, parent |-> parent, focusable |-> focusable]
RootOf(width, height) == Node(Root, Rect(0, 0, width, height), 0, Root, FALSE)

-----------------------------------------------------------------------------
(* Settings. *)

Tabs == <<"General", "Appearance", "Hotkeys", "Blacklist", "Updates">>
SidebarWidth == 180
MinWidth == 620
MinHeight == 520
AtLeast(x, least) == IF x < least THEN least ELSE x

Control(kind, n, r, z) == Node(NodeId(kind, n, ""), r, z, NodeId("content", 0, ""), TRUE)
Label(kind, n, r) == Node(NodeId(kind, n, "label"), r, 2, NodeId("content", 0, ""), FALSE)

Themes == <<"System", "Light", "Dark">>
Materials == <<"Auto", "Translucent", "Opaque">>
AppearanceNodes(w) ==
    {Label("theme", 0, Rect(204, 24, 200, 24)), Label("material", 0, Rect(204, 100, 200, 24)),
     Label("preview", 0, Rect(204, 176, w - 228, 100))}
    \cup {Control("theme", i, Rect(204 + (100 * (i - 1)), 54, 90, 30), 3) : i \in 1..3}
    \cup {Control("material", i, Rect(204 + (120 * (i - 1)), 130, 110, 30), 3) : i \in 1..3}

Steps == <<1, 2, 5>>
GeneralNodes ==
    {Control("autostart", 0, Rect(204, 24, 300, 32), 2), Label("step", 0, Rect(204, 68, 200, 24))}
    \cup {Control("step", i, Rect(204 + (120 * (i - 1)), 98, 110, 30), 3) : i \in 1..3}

UpdatesNodes ==
    {Label("updates", 0, Rect(204, 24, 350, 28)), Label("version", 0, Rect(204, 60, 350, 24)),
     Control("check", 0, Rect(204, 96, 220, 36), 2)}

HotkeysNodes(w) ==
    {Label("hotkeys", 0, Rect(204, 24, 350, 28))}
    \cup {Label("shortcut", i, Rect(204, 60 + (38 * (i - 1)), w - 228, 32)) : i \in 1..4}

BlacklistNodes ==
    {Label("blacklist", 0, Rect(204, 24, 350, 28)),
     Control("recommended", 0, Rect(204, 60, 220, 32), 2),
     Control("clear", 0, Rect(440, 60, 160, 32), 2)}

TabNodes(tab, w) ==
    CASE tab = "General" -> GeneralNodes
      [] tab = "Appearance" -> AppearanceNodes(w)
      [] tab = "Updates" -> UpdatesNodes
      [] tab = "Hotkeys" -> HotkeysNodes(w)
      [] OTHER -> BlacklistNodes

SettingsScene(tab, width, height) ==
    LET w == AtLeast(width, MinWidth)
        h == AtLeast(height, MinHeight)
        bar == NodeId("bar", 0, "")
        sidebar == NodeId("sidebar", 0, "")
    IN  {RootOf(w, h),
         Node(sidebar, Rect(0, 0, SidebarWidth, h), 1, Root, FALSE),
         Node(NodeId("content", 0, ""), Rect(SidebarWidth, 0, w - SidebarWidth, h - 60), 1, Root, FALSE),
         Node(bar, Rect(SidebarWidth, h - 60, w - SidebarWidth, 60), 1, Root, FALSE),
         Node(NodeId("reset", 0, ""), Rect(SidebarWidth + 20, h - 44, 100, 32), 2, bar, TRUE),
         Node(NodeId("cancel", 0, ""), Rect(w - 210, h - 44, 90, 32), 2, bar, TRUE),
         Node(NodeId("save", 0, ""), Rect(w - 110, h - 44, 90, 32), 2, bar, TRUE)}
        \cup {Node(NodeId("tab", i, ""), Rect(12, 24 + (44 * (i - 1)), SidebarWidth - 24, 36), 2, sidebar, TRUE)
              : i \in DOMAIN Tabs}
        \cup TabNodes(tab, w)

-----------------------------------------------------------------------------
(* Mixer, help and overlay. *)

MixerWidth == 400
MixerHeight == 224

\* A rail: label, slider with its fill, mute button.
GlassRail(kind, n, y, percent, mute) ==
    LET slider == NodeId(kind, n, "slider")
        filled == IF mute THEN 0 ELSE (190 * percent) \div 100
    IN  {Node(NodeId(kind, n, "label"), Rect(16, y, 104, 24), 1, Root, FALSE),
         Node(slider, Rect(120, y, 190, 24), 1, Root, TRUE),
         Node(NodeId(kind, n, "fill"), Rect(120, y, filled, 24), 2, slider, FALSE),
         Node(NodeId(kind, n, "mute"), Rect(320, y, 64, 24), 1, Root, TRUE)}

\* Rows until the bottom of the card.
RowY(i) == 76 + (32 * (i - 1))
RowsThatFit(count) == {i \in 1..count : RowY(i) + 30 <= MixerHeight}

\* levels: the percentage and the mute of each session that passes the filter.
MixerScene(percent, mute, levels) ==
    {RootOf(MixerWidth, MixerHeight),
     Node(NodeId("search", 0, ""), Rect(16, 44, 368, 24), 1, Root, TRUE),
     Node(NodeId("footer", 0, ""), Rect(16, 198, 368, 18), 1, Root, FALSE)}
    \cup GlassRail("master", 0, 12, percent, mute)
    \cup UNION {GlassRail("row", i, RowY(i), levels[i].percent, levels[i].muted) : i \in RowsThatFit(Len(levels))}

HelpScene(open) ==
    IF ~open THEN {}
    ELSE {RootOf(520, 500), Node(NodeId("title", 0, ""), Rect(24, 20, 300, 28), 1, Root, FALSE),
          Node(NodeId("close", 0, ""), Rect(520 - 64, 16, 40, 28), 1, Root, TRUE)}
         \cup UNION {{Node(NodeId("key", i, ""), Rect(24, 64 + (36 * (i - 1)), 160, 28), 1, Root, FALSE),
                      Node(NodeId("text", i, ""), Rect(200, 64 + (36 * (i - 1)), 290, 28), 1, Root, FALSE)}
                     : i \in 1..5}

-----------------------------------------------------------------------------
(* Pointer and keyboard. *)

\* hit_test: the highest node at the point.  Nodes of one height come in the order of
\* a hash table, so any of them may be the answer.
Hits(scene, p) ==
    LET under == {n \in scene : ContainsPoint(n.bounds, p)}
    IN  {n \in under : \A m \in under : m.z <= n.z}

\* focusable_order: rows from top to bottom, four pixels apart at least, then columns.
Before(a, b) ==
    IF (a.bounds.y - b.bounds.y) \in -4..4 THEN a.bounds.x < b.bounds.x
                                           ELSE a.bounds.y < b.bounds.y
Focusable(scene) == {n \in scene : n.focusable}
Rank(scene, n) == 1 + Cardinality({m \in Focusable(scene) : Before(m, n)})
FocusableOrder(scene) ==
    [i \in 1..Cardinality(Focusable(scene)) |->
        CHOOSE n \in Focusable(scene) : Rank(scene, n) = i]

IndexIn(order, id) == CHOOSE i \in DOMAIN order : order[i].id = id
FocusNext(order, id) ==
    IF \E i \in DOMAIN order : order[i].id = id
    THEN order[(IndexIn(order, id) % Len(order)) + 1].id ELSE order[1].id
FocusPrev(order, id) ==
    IF \E i \in DOMAIN order : order[i].id = id /\ i > 1
    THEN order[IndexIn(order, id) - 1].id ELSE order[Len(order)].id

-----------------------------------------------------------------------------

\* Every node of a scene lies in its card and hangs on another one; what a press on a control
\* hits is that control, or a part drawn on it, and a part only within its own bounds; and Tab
\* passes every control once, in an order that Shift+Tab takes backwards.
Usable(scene) ==
    scene # {} =>
        LET root == CHOOSE n \in scene : n.id = Root
            order == FocusableOrder(scene)
        IN  /\ \A n \in scene : Within(n.bounds, root.bounds) /\ \E m \in scene : m.id = n.parent
            /\ \A n \in Focusable(scene) :
                  /\ \A p \in Probes(n.bounds) : \A hit \in Hits(scene, p) :
                        \/ hit.id = n.id
                        \/ hit.parent = n.id /\ Within(hit.bounds, n.bounds)
                  /\ \A m \in Focusable(scene) : n # m => Rank(scene, n) # Rank(scene, m)
                  /\ FocusPrev(order, FocusNext(order, n.id)) = n.id
=============================================================================
