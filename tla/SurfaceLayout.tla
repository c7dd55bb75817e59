----------------------------- MODULE SurfaceLayout -----------------------------
(***************************************************************************)
(* Where the native Windows surfaces and their controls go: the placement  *)
(* contracts of ui/surface.rs, the logical layouts of overlay.rs,          *)
(* mixer.rs, help.rs and settings.rs, and the scaling of DpiMetrics, in    *)
(* integers.  A rectangle is [l, t, r, b]; a scale is counted in quarters  *)
(* (4 is 100 %), which is what Windows offers.                             *)
(***************************************************************************)
EXTENDS Integers, FiniteSets

LOCAL Greater(a, b) == IF a < b THEN b ELSE a

Box(l, t, r, b) == [l |-> l, t |-> t, r |-> r, b |-> b]
Width(x) == x.r - x.l
Height(x) == x.b - x.t

\* DpiMetrics: both conversions round to the nearest pixel.
ToPhysical(q, v) == (v * q + 2) \div 4
ToLogical(q, v) == (v * 8 + q) \div (2 * q)

\* layout_children: the left top corner and the size are scaled, never the right bottom corner.
Scaled(q, x) == LET l == ToPhysical(q, x.l)  t == ToPhysical(q, x.t)
                IN  Box(l, t, l + ToPhysical(q, Width(x)), t + ToPhysical(q, Height(x)))

(***************************************************************************)
(* Placement on a work area [x, y, w, h].                                  *)
(***************************************************************************)
PlaceOverlay(area, w, h, mx, my) ==
  LET r == area.x + area.w - mx  b == area.y + area.h - my IN Box(r - w, b - h, r, b)

PlaceCentered(area, w, h) ==
  LET l == Greater(area.x + (area.w - w) \div 2, area.x)
      t == Greater(area.y + (area.h - h) \div 2, area.y)
  IN  Box(l, t, l + w, t + h)

OverlaySize == [w |-> 336, h |-> 88]
MixerSize == [w |-> 400, h |-> 224]
HelpSize == [w |-> 520, h |-> 500]
SettingsSize == [w |-> 760, h |-> 620]
SettingsLeast == [w |-> 620, h |-> 520]

HudBox(s) == PlaceOverlay(s, ToPhysical(s.scale, OverlaySize.w), ToPhysical(s.scale, OverlaySize.h), 20, 40)
HelpBox(s) == PlaceOverlay(s, ToPhysical(s.scale, HelpSize.w), ToPhysical(s.scale, HelpSize.h), 24, 48)

\* The mixer stands above the overlay, or at the top of a work area too low for both.
MixerBox(s) ==
  LET w == ToPhysical(s.scale, MixerSize.w)  h == ToPhysical(s.scale, MixerSize.h)
      b == Greater(HudBox(s).t - 16, s.y + h)
  IN  Box(HudBox(s).r - w, b - h, HudBox(s).r, b)

\* The settings window shrinks to the work area, but not below its least size.
Shrunk(room, wanted, least) == IF room < wanted THEN Greater(room, least) ELSE wanted
SettingsBox(s) ==
  PlaceCentered(s, Shrunk(s.w, ToPhysical(s.scale, SettingsSize.w), ToPhysical(s.scale, SettingsLeast.w)),
                   Shrunk(s.h, ToPhysical(s.scale, SettingsSize.h), ToPhysical(s.scale, SettingsLeast.h)))

(***************************************************************************)
(* The controls of each surface, in logical pixels.                        *)
(***************************************************************************)
MixerControls == LET right == MixerSize.w - 16  bottom == MixerSize.h - 16 IN
  [slider |-> Box(16, 118, right, 146), mute |-> Box(16, bottom - 36, 148, bottom),
   reset |-> Box(164, bottom - 36, right, bottom), close |-> Box(right - 32, 12, right, 44)]

HelpControls == LET top == HelpSize.h - 48 IN
  [edit |-> Box(24, top, 132, top + 36), settings |-> Box(144, top, 252, top + 36),
   close |-> Box(264, top, 340, top + 36), cross |-> Box(HelpSize.w - 48, 12, HelpSize.w - 16, 44)]

\* The settings surface at a logical size: a rail beside the content, or a strip above it.
Narrow(w) == w < SettingsSize.w
ContentLeft(w) == IF Narrow(w) THEN 16 ELSE 224
ContentTop(w) == IF Narrow(w) THEN 170 ELSE 128
NavEntries(w) ==
  IF Narrow(w)
  THEN LET strip == (w - 72) \div 6
       IN  {Box(16 + i * (strip + 8), 72, 16 + i * (strip + 8) + strip, 104) : i \in 0..5}
  ELSE {Box(8, 72 + i * 40, 192, 108 + i * 40) : i \in 0..5}

\* The field of a row; its label and helper are text.
RowField(x, y, w) == Box(x + 108, y + 1, x + 108 + w, y + 25)

SectionControls(w) == LET x == ContentLeft(w)  y == ContentTop(w)  cw == w - x - 24 IN
  [General |-> {RowField(x, y + d, 120) : d \in {0, 44, 88}},
   Hotkeys |-> {RowField(x, y, 200)},
   Appearance |-> {RowField(x, y + d, 200) : d \in {0, 44, 88, 132}} \cup {Box(x, y + 162, x + 120, y + 198)},
   Blacklist |-> {Box(x, y, x + cw - 116, y + 24), Box(x + cw - 104, y - 1, x + cw, y + 27),
                  Box(x, y + 36, x + cw, y + 176), Box(x, y + 188, x + 100, y + 216),
                  Box(x + 108, y + 188, x + 208, y + 216), Box(x + 216, y + 188, x + 386, y + 216)},
   Feedback |-> {Box(x, y, x + 220, y + 26)} \cup {RowField(x, y + d, 120) : d \in {38, 90, 142, 194}},
   Storage |-> {Box(x, y + 38, x + 140, y + 66)}]

Footer(w, h) == LET t == h - 44 IN
  {Box(w - 132, t, w - 24, t + 32), Box(w - 232, t, w - 144, t + 32), Box(w - 332, t, w - 244, t + 32),
   Box(w - 56, 16, w - 24, 48)}

(***************************************************************************)
(* What a laid out surface owes its user.                                  *)
(***************************************************************************)
Inside(x, w, h) == x.l >= 0 /\ x.t >= 0 /\ x.r <= w /\ x.b <= h
Apart(x, y) == x.r <= y.l \/ y.r <= x.l \/ x.b <= y.t \/ y.b <= x.t
LaidOut(boxes, w, h) == /\ \A x \in boxes : Inside(x, w, h) /\ Width(x) > 0 /\ Height(x) > 0
                        /\ \A x, y \in boxes : x = y \/ Apart(x, y)

\* A surface whose controls were scaled by q, in the window it was given at the screen's scale; the way out
\* at its top right keeps 16 logical pixels from the edge, to a pixel of rounding.
ControlsFitIn(controls, corner, q, box, scale) ==
  /\ LaidOut({Scaled(q, controls[c]) : c \in DOMAIN controls}, Width(box), Height(box))
  /\ Width(box) - Scaled(q, controls[corner]).r - ToPhysical(scale, 16) \in -1..1

\* The settings window lays out again for the client area it got, never for less than its least size.
SettingsFit(s, q) ==
  LET box == SettingsBox(s)
      w == Greater(ToLogical(q, Width(box)), SettingsLeast.w)
      h == Greater(ToLogical(q, Height(box)), SettingsLeast.h)
  IN  \A section \in DOMAIN SectionControls(w) :
        LaidOut({Scaled(q, x) : x \in SectionControls(w)[section] \cup Footer(w, h) \cup NavEntries(w)},
                Width(box), Height(box))
=============================================================================
