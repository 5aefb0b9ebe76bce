----------------------------- MODULE KernelScreen -----------------------------
(***************************************************************************)
(* What is on the screen (kernel/src/desktop.rs, fb.rs, anim.rs): whatever *)
(* changes says which rectangle to repaint, the rectangles of a turn of    *)
(* the main loop are joined, and one frame paints, presents and puts the   *)
(* pointer back.                                                           *)
(*                                                                         *)
(* The screen is a few cells instead of pixels; what a cell shows is the   *)
(* thing drawn there, as it was when it was painted.  Which clicks and     *)
(* keys are possible is KernelDesktop's: here they are free, and what      *)
(* counts is what they change and what they repaint.                       *)
(***************************************************************************)
EXTENDS Integers, SequencesExt

CONSTANTS Width, Height,     \* of the screen, in cells; row 0 is the panel
          Windows,           \* the applications, in the order of APPS
          PlaceOf,           \* [window -> rectangle]: default_rect
          Spots,             \* the cells the pointer goes to
          Clocks,            \* how wide the clock may be, in cells
          WindowTime, MenuTime, FrameTime, SplashTime, WakingTime,
          MaxEvents          \* bounds the events of a behaviour

WindowSet == {Windows[i] : i \in DOMAIN Windows}
IndexOf(w) == CHOOSE i \in DOMAIN Windows : Windows[i] = w

ScreenAssumption ==
    /\ {Width, Height, WindowTime, MenuTime, FrameTime, SplashTime, WakingTime, MaxEvents} \subseteq Nat \ {0}
    /\ Height > 2
    /\ Windows \in Seq(STRING) /\ {"Terminal", "Settings"} \subseteq WindowSet
    /\ WindowSet \cap {"wallpaper", "ghost", "panel", "menu", "powerMenu", "login", "off"} = {}
    /\ \A w \in WindowSet : PlaceOf[w] \in [x : Nat, y : Nat, w : Nat, h : Nat]
    /\ SplashTime < WakingTime
    /\ Clocks \subseteq 1..(Width - 3) /\ Spots \subseteq (0..(Width - 1)) \X (0..(Height - 1))
ASSUME ScreenAssumption

(***************************************************************************)
(* Rectangles                                                              *)
(***************************************************************************)
Rect(x, y, w, h) == [x |-> x, y |-> y, w |-> w, h |-> h]
NoRect == Rect(0, 0, 0, 0)
WholeScreen == Rect(0, 0, Width, Height)
IsEmptyRect(r) == r.w = 0 \/ r.h = 0

Larger(a, b) == IF a > b THEN a ELSE b
Smaller(a, b) == IF a < b THEN a ELSE b
Less(a, b) == Larger(a - b, 0)   \* saturating_sub

Grow(r) == Rect(Less(r.x, 1), Less(r.y, 1), r.w + 2, r.h + 2)

Intersect(a, b) ==
    LET x == Larger(a.x, b.x)  right == Smaller(a.x + a.w, b.x + b.w)
        y == Larger(a.y, b.y)  bottom == Smaller(a.y + a.h, b.y + b.h)
    IN  IF right <= x \/ bottom <= y THEN NoRect ELSE Rect(x, y, right - x, bottom - y)

\* Mutant: as wide as the wider, as high as the higher.
Union_Widest(a, b) ==
    IF IsEmptyRect(a) THEN b ELSE IF IsEmptyRect(b) THEN a
    ELSE Rect(Smaller(a.x, b.x), Smaller(a.y, b.y), Larger(a.w, b.w), Larger(a.h, b.h))

\* The smallest rectangle holding both.
Union(a, b) ==
    IF IsEmptyRect(a) THEN b ELSE IF IsEmptyRect(b) THEN a
    ELSE LET x == Smaller(a.x, b.x)  y == Smaller(a.y, b.y)
         IN  Rect(x, y, Larger(a.x + a.w, b.x + b.w) - x, Larger(a.y + a.h, b.y + b.h) - y)

Cells == (0..(Width - 1)) \X (0..(Height - 1))
Has(r, c) == c[1] >= r.x /\ c[1] < r.x + r.w /\ c[2] >= r.y /\ c[2] < r.y + r.h

(***************************************************************************)
(* Movement: progress, ease_out, ease_in, mix                              *)
(***************************************************************************)
FULL == 10
Progress(age, length) == IF age >= length THEN FULL ELSE (age * FULL) \div length
EaseOut(p) == FULL - ((FULL - p) * (FULL - p) * (FULL - p)) \div (FULL * FULL)
EaseIn(p) == (p * p) \div FULL
Mix(from, to, p) == IF to >= from THEN from + ((to - from) * p) \div FULL ELSE from - ((from - to) * p) \div FULL

(***************************************************************************)
(* State                                                                   *)
(***************************************************************************)
VARIABLES windows,   \* open, hidden, area, full, restore, motion
          stacked,   \* back to front: order
          holds,     \* what may change in what is shown: even or odd
          clock,     \* how wide the clock is
          topic,     \* the section of Parametres, by what it shows
          menus,     \* the menu and the power menu, when open
          menuAge,   \* since the menu opened
          hover, mode,   \* mode: "desk", "locked" or "off"
          grab,      \* the window being dragged
          age, gap,  \* since the machine started, and since painted
          pointer, shown, dirty, back, front,
          moment,     \* of a turn: events, then the frame, then it is shown
          happened   \* bounds the behaviour

screenVars == <<windows, stacked, holds, clock, topic, menus, menuAge, hover, mode, grab, age, gap,
                pointer, shown, dirty, back, front, moment, happened>>

NoGrab == [window |-> "none", x |-> 0, y |-> 0]
Still == [on |-> FALSE, from |-> NoRect, age |-> 0, closing |-> FALSE]

Visible(w) == windows[w].open /\ ~windows[w].hidden
Foremost == LET seen == {i \in DOMAIN stacked : Visible(stacked[i])}
            IN  IF seen = {} THEN "none" ELSE stacked[Max(seen)]

\* damage, damage_all
Joined(old, area) == Union(old, Intersect(area, WholeScreen))
Damage(area) == dirty' = Joined(dirty, area)
DamageAll == dirty' = WholeScreen

(***************************************************************************)
(* Geometry                                                                *)
(***************************************************************************)
LogoRect == Rect(0, 0, 1, 1)
PowerRect == Rect(Width - 1, 0, 1, 1)
ClockRect(wide) == Rect(Width - 1 - wide, 0, wide, 1)
InOrder(ws) == SelectSeq(Windows, LAMBDA w : w \in ws)
Opened == {w \in WindowSet : windows[w].open}
Tucked == {w \in WindowSet : windows[w].hidden}
OpenApps == InOrder(Opened)
\* The button of the i-th open window, if there is room left of the clock.
TaskRect(i) == Rect(i, 0, 1, 1)
HasRoom(i) == i + 1 <= ClockRect(clock).x
MenuRect == Rect(0, 1, 2, Height - 2)
MenuItemRect == Rect(0, 2, 2, 1)
PowerMenuRect == Rect(Width - 2, 1, 2, 1)
TitleRect(w) == [windows[w].area EXCEPT !.h = 1]
ButtonRect(w) == Rect(Less(windows[w].area.x + windows[w].area.w, 1), windows[w].area.y, 1, 1)

\* The menu unfolds downwards, from a third of its height.
Unfolded(now) ==
    [MenuRect EXCEPT !.h = Larger(Mix(@ \div 3, @, EaseOut(Progress(now, MenuTime))), 1)]

\* Where a window that moves is drawn.
GhostRect(w) ==
    LET move == windows[w].motion
        p == IF move.closing THEN EaseIn(Progress(move.age, WindowTime)) ELSE EaseOut(Progress(move.age, WindowTime))
        a == IF move.closing THEN windows[w].area ELSE move.from
        b == IF move.closing THEN move.from ELSE windows[w].area
    IN  Rect(Mix(a.x, b.x, p), Mix(a.y, b.y, p), Larger(Mix(a.w, b.w, p), 1), Larger(Mix(a.h, b.h, p), 1))

\* spring: the window's button, its own middle when it has none.
Spring(w, opened) ==
    LET at == CHOOSE i \in DOMAIN InOrder(opened) : InOrder(opened)[i] = w
        area == windows[w].area
    IN  IF at \in 1..(Width - 2) THEN TaskRect(at)
        ELSE Rect(area.x + area.w \div 3, area.y + area.h \div 3, area.w \div 3, area.h \div 3)

(***************************************************************************)
(* Painting                                                                *)
(***************************************************************************)
If(condition, what) == IF condition THEN {what} ELSE {}

\* What a window shows of what changes.
Content(w) ==
    CASE w = "Settings" -> {topic, holds[topic]}
      [] w = "Terminal" -> {holds["text"]}
      [] OTHER -> {holds["names"]}

WindowLook(w, c) ==
    {w} \cup If(w = Foremost, "active")
        \cup (IF Has(ButtonRect(w), c) THEN {"button"} \cup If(hover = <<"Button", IndexOf(w)>>, "lit")
              ELSE IF Has(TitleRect(w), c) THEN {"title"} ELSE Content(w))

PanelLook(c) ==
    IF Has(LogoRect, c) THEN {"logo"} \cup If("menu" \in menus, "open") \cup If(hover = <<"Logo", 0>>, "lit")
    ELSE IF Has(PowerRect, c) THEN {"power"} \cup If("power" \in menus, "open") \cup If(hover = <<"Power", 0>>, "lit")
    ELSE IF Has(ClockRect(clock), c) THEN {"clock", holds["clock"]} \cup If(c[1] = ClockRect(clock).x, "begins")
    ELSE IF c[1] \in DOMAIN OpenApps /\ HasRoom(c[1])
         THEN LET w == OpenApps[c[1]]
              IN  {"task", w} \cup If(w = Foremost, "active") \cup If(w \in Tucked, "hidden")
                  \cup If(hover = <<"Task", c[1]>>, "lit")
    ELSE {"panel"}

MenuLook(c) ==
    {"menu", holds["filter"]} \cup If(c[2] = 1, "search") \cup If(Has(MenuItemRect, c), "item")
    \cup If(Has(MenuItemRect, c) /\ hover = <<"MenuItem", 0>>, "lit")

\* What paint draws, back to front: where, and whether a shadow surrounds it.
\* What is not drawn is nowhere.
Layer(drawn, what, at, shadow) == [what |-> what, at |-> IF drawn THEN at ELSE NoRect, shadow |-> drawn /\ shadow]
WindowLayer(w) ==
    IF windows[w].motion.on THEN Layer(TRUE, "ghost", GhostRect(w), TRUE)
    ELSE Layer(Visible(w), w, windows[w].area, TRUE)
Layers ==
    IF mode = "off" THEN <<Layer(TRUE, "off", WholeScreen, FALSE)>>
    ELSE <<Layer(TRUE, "wallpaper", WholeScreen, FALSE)>>
         \o [i \in DOMAIN stacked |-> WindowLayer(stacked[i])]
         \o <<Layer(TRUE, "panel", Rect(0, 0, Width, 1), FALSE),
              Layer("menu" \in menus, "menu", Unfolded(menuAge), TRUE),
              Layer("power" \in menus, "powerMenu", PowerMenuRect, TRUE),
              Layer(mode = "locked", "login", WholeScreen, FALSE)>>

LookOf(what, c) ==
    CASE what \in WindowSet -> WindowLook(what, c)
      [] what = "panel" -> PanelLook(c)
      [] what = "menu" -> MenuLook(c)
      [] what = "login" -> {"login", holds["typed"], holds["clock"]}
      [] OTHER -> {what}

\* A cell shows the last thing drawn there, under the shadows drawn since, and
\* under the splash while the machine wakes.
TopAt(layers, c) == Max({i \in DOMAIN layers : Has(layers[i].at, c)})
ShadesAt(layers, c) ==
    LET top == TopAt(layers, c)
    IN  {layers[i].what : i \in {j \in DOMAIN layers : j > top /\ layers[j].shadow /\ Has(Grow(layers[j].at), c)}}
Paint ==
    LET layers == Layers
    IN  [c \in Cells |-> [top |-> LookOf(layers[TopAt(layers, c)].what, c), shade |-> ShadesAt(layers, c),
                          washed |-> mode # "off" /\ age < SplashTime, pointer |-> FALSE]]

Blank == [top |-> {"off"}, shade |-> {}, washed |-> FALSE, pointer |-> FALSE]

ScreenInit ==
    /\ windows = [w \in WindowSet |-> [open |-> FALSE, hidden |-> FALSE, full |-> FALSE, motion |-> Still,
                                       area |-> PlaceOf[w], restore |-> PlaceOf[w]]]
    /\ stacked = Reverse(Windows)
    /\ holds = [k \in {"clock", "network", "typed", "news", "text", "names", "filter"} |-> "even"]
    /\ clock \in Clocks /\ topic = "clock" /\ menus = {} /\ menuAge = 0 /\ hover = <<"None", 0>>
    /\ mode = "desk" /\ grab = NoGrab /\ age = 0 /\ gap = 0
    /\ pointer = <<Width \div 2, Height \div 2>> /\ shown = {} /\ dirty = WholeScreen
    /\ back = [c \in Cells |-> Blank] /\ front = back
    /\ moment = "frame" /\ happened = 0

(***************************************************************************)
(* The events of a turn                                                    *)
(***************************************************************************)
Event == moment \in {"events", "shown"} /\ happened < MaxEvents /\ moment' = "events" /\ happened' = happened + 1
Timing == <<age, gap>>
Buffers == <<back, front, shown>>

Turns(k) == holds' = [holds EXCEPT ![k] = IF @ = "even" THEN "odd" ELSE "even"]

\* tick: a new second.  The clock may be wider or narrower than it was.
Tick ==
    /\ Event /\ mode # "off"
    /\ Turns("clock") /\ clock' \in Clocks
    /\ IF mode = "locked" THEN DamageAll
       ELSE LET x == ClockRect(clock').x
                panel == Joined(dirty, Rect(x, 0, Width - x, 1))
            IN  dirty' = IF Visible("Settings") /\ topic = "clock" THEN Joined(panel, windows["Settings"].area) ELSE panel
    /\ UNCHANGED <<windows, stacked, topic, menus, menuAge, hover, mode, grab, pointer, Timing, Buffers>>

\* set_network; update_result; install_progress, which repaints whatever shows.
Told(k) ==
    /\ Event /\ Turns(k)
    /\ LET area == windows["Settings"].area
       IN  \/ /\ k = "network"
              /\ IF Visible("Settings") /\ topic = k THEN Damage(area) ELSE UNCHANGED dirty
           \/ /\ k = "news"
              /\ Damage(area) \/ IF Visible("Settings") THEN Damage(area) ELSE UNCHANGED dirty
    /\ UNCHANGED <<windows, stacked, clock, topic, menus, menuAge, hover, mode, grab, pointer, Timing, Buffers>>

\* A person's event: nothing of the clock, nor of the buffers, and none once off.
Hand == Event /\ mode # "off" /\ UNCHANGED <<clock, Timing, Buffers>>
Desk == Hand /\ mode = "desk"

\* Launch, close, minimise, toggle_full, raise: everything is repainted.  A
\* click beside the menu closes it; with the power menu open it only closes that.
Lifted(w) ==
    LET at == CHOOSE i \in DOMAIN stacked : stacked[i] = w
        n == Len(stacked)
    IN  [i \in 1..n |-> IF i < at THEN stacked[i] ELSE IF i < n THEN stacked[i + 1] ELSE w]
Repainted == Desk /\ DamageAll /\ UNCHANGED <<holds, topic, hover, grab, pointer>>
Rearranged == Repainted /\ "power" \notin menus /\ menus' = {} /\ menuAge' = 0 /\ UNCHANGED mode

\* An item of the menu closes it; one of the power menu closes that one.
Chosen == \/ menus' = {} /\ menuAge' = 0
          \/ menus' = menus \ {"power"} /\ UNCHANGED menuAge

\* A click brings the window to the front, where it may be already.
ToFront(w) == IF Foremost = w THEN stacked ELSE Lifted(w)

Launch(w) ==
    /\ Repainted /\ Chosen /\ stacked' = Lifted(w) /\ UNCHANGED mode
    /\ LET old == windows[w]
           grows == [on |-> TRUE, from |-> Spring(w, Opened \cup {w}), age |-> 0, closing |-> FALSE]
       IN  windows' = [windows EXCEPT ![w] = [old EXCEPT !.open = TRUE, !.hidden = FALSE,
                                                         !.motion = IF Visible(w) THEN old.motion ELSE grows]]

Close(w) ==
    /\ Rearranged /\ Visible(w) /\ stacked' = ToFront(w)
    /\ windows' = [windows EXCEPT ![w].motion = [on |-> TRUE, from |-> windows[w].area, age |-> 0, closing |-> TRUE]]

Minimise(w) ==
    /\ Rearranged /\ Visible(w) /\ stacked' = ToFront(w)
    /\ windows' = [windows EXCEPT ![w].hidden = TRUE]

ToggleFull(w) ==
    /\ Rearranged /\ Visible(w) /\ stacked' = ToFront(w)
    /\ LET old == windows[w]
       IN  windows' = [windows EXCEPT ![w] =
              IF old.full THEN [old EXCEPT !.area = old.restore, !.full = FALSE]
              ELSE [old EXCEPT !.restore = old.area, !.area = Rect(0, 1, Width, Height - 1), !.full = TRUE]]

Raise(w) ==
    /\ Rearranged /\ Visible(w) /\ Foremost # w /\ stacked' = Lifted(w) /\ UNCHANGED windows

\* toggle_menu, the power menu, the filter: everything again.
ToggleMenu ==
    /\ Repainted /\ menuAge' = 0 /\ UNCHANGED <<windows, stacked, mode>>
    /\ menus' = IF "menu" \in menus THEN menus \ {"menu"} ELSE menus \cup {"menu"}
TogglePower ==
    /\ Repainted /\ UNCHANGED <<windows, stacked, mode>>
    /\ IF "power" \in menus THEN menus' = menus \ {"power"} /\ UNCHANGED menuAge
       ELSE menus' = {"power"} /\ menuAge' = 0
KeyFilter ==
    /\ Desk /\ "menu" \in menus /\ "power" \notin menus /\ Turns("filter") /\ DamageAll
    /\ UNCHANGED <<windows, stacked, topic, menus, menuAge, hover, mode, grab, pointer>>

\* lock, the password, shut_down.
LockScreen == Repainted /\ Chosen /\ mode' = "locked" /\ UNCHANGED <<windows, stacked>>
KeyUnderLock ==
    /\ Hand /\ mode = "locked" /\ DamageAll
    /\ \/ Turns("typed") /\ UNCHANGED mode
       \/ mode' = "desk" /\ UNCHANGED holds
    /\ UNCHANGED <<windows, stacked, topic, menus, menuAge, hover, grab, pointer>>
ShutDown == Repainted /\ Chosen /\ mode' = "off" /\ UNCHANGED <<windows, stacked>>

\* What is typed or chosen in a window repaints that window.
KeyTerminal ==
    /\ Desk /\ menus = {} /\ Foremost = "Terminal" /\ Damage(windows["Terminal"].area)
    /\ \/ Turns("text")
       \/ holds' = [holds EXCEPT !["text"] = IF @ = "even" THEN "odd" ELSE "even",
                                 !["names"] = IF @ = "even" THEN "odd" ELSE "even"]
    /\ UNCHANGED <<windows, stacked, topic, menus, menuAge, hover, mode, grab, pointer>>
InSettings ==
    /\ Desk /\ menus = {} /\ Foremost = "Settings" /\ Damage(windows["Settings"].area)
    /\ \/ topic' \in {"clock", "network", "typed", "news"} \ {topic} /\ UNCHANGED holds
       \/ topic = "typed" /\ Turns("typed") /\ UNCHANGED topic
    /\ UNCHANGED <<windows, stacked, menus, menuAge, hover, mode, grab, pointer>>

(***************************************************************************)
(* The mouse                                                               *)
(***************************************************************************)
\* follow: what the pointer is over.
OverPanel(c) ==
    IF Has(LogoRect, c) THEN <<"Logo", 0>> ELSE IF Has(PowerRect, c) THEN <<"Power", 0>>
    ELSE IF c[1] \in DOMAIN OpenApps THEN <<"Task", c[1]>> ELSE <<"None", 0>>
Over(c) ==
    CASE "menu" \in menus /\ Has(MenuItemRect, c) -> <<"MenuItem", 0>>
      [] c[2] = 0 -> OverPanel(c)
      [] OTHER -> IF Foremost # "none" /\ Has(ButtonRect(Foremost), c)
                  THEN <<"Button", IndexOf(Foremost)>> ELSE <<"None", 0>>

HoverRect(over) ==
    CASE over[1] = "Logo" -> LogoRect
      [] over[1] = "Power" -> PowerRect
      [] over[1] = "Task" -> TaskRect(over[2])
      [] over[1] = "MenuItem" -> MenuItemRect
      [] over[1] = "Button" -> ButtonRect(Windows[over[2]])
      [] OTHER -> NoRect

Follow(c) ==
    /\ hover' = Over(c)
    /\ IF hover' = hover THEN UNCHANGED dirty
       ELSE dirty' = Joined(Joined(dirty, HoverRect(hover)), HoverRect(hover'))

\* A window being dragged follows the pointer; it is repainted where it was
\* and where it is, shadow included.
Dragged(c) ==
    LET area == windows[grab.window].area
    IN  Rect(Smaller(Less(c[1], grab.x), Width - 1), Larger(1, Smaller(Less(c[2], grab.y), Height - 1)), area.w, area.h)

MouseMoves ==
    /\ Hand
    /\ pointer' \in Spots \ {pointer}
    /\ IF grab = NoGrab
       THEN Follow(pointer') /\ UNCHANGED windows
       ELSE LET area == windows[grab.window].area  moved == Dragged(pointer')
            IN  /\ windows' = [windows EXCEPT ![grab.window].area = moved]
                /\ dirty' = Joined(Joined(dirty, Grow(area)), Grow(moved))
                /\ UNCHANGED hover
    /\ UNCHANGED <<stacked, holds, topic, menus, menuAge, mode, grab>>

\* A press on a title bar, the window being brought to the front first.
Press(w) ==
    /\ Desk /\ "power" \notin menus /\ grab = NoGrab /\ Visible(w) /\ menus' = {} /\ menuAge' = 0
    /\ Has(TitleRect(w), pointer) /\ ~Has(ButtonRect(w), pointer)
    /\ grab' = [window |-> w, x |-> pointer[1] - windows[w].area.x, y |-> pointer[2] - windows[w].area.y]
    /\ stacked' = ToFront(w)
    /\ IF Foremost = w /\ menus = {} THEN UNCHANGED dirty ELSE DamageAll
    /\ UNCHANGED <<windows, holds, topic, hover, mode, pointer>>

Release ==
    /\ Hand /\ grab # NoGrab /\ grab' = NoGrab
    /\ UNCHANGED <<windows, stacked, holds, topic, menus, menuAge, hover, mode, pointer, dirty>>

(***************************************************************************)
(* The end of a turn: the animations, then the frame                       *)
(***************************************************************************)
Older(passed) ==
    [w \in WindowSet |-> IF windows[w].motion.on
                         THEN [windows[w] EXCEPT !.motion.age = Smaller(@ + passed, WindowTime)] ELSE windows[w]]
MotionEnds(w) == windows'[w].motion = Still /\ windows[w].motion.on

\* Where a window that moves may be drawn, before and now.
MotionDamage(old, w) ==
    IF windows[w].motion.on THEN Joined(Joined(old, Grow(windows[w].area)), Grow(windows[w].motion.from)) ELSE old

\* What advance repaints, when it is time for a frame.
AdvanceDamage(blinked, checking) ==
    LET moved == FoldLeft(MotionDamage, dirty, Windows)
        unfolded == IF "menu" \in menus /\ menuAge' < MenuTime THEN Joined(moved, Grow(MenuRect)) ELSE moved
        checked == IF checking /\ Visible("Settings") THEN Joined(unfolded, windows["Settings"].area) ELSE unfolded
    IN  IF \/ age' <= WakingTime \/ \E w \in WindowSet : MotionEnds(w)
           \/ blinked /\ (mode = "locked" \/ (Visible("Settings") /\ topic = "typed"))
        THEN WholeScreen
        ELSE IF blinked /\ Foremost = "Terminal" THEN Joined(checked, windows["Terminal"].area) ELSE checked

\* Under the lock, animated frames are fewer: 400 ms apart instead of 16.
LockedTime == 2 * FrameTime

AdvanceClock ==
    /\ moment \in {"events", "shown"} /\ moment' = "frame"
    /\ \E passed \in 1..2, blinked, checking \in BOOLEAN :
          LET painted == Smaller(gap + passed, LockedTime)
              older == Older(passed)
              moving == \/ \E w \in WindowSet : windows[w].motion.on
                        \/ ("menu" \in menus /\ menuAge' < MenuTime)
                        \/ checking \/ age' <= WakingTime
          IN  /\ age' = Smaller(age + passed, WakingTime + 1)
              /\ menuAge' = IF "menu" \in menus THEN Smaller(menuAge + passed, MenuTime) ELSE 0
              /\ IF mode = "off" \/ ~(moving \/ blinked) \/ painted < FrameTime
                    \/ (mode = "locked" /\ age' > WakingTime /\ painted < LockedTime)
                 THEN gap' = painted /\ windows' = older /\ UNCHANGED <<dirty, holds>>
                 ELSE /\ gap' = 0
                      /\ windows' = [w \in WindowSet |->
                            IF older[w].motion.on /\ older[w].motion.age >= WindowTime
                            THEN [older[w] EXCEPT !.motion = Still, !.open = @ /\ ~older[w].motion.closing]
                            ELSE older[w]]
                      /\ dirty' = AdvanceDamage(blinked, checking)
                      /\ IF checking THEN holds' \in {holds, [holds EXCEPT !["news"] = IF @ = "even" THEN "odd" ELSE "even"]}
                         ELSE UNCHANGED holds
    /\ UNCHANGED <<stacked, clock, topic, menus, hover, mode, grab, pointer, shown, back, front, happened>>

\* frame: paint what is dirty, present it, put the back buffer back where the
\* pointer was, draw the pointer where it is.
ShowFrame ==
    /\ moment = "frame" /\ moment' = "shown" /\ dirty' = NoRect
    /\ LET moved == shown # {pointer}
           now == Paint
           painted == [c \in Cells |-> IF Has(dirty, c) THEN now[c] ELSE back[c]]
           presented == [c \in Cells |-> IF Has(dirty, c) \/ (moved /\ c \in shown) THEN painted[c] ELSE front[c]]
       IN  IF IsEmptyRect(dirty) /\ ~moved THEN UNCHANGED Buffers
           ELSE /\ back' = painted
                /\ IF mode = "off" THEN front' = presented /\ UNCHANGED shown
                   ELSE front' = [presented EXCEPT ![pointer].pointer = TRUE] /\ shown' = {pointer}
    /\ UNCHANGED <<windows, stacked, holds, clock, topic, menus, menuAge, hover, mode, grab, age, gap, pointer, happened>>

ScreenNext ==
    \/ Tick \/ Told("network") \/ Told("news")
    \/ \E w \in WindowSet : Launch(w) \/ Close(w) \/ Minimise(w) \/ ToggleFull(w) \/ Raise(w) \/ Press(w)
    \/ ToggleMenu \/ TogglePower \/ KeyFilter \/ LockScreen \/ KeyUnderLock \/ ShutDown \/ KeyTerminal \/ InSettings
    \/ MouseMoves \/ Release
    \/ AdvanceClock \/ ShowFrame

ScreenSpec == ScreenInit /\ [][ScreenNext]_screenVars

(***************************************************************************)
(* Properties                                                              *)
(***************************************************************************)
\* A frame has been shown, and no window moves.
AtRest == moment = "shown" /\ \A w \in WindowSet : ~windows[w].motion.on

\* The part of the menu that unfolds.
Folds(c) == "menu" \in menus /\ Has(Grow(MenuRect), c) /\ ~Has(Unfolded(0), c)

ScreenTypeOK ==
    /\ \A w \in WindowSet : /\ DOMAIN windows[w] = {"open", "hidden", "full", "motion", "area", "restore"}
                            /\ windows[w].motion.age \in 0..WindowTime
                            /\ {windows[w].open, windows[w].hidden, windows[w].full} \subseteq BOOLEAN
    /\ Len(stacked) = Len(Windows) /\ ToSet(stacked) = WindowSet
    /\ \A k \in DOMAIN holds : holds[k] \in {"even", "odd"}
    /\ clock \in Clocks /\ topic \in DOMAIN holds /\ menus \subseteq {"menu", "power"} /\ menuAge \in 0..MenuTime
    /\ mode \in {"desk", "locked", "off"} /\ grab.window \in WindowSet \cup {"none"}
    /\ age \in 0..(WakingTime + 1) /\ gap \in 0..LockedTime /\ shown \subseteq Cells /\ pointer \in Cells
    /\ moment \in {"events", "frame", "shown"} /\ happened \in 0..MaxEvents

\* Where the screen may be behind what it shows: where another width of the
\* clock would reach (a tick repaints from the new clock on, desktop.rs:573),
\* and in a window other than the terminal and the settings, as it lists the
\* names a command of the terminal changes (desktop.rs:3073).
Behind(c) ==
    \/ c[2] = 0 /\ \E a, b \in Clocks : ClockRect(a).x <= c[1] /\ c[1] < ClockRect(b).x
    \/ \E w \in WindowSet \ {"Terminal", "Settings"} : Visible(w) /\ Has(windows[w].area, c)
Sure(c) == ~Folds(c) /\ ~Behind(c)

\* Whatever sequence of events, animations and partial repaints led here, the
\* screen shows what painting all of it now would show, and the pointer once,
\* where it is: nothing was changed without being repainted (damage, frame),
\* but in the three places above: the part of the menu that unfolds, the strip
\* of a clock that got narrower, a window that lists names.
ScreenIsTrue ==
    AtRest => LET now == Paint
              IN  \A c \in Cells :
                    /\ Sure(c) => front[c].top = now[c].top /\ front[c].shade = now[c].shade
                    /\ front[c].pointer = (mode # "off" /\ c = pointer)

\* The same with only the first of these exceptions: not so, see the README.
NothingIsBehind ==
    AtRest => \A c \in Cells : ~Folds(c) => front[c].top = Paint[c].top /\ front[c].shade = Paint[c].shade

\* An open menu comes to its full height: not so, see the README.
MenuUnfolds ==
    AtRest /\ menuAge = MenuTime => \A c \in Cells : Folds(c) => front[c].top = Paint[c].top

\* A window that closes shrinks back ("The little rectangle a window grows
\* from, and shrinks back to", spring): not so, see the README.
ClosingShrinks ==
    \A w \in WindowSet : windows[w].motion.closing /\ windows[w].motion.age = WindowTime - 1
                         => GhostRect(w) # windows[w].area

\* The splash fades out whole: not so, see the README.
SplashClears == AtRest /\ age > WakingTime => \A c \in Cells : ~front[c].washed
=============================================================================
