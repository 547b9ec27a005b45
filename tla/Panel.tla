------------------------------- MODULE Panel -------------------------------
(***************************************************************************)
(* The ILI9486 panel of main/ili9486_min.cpp, shared by the tasks that     *)
(* paint icons.  A primitive (a filled rectangle, a text) takes the lock,  *)
(* sets the window, sends RAMWR and then the pixels, and gives the lock    *)
(* back; an icon is several primitives, with the lock free between them.   *)
(* The controller sees single bytes and the level of the DC line: a byte   *)
(* is a command or a parameter, and a pixel goes where the last window     *)
(* says, whoever sent either.  When ili9486_init could not add the SPI     *)
(* device, rectangles are skipped, but texts still take the lock and send  *)
(* into nothing.                                                           *)
(***************************************************************************)
EXTENDS Naturals, Sequences

CONSTANTS Painters,  \* the tasks that paint
          Areas,     \* the rectangles of the icons, apart from each other
          Owner,     \* per area, the task that paints it
          Texts,     \* the areas whose icon is a text, the others are rectangles
          None,      \* nobody, nowhere
          Black, Icons,  \* what an area shows: cleared, or an icon
          NPixels    \* bound: pixels a primitive sends

ASSUME PanelAssumption ==
    /\ Owner \in [Areas -> Painters]
    /\ Texts \subseteq Areas
    /\ None \notin Painters \cup Areas
    /\ Black \notin Icons
    /\ NPixels \in Nat \ {0}

VARIABLES s_spi,    \* the SPI device was added; icons are asked for either way
          s_lock,   \* the task that holds the mutex, or None
          pc,       \* per task: "idle", "wait" for the lock, or "send"
          at,       \* per task: the next item of the frame
          area,     \* per task: the area it paints, None before the first icon
          icon,     \* per task: the icon it paints there
          color,    \* per task: what the primitive under way paints
          dc,       \* panel: the DC line
          command,  \* panel: the command whose parameters it awaits
          cols, rows,  \* panel: the areas the column and row windows span
          cursor,   \* panel: the next pixel of the window
          screen,   \* panel: per area, the color of each pixel
          asked     \* history: per area, the icon asked for last

tasks == <<s_lock, pc, at, area, icon, color>>
panel == <<dc, command, cols, rows, cursor, screen>>
vars  == <<s_spi, tasks, panel, asked>>

Colors == Icons \cup {Black}
Pixels == 1 .. NPixels

\* set_window, then RAMWR, then DC high: every item is a GPIO write or a transfer.
Frame == <<"dc_low", "CASET", "dc_high", "columns",
           "dc_low", "PASET", "dc_high", "rows",
           "dc_low", "RAMWR", "dc_high">>
FrameEnd == Len(Frame) + NPixels

\* The mutex is created first, so it is there whatever fails afterwards.  That
\* its creation succeeds is assumed: at boot the heap is free, and without a
\* mutex lock_bus does not lock (its mutant LockMissing).
Init ==
    /\ s_spi \in BOOLEAN
    /\ s_lock = None
    /\ pc = [p \in Painters |-> "idle"] /\ at = [p \in Painters |-> 1]
    /\ area = [p \in Painters |-> None] /\ icon = [p \in Painters |-> Black]
    /\ color = [p \in Painters |-> Black]
    /\ dc = "high" /\ command = "RAMWR" /\ cols = None /\ rows = None /\ cursor = 1
    /\ screen = [a \in Areas |-> [i \in Pixels |-> Black]]
    /\ asked = [a \in Areas |-> Black]

-----------------------------------------------------------------------------
\* ili9486_draw_wifi_icon or ili9486_draw_svc_icon is called: the area is
\* cleared first.
DrawIcon(p, a, i) ==
    /\ pc[p] = "idle" /\ Owner[a] = p
    /\ pc' = [pc EXCEPT ![p] = "wait"]
    /\ area' = [area EXCEPT ![p] = a] /\ icon' = [icon EXCEPT ![p] = i]
    /\ color' = [color EXCEPT ![p] = Black]
    /\ asked' = [asked EXCEPT ![a] = i]
    /\ UNCHANGED <<s_spi, s_lock, at, panel>>

\* The primitive that p is about to send is a rectangle.
Fills(p) == color[p] = Black \/ area[p] \notin Texts

\* After the area is cleared comes the icon itself, then the call returns.
NextPrimitive(p) ==
    \/ color[p] = Black /\ pc' = [pc EXCEPT ![p] = "wait"]
       /\ color' = [color EXCEPT ![p] = icon[p]]
    \/ color[p] # Black /\ pc' = [pc EXCEPT ![p] = "idle"] /\ UNCHANGED color

\* ili9486_fill_rect without a device returns before it takes the lock.
fill_nothing(p) ==
    /\ pc[p] = "wait" /\ ~s_spi /\ Fills(p)
    /\ NextPrimitive(p)
    /\ UNCHANGED <<s_spi, s_lock, at, area, icon, panel, asked>>

\* Mutant of lock_bus: the mutex was never created.
LockMissing(p) ==
    /\ pc[p] = "wait" /\ pc' = [pc EXCEPT ![p] = "send"]
    /\ s_spi \/ ~Fills(p)
    /\ at' = [at EXCEPT ![p] = 1]
    /\ UNCHANGED <<s_spi, s_lock, area, icon, color, panel, asked>>

lock_bus(p) ==
    /\ pc[p] = "wait" /\ pc' = [pc EXCEPT ![p] = "send"]
    /\ s_spi \/ ~Fills(p)
    /\ s_lock = None /\ s_lock' = p
    /\ at' = [at EXCEPT ![p] = 1]
    /\ UNCHANGED <<s_spi, area, icon, color, panel, asked>>

\* What the panel does with a byte: a command when DC is low, else a parameter
\* of the last command.  A window command waits for its window, RAMWR for pixels.
Byte(b, where, c) ==
    \/ /\ dc = "low"
       /\ command' = b /\ cursor' = 1
       /\ UNCHANGED <<cols, rows, screen>>
    \/ /\ dc = "high"
       /\ UNCHANGED command
       /\ \/ command = "CASET" /\ cols' = where /\ UNCHANGED <<rows, cursor, screen>>
          \/ command = "PASET" /\ rows' = where /\ UNCHANGED <<cols, cursor, screen>>
          \/ /\ command = "RAMWR"
             /\ UNCHANGED <<cols, rows>>
             /\ cursor' = IF cursor < NPixels THEN cursor + 1 ELSE 1
             /\ IF cols = rows /\ cols # None
                THEN screen' = [screen EXCEPT ![cols][cursor] = c]
                ELSE UNCHANGED screen

\* The bytes of columns and rows are the sender's area; every item past the
\* frame is a pixel.  Without a device only the DC line moves.
SendItem(p) ==
    /\ pc[p] = "send" /\ at[p] <= FrameEnd
    /\ at' = [at EXCEPT ![p] = @ + 1]
    /\ LET item == IF at[p] <= Len(Frame) THEN Frame[at[p]] ELSE "pixel"
       IN  CASE item = "dc_low"  -> dc' = "low"  /\ UNCHANGED <<command, cols, rows, cursor, screen>>
             [] item = "dc_high" -> dc' = "high" /\ UNCHANGED <<command, cols, rows, cursor, screen>>
             [] OTHER            -> /\ IF s_spi THEN Byte(item, area[p], color[p])
                                       ELSE UNCHANGED <<command, cols, rows, cursor, screen>>
                                    /\ UNCHANGED dc
    /\ UNCHANGED <<s_spi, s_lock, pc, area, icon, color, asked>>

\* Mutant of unlock_bus: the primitive returns without giving the mutex back.
UnlockForgotten(p) ==
    /\ pc[p] = "send" /\ at[p] > FrameEnd
    /\ NextPrimitive(p)
    /\ UNCHANGED <<s_spi, s_lock, at, area, icon, panel, asked>>

unlock_bus(p) ==
    /\ pc[p] = "send" /\ at[p] > FrameEnd
    /\ s_lock' = None
    /\ NextPrimitive(p)
    /\ UNCHANGED <<s_spi, at, area, icon, panel, asked>>

\* One call of a primitive.  ili9486_draw_text sends a window and its pixels once
\* per dot of its glyphs, all under one lock, and every window lies in the icon;
\* one frame over the area stands for them.
Paint(p) == fill_nothing(p) \/ lock_bus(p) \/ SendItem(p) \/ unlock_bus(p)

Next ==
    \E p \in Painters :
        \/ \E a \in Areas, i \in Icons : DrawIcon(p, a, i)
        \/ Paint(p)

Spec == Init /\ [][Next]_vars

\* Tasks are scheduled.  A painter sleeps between two icons, so the mutex is free
\* again and again while another waits, and is not always lost to the first.
FairSpec ==
    /\ Spec
    /\ \A p \in Painters : /\ WF_vars(fill_nothing(p) \/ SendItem(p) \/ unlock_bus(p))
                           /\ SF_vars(lock_bus(p))

-----------------------------------------------------------------------------
TypeOK ==
    /\ s_spi \in BOOLEAN
    /\ s_lock \in Painters \cup {None}
    /\ pc \in [Painters -> {"idle", "wait", "send"}]
    /\ at \in [Painters -> 1 .. FrameEnd + 1]
    /\ area \in [Painters -> Areas \cup {None}]
    /\ icon \in [Painters -> Colors] /\ color \in [Painters -> Colors]
    /\ dc \in {"low", "high"}
    /\ command \in {"CASET", "PASET", "RAMWR"}
    /\ cols \in Areas \cup {None} /\ rows \in Areas \cup {None}
    /\ cursor \in Pixels
    /\ screen \in [Areas -> [Pixels -> Colors]]
    /\ asked \in [Areas -> Colors]

\* Whatever the other tasks paint meanwhile, an area nobody is painting shows
\* the icon that was asked for last, every pixel of it, if the panel was
\* initialised; otherwise no byte reaches it.
IconsIntact ==
    \A a \in Areas :
        ~(pc[Owner[a]] # "idle" /\ area[Owner[a]] = a) =>
            \A i \in Pixels : screen[a][i] = IF s_spi THEN asked[a] ELSE Black

\* No pixel lands in an area that its sender is not painting.
OwnAreaOnly ==
    [][\A p \in Painters, a \in Areas :
          at'[p] # at[p] /\ screen'[a] # screen[a] => area[p] = a]_vars

\* A call that paints an icon returns: nobody waits for the lock for ever.
PaintEnds == \A p \in Painters : pc[p] # "idle" ~> pc[p] = "idle"
=============================================================================
