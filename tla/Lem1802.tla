------------------------------ MODULE Lem1802 ------------------------------
(***************************************************************************)
(* The LEM1802 screen of libdcpu-vm (hwlem1802.c, hwlem1802mem.c).  The    *)
(* write hook only marks the screen or the border as out of date; the      *)
(* 60 Hz hook redraws what is marked into a texture and uploads it when it *)
(* changed.  A picture is abstracted to the words it is drawn from.        *)
(***************************************************************************)
EXTENDS Integers

CONSTANTS
    Word,         \* values of a memory cell
    RAM,          \* cells of memory
    CELLS,        \* words of the screen: 0x180
    FONT,         \* words of a font: 0x100
    COLORS,       \* words of a palette: 16
    Locations,    \* addresses programs map or dump to; 0 disconnects
    BLINK,        \* 60 Hz ticks between two blinks: 60
    Default       \* the built-in font and palette, as a word

ASSUME SizeAssumption ==
    /\ {CELLS, FONT, COLORS, BLINK} \subseteq Nat \ {0} /\ RAM \in Nat
    /\ Default \in Word
\* A mapped region ends inside memory (the device does not test that).
ASSUME LocationAssumption ==
    0 \in Locations /\ \A l \in Locations : l \in Nat /\ \A n \in {CELLS, FONT, COLORS} : l + n <= RAM

VARIABLES
    ram,
    screen_location, font_location, palette_location, border_color,
    border_was_updated, screen_was_updated, texture_has_changed,
    blink_status, blink_tick, window_closed,
    texture,     \* glfw_texture: what the screen area and the border were drawn from
    uploaded,    \* the texture the window shows
    exit,        \* vm->exit
    missed       \* parts that may be wrong although they are not marked

mapping == <<screen_location, font_location, palette_location, border_color>>
flags == <<border_was_updated, screen_was_updated>>
display == <<texture_has_changed, blink_status, blink_tick, texture, uploaded>>
vars == <<ram, mapping, flags, display, window_closed, exit, missed>>

Disconnected == 0
Parts == {"screen", "border"}
Words(l, n) == [i \in 0 .. n - 1 |-> IF l = 0 THEN Default ELSE ram[l + i]]
Black == << >>

\* What put_char_to_screen draws every cell from, and the border's colour.
Drawn(blink) ==
    IF screen_location = Disconnected THEN Black
    ELSE [screen |-> Words(screen_location, CELLS), font |-> Words(font_location, FONT),
          palette |-> Words(palette_location, COLORS), blink |-> blink]
Picture == Drawn(blink_status)
Border == <<Words(palette_location, COLORS)[border_color]>>

Init ==
    /\ ram = [x \in 0 .. RAM - 1 |-> Default]
    /\ screen_location = Disconnected /\ font_location = 0 /\ palette_location = 0
    /\ border_color = 0 /\ border_was_updated = TRUE /\ screen_was_updated = TRUE
    /\ texture_has_changed = TRUE /\ blink_status = 1 /\ blink_tick = 0
    /\ window_closed = FALSE /\ exit = FALSE /\ missed = {}
    /\ texture = [screen |-> Black, border |-> Black] /\ uploaded = texture

-----------------------------------------------------------------------------
(* The machine's stores *)

InRegion(pos, l, n) == l # 0 /\ pos \in l .. l + n - 1

\* Mutant: a store into the font is not noticed.
write_NoFont(pos) ==
    /\ screen_was_updated' = (screen_was_updated \/ InRegion(pos, screen_location, CELLS)
                                \/ InRegion(pos, palette_location, COLORS))
    /\ UNCHANGED border_was_updated

\* The write hook: the first region that holds pos decides.
write(pos) ==
    LET screen == InRegion(pos, screen_location, CELLS)
        font == InRegion(pos, font_location, FONT)
        palette == InRegion(pos, palette_location, COLORS)
    IN  /\ screen_was_updated' = (screen_was_updated \/ screen \/ font \/ palette)
        /\ border_was_updated' = (border_was_updated \/ (palette /\ ~screen /\ ~font))

\* A palette cell that also lies in the screen or in the font.
Shadowed(pos) == /\ InRegion(pos, palette_location, COLORS)
                 /\ InRegion(pos, screen_location, CELLS) \/ InRegion(pos, font_location, FONT)

Store(pos, w) ==
    /\ ~exit /\ ram' = [ram EXCEPT ![pos] = w] /\ write(pos)
    /\ missed' = IF Shadowed(pos) THEN missed \cup {"border"} ELSE missed
    /\ UNCHANGED <<mapping, display, window_closed, exit>>

\* JSR and interrupts push, and the disk drive transfers, without the hook.
StoreUnhooked(pos, w) ==
    /\ ~exit /\ ram' = [ram EXCEPT ![pos] = w] /\ missed' = Parts
    /\ UNCHANGED <<mapping, flags, display, window_closed, exit>>

-----------------------------------------------------------------------------
(* Commands *)

MapScreen(b) ==
    /\ ~exit /\ screen_location' = b /\ screen_was_updated' = TRUE
    /\ UNCHANGED <<ram, font_location, palette_location, border_color,
                   border_was_updated, display, window_closed, exit, missed>>

MapFont(b) ==
    /\ ~exit /\ font_location' = b /\ screen_was_updated' = TRUE
    /\ UNCHANGED <<ram, screen_location, palette_location, border_color,
                   border_was_updated, display, window_closed, exit, missed>>

\* Mutant: the border keeps the old palette.
MapPalette_NoBorder(b) ==
    /\ ~exit /\ palette_location' = b /\ screen_was_updated' = TRUE
    /\ UNCHANGED <<ram, screen_location, font_location, border_color, border_was_updated,
                   display, window_closed, exit, missed>>

MapPalette(b) ==
    /\ ~exit /\ palette_location' = b /\ screen_was_updated' = TRUE /\ border_was_updated' = TRUE
    /\ UNCHANGED <<ram, screen_location, font_location, border_color,
                   display, window_closed, exit, missed>>

SetBorder(c) ==
    /\ ~exit /\ border_color' = c /\ border_was_updated' = TRUE
    /\ UNCHANGED <<ram, screen_location, font_location, palette_location,
                   screen_was_updated, display, window_closed, exit, missed>>

\* DUMP_FONT and DUMP_PALETTE store the built-in table without the hook.
Dump(b, n) ==
    /\ ~exit /\ ram' = [x \in DOMAIN ram |-> IF x \in b .. b + n - 1 THEN Default ELSE ram[x]]
    /\ missed' = Parts
    /\ UNCHANGED <<mapping, flags, display, window_closed, exit>>

-----------------------------------------------------------------------------
(* The 60 Hz hook, and the break hook, which calls it *)

\* A disconnected screen is redrawn and takes the border with it.
Wipes(redraw) == redraw /\ screen_location = Disconnected /\ ~border_was_updated

\* update_texture: with no screen mapped the whole texture turns black, the
\* border with it, and only a marked border is drawn again.
update_texture(redraw, blink) ==
    texture' = [screen |-> IF redraw THEN Drawn(blink) ELSE texture.screen,
                border |-> IF border_was_updated THEN Border
                           ELSE IF Wipes(redraw) THEN Black
                           ELSE texture.border]

\* Mutant: one tick late.
Blinks_Late == blink_tick > BLINK

Blinks == blink_tick >= BLINK

\* Mutant: a blink does not mark the screen.
Redraw_NoBlink == screen_was_updated

Redraw == screen_was_updated \/ Blinks

\* Mutant: a new picture is not uploaded.
Upload_NotRedrawn == texture_has_changed \/ border_was_updated

Upload == texture_has_changed \/ Redraw \/ border_was_updated

Tick ==
    /\ ~exit /\ ~window_closed
    /\ blink_tick' = IF Blinks THEN 0 ELSE blink_tick + 1
    /\ blink_status' = IF Blinks THEN 1 - blink_status ELSE blink_status
    /\ update_texture(Redraw, blink_status')
    /\ screen_was_updated' = FALSE /\ border_was_updated' = FALSE
    /\ uploaded' = IF Upload THEN texture' ELSE uploaded
    /\ texture_has_changed' = FALSE
    /\ missed' = (missed \ ((IF Redraw THEN {"screen"} ELSE {})
                             \cup (IF border_was_updated THEN {"border"} ELSE {})))
                  \cup (IF Wipes(Redraw) THEN {"border"} ELSE {})
    /\ UNCHANGED <<ram, mapping, window_closed, exit>>

\* The user closes the window; the next tick stops the machine.
Close ==
    /\ ~exit /\ ~window_closed /\ window_closed' = TRUE
    /\ UNCHANGED <<ram, mapping, flags, display, exit, missed>>

TickClosed ==
    /\ window_closed /\ ~exit /\ exit' = TRUE
    /\ UNCHANGED <<ram, mapping, flags, display, window_closed, missed>>

Next == \/ \E pos \in 0 .. RAM - 1, w \in Word : Store(pos, w) \/ StoreUnhooked(pos, w)
        \/ \E b \in Locations : MapScreen(b) \/ MapFont(b) \/ MapPalette(b)
        \/ \E b \in Locations, n \in {FONT, COLORS} : Dump(b, n)
        \/ \E c \in 0 .. COLORS - 1 : SetBorder(c)
        \/ Tick \/ Close \/ TickClosed

Spec == Init /\ [][Next]_vars

\* The 60 Hz hooks run again and again as long as the machine does.
FairSpec == Spec /\ WF_vars(Tick) /\ WF_vars(TickClosed)

-----------------------------------------------------------------------------
(* Properties *)

\* The flags are flags and the regions lie where programs mapped them.
TypeOK ==
    /\ ram \in [0 .. RAM - 1 -> Word]
    /\ {screen_location, font_location, palette_location} \subseteq Locations
    /\ border_color \in 0 .. COLORS - 1 /\ blink_status \in {0, 1} /\ blink_tick \in 0 .. BLINK
    /\ {border_was_updated, screen_was_updated, texture_has_changed,
        window_closed, exit} \subseteq BOOLEAN
    /\ missed \subseteq Parts

\* A screen that is not marked shows what memory, fonts, palette and mapping
\* say now, unless a store bypassed the write hook since it was drawn.
ScreenIsCurrent ==
    ~screen_was_updated /\ "screen" \notin missed => texture.screen = Picture

\* The window shows the texture unless a new one waits for upload.
WindowShowsTexture == ~texture_has_changed => uploaded = texture

\* A store that bypassed the write hook does not stay invisible: the blink
\* redraws the screen, unless the user closes the window.
ScreenHeals == ("screen" \in missed) ~> ("screen" \notin missed \/ window_closed)

\* border_was_updated is "for efficiency": an unmarked border has its colour.
\* Three ways of losing it are not marked: a store the hook was not told of, a
\* store into a palette that overlaps the screen or the font, and a redraw
\* while no screen is mapped, which turns the border black as well.
BorderIsCurrent ==
    ~border_was_updated /\ "border" \notin missed => texture.border = Border

\* The chain from memory to the window: characters, border and uploaded
\* texture are current unless a flag says that they wait, and the flags and
\* regions keep their types.
DisplayInv == TypeOK /\ ScreenIsCurrent /\ BorderIsCurrent /\ WindowShowsTexture
=============================================================================
