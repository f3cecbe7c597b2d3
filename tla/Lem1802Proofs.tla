--------------------------- MODULE Lem1802Proofs ---------------------------
(***************************************************************************)
(* Proof that the screen's picture is current for every memory, mapping    *)
(* and sequence of stores and commands.  DisplayInv becomes inductive once *)
(* the texture is known to consist of a screen area and a border alone.    *)
(***************************************************************************)
EXTENDS Lem1802, TLAPS

\* A tick that redraws nothing leaves the very same texture.
TextureShape == texture = [screen |-> texture.screen, border |-> texture.border]

\* The inductive invariant.
LInv == DisplayInv /\ TextureShape

LEMMA LInit == Init => LInv
  <1> SUFFICES ASSUME Init PROVE LInv
    OBVIOUS
  <1>1. TypeOK
    <2>1. /\ CELLS \in Nat /\ COLORS \in Nat /\ COLORS # 0 /\ BLINK \in Nat
          /\ RAM \in Nat /\ Default \in Word /\ 0 \in Locations
      BY SizeAssumption, LocationAssumption
    <2>2. ram \in [0 .. RAM - 1 -> Word]
      BY <2>1 DEF Init
    <2>3. /\ {screen_location, font_location, palette_location} \subseteq Locations
          /\ border_color \in 0 .. COLORS - 1 /\ blink_status \in {0, 1}
          /\ blink_tick \in 0 .. BLINK /\ missed \subseteq Parts
      BY <2>1 DEF Init, Disconnected
    <2>4. {border_was_updated, screen_was_updated, texture_has_changed,
           window_closed, exit} \subseteq BOOLEAN
      BY DEF Init
    <2> QED BY <2>2, <2>3, <2>4 DEF TypeOK
  <1>2. ScreenIsCurrent /\ BorderIsCurrent /\ WindowShowsTexture /\ TextureShape
    BY DEF Init, ScreenIsCurrent, BorderIsCurrent, WindowShowsTexture, TextureShape
  <1> QED BY <1>1, <1>2 DEF LInv, DisplayInv

\* A mapped table is what it was when neither its place nor its words changed.
LEMMA WordsKept ==
    ASSUME TypeOK, NEW l \in Locations, NEW n \in {CELLS, FONT, COLORS},
           NEW pos \in 0 .. RAM - 1, NEW w, ram' = [ram EXCEPT ![pos] = w],
           ~InRegion(pos, l, n)
    PROVE  Words(l, n)' = Words(l, n)
  <1>1. l \in Nat /\ n \in Nat /\ l + n <= RAM /\ RAM \in Nat
    BY SizeAssumption, LocationAssumption
  <1>2. ASSUME NEW i \in 0 .. n - 1, l # 0 PROVE ram'[l + i] = ram[l + i]
    <2>1. l + i \in 0 .. RAM - 1 /\ l + i \in l .. l + n - 1
      BY <1>1
    <2>2. l + i # pos
      BY <1>2, <2>1 DEF InRegion
    <2> QED BY <2>1, <2>2 DEF TypeOK
  <1> QED BY <1>2 DEF Words

\* The pictures depend on memory and mapping alone.
LEMMA PictureKept ==
    ASSUME UNCHANGED <<ram, mapping, blink_status>>
    PROVE  Picture' = Picture /\ Border' = Border
  BY DEF mapping, Picture, Border, Drawn, Words

LEMMA StoreInv ==
    ASSUME LInv, NEW pos \in 0 .. RAM - 1, NEW w \in Word, Store(pos, w)
    PROVE  LInv'
  <1> DEFINE s == InRegion(pos, screen_location, CELLS)
             f == InRegion(pos, font_location, FONT)
             p == InRegion(pos, palette_location, COLORS)
  <1>1. /\ UNCHANGED <<mapping, display, window_closed, exit>>
        /\ ram' = [ram EXCEPT ![pos] = w]
        /\ screen_was_updated' <=> (screen_was_updated \/ s \/ f \/ p)
        /\ border_was_updated' <=> (border_was_updated \/ (p /\ ~s /\ ~f))
        /\ screen_was_updated' \in BOOLEAN /\ border_was_updated' \in BOOLEAN
        /\ missed' = IF p /\ (s \/ f) THEN missed \cup {"border"} ELSE missed
    BY Zenon DEF Store, write, Shadowed, LInv, DisplayInv, TypeOK
  <1>2. screen_location \in Locations /\ font_location \in Locations /\ palette_location \in Locations
    BY DEF LInv, DisplayInv, TypeOK
  <1>3. ~s => Words(screen_location, CELLS)' = Words(screen_location, CELLS)
    BY <1>1, <1>2, WordsKept DEF LInv, DisplayInv, mapping
  <1>4. ~f => Words(font_location, FONT)' = Words(font_location, FONT)
    BY <1>1, <1>2, WordsKept DEF LInv, DisplayInv, mapping
  <1>5. ~p => Words(palette_location, COLORS)' = Words(palette_location, COLORS)
    BY <1>1, <1>2, WordsKept DEF LInv, DisplayInv, mapping
  <1> HIDE DEF s, f, p
  <1>6. TypeOK'
    <2>1. ram' \in [0 .. RAM - 1 -> Word]
      BY <1>1 DEF LInv, DisplayInv, TypeOK
    <2>2. missed' \subseteq Parts
      BY <1>1 DEF LInv, DisplayInv, TypeOK, Parts
    <2> QED BY <1>1, <2>1, <2>2 DEF LInv, DisplayInv, TypeOK, mapping, display
  <1>7. ScreenIsCurrent'
    <2> SUFFICES ASSUME ~screen_was_updated', "screen" \notin missed' PROVE texture'.screen = Picture'
      BY DEF ScreenIsCurrent
    <2>1. ~screen_was_updated /\ ~s /\ ~f /\ ~p /\ "screen" \notin missed
      BY <1>1
    <2>2. Picture' = Picture
      BY <1>1, <1>3, <1>4, <1>5, <2>1 DEF Picture, Drawn, mapping, display
    <2> QED BY <1>1, <2>1, <2>2 DEF LInv, DisplayInv, ScreenIsCurrent, display
  <1>8. BorderIsCurrent'
    <2> SUFFICES ASSUME ~border_was_updated', "border" \notin missed' PROVE texture'.border = Border'
      BY DEF BorderIsCurrent
    <2>1. ~border_was_updated /\ ~p /\ "border" \notin missed
      BY <1>1
    <2>2. Border' = Border
      BY <1>1, <1>5, <2>1 DEF Border, mapping
    <2> QED BY <1>1, <2>1, <2>2 DEF LInv, DisplayInv, BorderIsCurrent, display
  <1>9. WindowShowsTexture' /\ TextureShape'
    BY <1>1 DEF LInv, DisplayInv, WindowShowsTexture, TextureShape, display
  <1> QED BY <1>6, <1>7, <1>8, <1>9 DEF LInv, DisplayInv

\* What bypasses the hook may only touch memory, and everything is suspect.
LEMMA UnhookedInv ==
    ASSUME LInv, ram' \in [0 .. RAM - 1 -> Word], missed' = Parts,
           UNCHANGED <<mapping, flags, display, window_closed, exit>>
    PROVE  LInv'
  <1>1. TypeOK'
    BY DEF LInv, DisplayInv, TypeOK, mapping, flags, display
  <1>2. ScreenIsCurrent' /\ BorderIsCurrent'
    BY DEF ScreenIsCurrent, BorderIsCurrent, Parts
  <1>3. WindowShowsTexture' /\ TextureShape'
    BY DEF LInv, DisplayInv, WindowShowsTexture, TextureShape, display
  <1> QED BY <1>1, <1>2, <1>3 DEF LInv, DisplayInv

LEMMA MapInv ==
    ASSUME LInv, NEW b \in Locations, MapScreen(b) \/ MapFont(b) \/ MapPalette(b)
    PROVE  LInv'
  <1>1. TypeOK'
    BY DEF MapScreen, MapFont, MapPalette, LInv, DisplayInv, TypeOK, display
  <1>2. ScreenIsCurrent'
    BY DEF MapScreen, MapFont, MapPalette, ScreenIsCurrent
  <1>3. BorderIsCurrent'
    <2>1. CASE MapPalette(b)
      BY <2>1 DEF MapPalette, BorderIsCurrent
    <2>2. CASE MapScreen(b) \/ MapFont(b)
      <3>1. UNCHANGED <<ram, palette_location, border_color, border_was_updated, display, missed>>
        BY <2>2 DEF MapScreen, MapFont
      <3>2. Border' = Border
        BY <3>1 DEF Border, Words
      <3> QED BY <3>1, <3>2 DEF LInv, DisplayInv, BorderIsCurrent, display
    <2> QED BY <2>1, <2>2
  <1>4. WindowShowsTexture' /\ TextureShape'
    BY DEF MapScreen, MapFont, MapPalette, LInv, DisplayInv, WindowShowsTexture, TextureShape, display
  <1> QED BY <1>1, <1>2, <1>3, <1>4 DEF LInv, DisplayInv

LEMMA SetBorderInv ==
    ASSUME LInv, NEW c \in 0 .. COLORS - 1, SetBorder(c)
    PROVE  LInv'
  <1>1. TypeOK'
    BY DEF SetBorder, LInv, DisplayInv, TypeOK, display
  <1>2. Picture' = Picture
    BY DEF SetBorder, display, Picture, Drawn, Words
  <1>3. ScreenIsCurrent' /\ BorderIsCurrent'
    BY <1>2 DEF SetBorder, LInv, DisplayInv, ScreenIsCurrent, BorderIsCurrent, display
  <1>4. WindowShowsTexture' /\ TextureShape'
    BY DEF SetBorder, LInv, DisplayInv, WindowShowsTexture, TextureShape, display
  <1> QED BY <1>1, <1>3, <1>4 DEF LInv, DisplayInv

LEMMA TickInv == LInv /\ Tick => LInv'
  <1> SUFFICES ASSUME LInv, Tick PROVE LInv'
    OBVIOUS
  <1>1. /\ blink_tick' = IF Blinks THEN 0 ELSE blink_tick + 1
        /\ blink_status' = IF Blinks THEN 1 - blink_status ELSE blink_status
        /\ ~screen_was_updated' /\ ~border_was_updated' /\ ~texture_has_changed'
        /\ screen_was_updated' = FALSE /\ border_was_updated' = FALSE /\ texture_has_changed' = FALSE
        /\ uploaded' = IF Upload THEN texture' ELSE uploaded
        /\ UNCHANGED <<ram, mapping, window_closed, exit>>
    BY DEF Tick
  <1>2. texture' = [screen |-> IF Redraw THEN Drawn(blink_status') ELSE texture.screen,
                    border |-> IF border_was_updated THEN Border
                               ELSE IF Wipes(Redraw) THEN Black ELSE texture.border]
    BY DEF Tick, update_texture
  <1>3. /\ "screen" \notin missed' => Redraw \/ "screen" \notin missed
        /\ "border" \notin missed' =>
              (border_was_updated \/ "border" \notin missed) /\ ~Wipes(Redraw)
        /\ missed' \subseteq Parts
    BY DEF Tick, LInv, DisplayInv, TypeOK, Parts
  <1>4. TypeOK'
    <2>1. blink_status' \in {0, 1} /\ blink_tick' \in 0 .. BLINK
      BY <1>1, SizeAssumption DEF LInv, DisplayInv, TypeOK, Blinks
    <2> QED BY <1>1, <1>3, <2>1 DEF LInv, DisplayInv, TypeOK, mapping
  <1>5. ScreenIsCurrent'
    <2> SUFFICES ASSUME "screen" \notin missed' PROVE texture'.screen = Picture'
      BY DEF ScreenIsCurrent
    <2>1. CASE Redraw
      <3>1. Picture' = Drawn(blink_status')
        BY <1>1 DEF Picture, Drawn, Words, mapping
      <3> QED BY <1>2, <2>1, <3>1
    <2>2. CASE ~Redraw
      <3>1. ~screen_was_updated /\ blink_status' = blink_status /\ "screen" \notin missed
        BY <1>1, <1>3, <2>2 DEF Redraw
      <3>2. Picture' = Picture
        BY <1>1, <3>1, PictureKept
      <3> QED BY <1>2, <2>2, <3>1, <3>2 DEF LInv, DisplayInv, ScreenIsCurrent
    <2> QED BY <2>1, <2>2
  <1>6. BorderIsCurrent'
    <2> SUFFICES ASSUME "border" \notin missed' PROVE texture'.border = Border'
      BY DEF BorderIsCurrent
    <2>1. Border' = Border
      BY <1>1 DEF Border, Words, mapping
    <2> QED BY <1>2, <1>3, <2>1 DEF LInv, DisplayInv, BorderIsCurrent
  <1>7. WindowShowsTexture'
    <2>1. ~Upload => texture' = texture
      BY <1>2 DEF Upload, Wipes, LInv, TextureShape
    <2> QED BY <1>1, <2>1 DEF Upload, LInv, DisplayInv, WindowShowsTexture
  <1>8. TextureShape'
    BY <1>2 DEF TextureShape
  <1> QED BY <1>4, <1>5, <1>6, <1>7, <1>8 DEF LInv, DisplayInv

\* Nothing the display depends on changes.
LEMMA WindowInv ==
    ASSUME LInv, UNCHANGED <<ram, mapping, flags, display, missed>>,
           window_closed' \in BOOLEAN, exit' \in BOOLEAN
    PROVE  LInv'
  <1>1. Picture' = Picture /\ Border' = Border
    BY PictureKept DEF display
  <1>2. TypeOK'
    BY DEF LInv, DisplayInv, TypeOK, mapping, flags, display
  <1>3. ScreenIsCurrent' /\ BorderIsCurrent' /\ WindowShowsTexture' /\ TextureShape'
    BY <1>1 DEF LInv, DisplayInv, ScreenIsCurrent, BorderIsCurrent, WindowShowsTexture,
                TextureShape, flags, display
  <1> QED BY <1>2, <1>3 DEF LInv, DisplayInv

LEMMA LNext == LInv /\ [Next]_vars => LInv'
  <1> SUFFICES ASSUME LInv, [Next]_vars PROVE LInv'
    OBVIOUS
  <1>1. CASE \E pos \in 0 .. RAM - 1, w \in Word : Store(pos, w)
    BY <1>1, StoreInv
  <1>2. CASE \E pos \in 0 .. RAM - 1, w \in Word : StoreUnhooked(pos, w)
    <2> PICK pos \in 0 .. RAM - 1, w \in Word : StoreUnhooked(pos, w)
      BY <1>2
    <2>1. ram' \in [0 .. RAM - 1 -> Word]
      BY DEF StoreUnhooked, LInv, DisplayInv, TypeOK
    <2> QED BY <2>1, UnhookedInv DEF StoreUnhooked
  <1>3. CASE \E b \in Locations : MapScreen(b) \/ MapFont(b) \/ MapPalette(b)
    BY <1>3, MapInv
  <1>4. CASE \E b \in Locations, n \in {FONT, COLORS} : Dump(b, n)
    <2> PICK b \in Locations, n \in {FONT, COLORS} : Dump(b, n)
      BY <1>4
    <2>1. ram' \in [0 .. RAM - 1 -> Word]
      BY SizeAssumption DEF Dump, LInv, DisplayInv, TypeOK
    <2> QED BY <2>1, UnhookedInv DEF Dump
  <1>5. CASE \E c \in 0 .. COLORS - 1 : SetBorder(c)
    BY <1>5, SetBorderInv
  <1>6. CASE Tick
    BY <1>6, TickInv
  <1>7. CASE Close \/ TickClosed \/ UNCHANGED vars
    <2>1. UNCHANGED <<ram, mapping, flags, display, missed>>
      BY <1>7 DEF Close, TickClosed, vars
    <2>2. window_closed' \in BOOLEAN /\ exit' \in BOOLEAN
      BY <1>7, Zenon DEF Close, TickClosed, vars, LInv, DisplayInv, TypeOK
    <2> QED BY <2>1, <2>2, WindowInv
  <1> QED BY <1>1, <1>2, <1>3, <1>4, <1>5, <1>6, <1>7 DEF Next

\* Characters, border and uploaded texture are current unless a flag says that
\* they wait or a store bypassed the write hook, for every memory, mapping and
\* order of stores, commands and ticks (vm_hw_lem1802_write, _interrupt, _cycle).
THEOREM DisplayCorrect == Spec => []DisplayInv
  <1>1. LInv => DisplayInv
    BY DEF LInv
  <1> QED BY <1>1, LInit, LNext, PTL DEF Spec
=============================================================================
