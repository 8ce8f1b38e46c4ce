--------------------------- MODULE DesktopProofs ---------------------------
(***************************************************************************)
(* What the desktop shows and where it takes a press, for every ring size, *)
(* every sequence of inputs and every interleaving of the user, gpuid, its *)
(* programs and the requests that hart 0 answers late.                     *)
(***************************************************************************)
EXTENDS Desktop, TLAPS

----------------------------------------------------------------------------
(* The types of what the driver passes on *)

Places == [x : Int, y : Int]
Codes == KeyCodes \cup {"", "X", "Y", "BTN_TOUCH"}
Events ==
    [type : {"SYN", "CHAR", "KEY", "ABS"}, code : Codes, value : Int, made : Places]
Keys == [code : KeyCodes, value : {0, 1}]
Touches == [pressed : BOOLEAN, last_x : Int, last_y : Int, events : Seq(Events)]

DriverTypes ==
    /\ dev \in [chars : Seq(KeyCodes), keys : Seq(Keys), int : BOOLEAN, down : BOOLEAN,
                x : Int, y : Int]
    /\ todo \in Seq(Inputs)
    /\ touch \in Touches
    /\ Len(touch.events) <= RING - 1
    /\ cursor \in Places
    /\ cursor.x < SCREEN_WIDTH /\ cursor.y < SCREEN_HEIGHT

(* A press in the ring has the two halves of its position right before it, *)
(* or, when they have been taken out, in the cursor.                       *)
IsPress(e) == e.type = "KEY" /\ e.code = "BTN_TOUCH" /\ e.value = 1
PlacedAt(q, c, i) ==
    LET m == q[i].made IN
    /\ i >= 3 => q[i - 2] = Event("ABS", "X", m.x, m)
    /\ i >= 2 => q[i - 1] = Event("ABS", "Y", m.y, m)
    /\ i = 2 => c.x = OnScreen(m).x
    /\ i = 1 => c = OnScreen(m)
Placed(q, c) == \A i \in 1 .. Len(q) : IsPress(q[i]) => PlacedAt(q, c, i)
NoPress(es) == \A i \in 1 .. Len(es) : ~IsPress(es[i])

PressInv ==
    /\ DriverTypes
    /\ ~lost => Placed(touch.events, cursor)
    /\ ClickLands

----------------------------------------------------------------------------
(* The ring *)

(* r is q with the first events of es behind it. *)
Follows(q, r, es) ==
    /\ r \in Seq(Events) /\ Len(r) <= RING - 1
    /\ Len(q) <= Len(r) /\ Len(r) <= Len(q) + Len(es)
    /\ \A i \in 1 .. Len(q) : r[i] = q[i]
    /\ \A i \in 1 .. Len(r) : i > Len(q) => r[i] = es[i - Len(q)]

(* The fields of an event.                                                 *)
LEMMA AnEvent ==
    ASSUME NEW t \in {"SYN", "CHAR", "KEY", "ABS"}, NEW c \in Codes, NEW v \in Int,
           NEW m \in Places
    PROVE  /\ Event(t, c, v, m) \in Events
           /\ IsPress(Event(t, c, v, m)) <=> t = "KEY" /\ c = "BTN_TOUCH" /\ v = 1
           /\ Event(t, c, v, m).made = m
<1>1. Event(t, c, v, m) \in Events
    BY DEF Event, Events
<1>2. /\ Event(t, c, v, m).type = t /\ Event(t, c, v, m).code = c
      /\ Event(t, c, v, m).value = v /\ Event(t, c, v, m).made = m
    BY DEF Event
<1> QED
    BY <1>1, <1>2, Zenon DEF IsPress

(* A key is no press.                                                      *)
LEMMA KeyEvent ==
    ASSUME NEW c \in Codes, c # "BTN_TOUCH", NEW v \in Int
    PROVE  /\ Event("KEY", c, v, Nowhere) \in Events
           /\ ~IsPress(Event("KEY", c, v, Nowhere))
<1>1. "KEY" \in {"SYN", "CHAR", "KEY", "ABS"} /\ Nowhere \in Places
    BY DEF Nowhere, Places
<1>2. Event("KEY", c, v, Nowhere) \in Events
    BY <1>1, AnEvent, Zenon
<1>3. Event("KEY", c, v, Nowhere).code = c
    BY DEF Event
<1> QED
    BY <1>2, <1>3, Zenon DEF IsPress

(* What fits behind a events of a ring, of b.                              *)
LEMMA Room ==
    ASSUME NEW a \in Nat, NEW b \in Nat, RING \in Nat, a <= RING - 1
    PROVE  LET k == IF b < RING - 1 - a THEN b ELSE RING - 1 - a
           IN  k \in Nat /\ k <= b /\ a + k <= RING - 1
OBVIOUS

(* One sequence behind another.                                            *)
LEMMA LenCat ==
    ASSUME NEW a \in Seq(Events), NEW b \in Seq(Events)
    PROVE  a \o b \in Seq(Events) /\ Len(a \o b) = Len(a) + Len(b)
OBVIOUS

(* Their elements.                                                         *)
LEMMA ElemCat ==
    ASSUME NEW a \in Seq(Events), NEW b \in Seq(Events)
    PROVE  /\ \A i \in 1 .. Len(a) : (a \o b)[i] = a[i]
           /\ \A i \in 1 .. Len(a) + Len(b) : i > Len(a) => (a \o b)[i] = b[i - Len(a)]
OBVIOUS

(* push_event keeps what is queued, keeps the order of what it adds and    *)
(* drops only from the end (d1_touch.rs).                                  *)
LEMMA Pushed ==
    ASSUME NEW s \in Touches, Len(s.events) <= RING - 1, NEW es \in Seq(Events)
    PROVE  /\ PushAll(s, es) \in Touches
           /\ PushAll(s, es).pressed = s.pressed
           /\ Follows(s.events, PushAll(s, es).events, es)
<1> DEFINE room == RING - 1 - Len(s.events)
           k == IF Len(es) < room THEN Len(es) ELSE room
           new == SubSeq(es, 1, k)
           r == s.events \o new
<1>1. s.events \in Seq(Events) /\ Len(s.events) \in Nat /\ Len(es) \in Nat /\ RING \in Nat
    BY DesktopAssumption DEF Touches
<1>2. k \in Nat /\ k <= Len(es) /\ Len(s.events) + k <= RING - 1
    BY <1>1, Room
<1> HIDE DEF k
<1>3. new \in Seq(Events) /\ Len(new) = k /\ \A i \in 1 .. k : new[i] = es[i]
    BY <1>1, <1>2
<1> HIDE DEF new
<1>4. /\ r \in Seq(Events) /\ Len(r) = Len(s.events) + k
      /\ \A i \in 1 .. Len(s.events) : r[i] = s.events[i]
      /\ \A i \in 1 .. Len(r) : i > Len(s.events) => r[i] = new[i - Len(s.events)]
    <2> DEFINE q == s.events
    <2>1. q \in Seq(Events) /\ Len(q) \in Nat
        BY <1>1
    <2> HIDE DEF q
    <2>2. q \o new \in Seq(Events) /\ Len(q \o new) = Len(q) + k
        BY <1>3, <2>1, LenCat, Zenon
    <2>3. \A i \in 1 .. Len(q) : (q \o new)[i] = q[i]
        BY <1>3, <2>1, ElemCat, Zenon
    <2>4. \A i \in 1 .. Len(q) + k : i > Len(q) => (q \o new)[i] = new[i - Len(q)]
        BY <1>3, <2>1, ElemCat, Zenon
    <2> QED
        BY <2>2, <2>3, <2>4 DEF q
<1>5. PushAll(s, es) = [s EXCEPT !.events = r]
    BY DEF PushAll, new, k
<1> HIDE DEF r
<1>6. /\ PushAll(s, es) \in Touches
      /\ PushAll(s, es).pressed = s.pressed
      /\ PushAll(s, es).events = r
    BY <1>4, <1>5, Zenon DEF Touches
<1>7. \A i \in 1 .. Len(r) : i > Len(s.events) => r[i] = es[i - Len(s.events)]
    <2> SUFFICES ASSUME NEW i \in 1 .. Len(r), i > Len(s.events)
                 PROVE  r[i] = es[i - Len(s.events)]
        OBVIOUS
    <2>1. i - Len(s.events) \in 1 .. k
        BY <1>1, <1>2, <1>4
    <2> QED
        BY <1>3, <1>4, <2>1
<1>8. Follows(s.events, r, es)
    BY <1>1, <1>2, <1>4, <1>7 DEF Follows
<1> QED
    BY <1>6, <1>8

(* A press queued before an append keeps the position before it.           *)
LEMMA NothingPressed ==
    ASSUME NEW q \in Seq(Events), NEW r, NEW es \in Seq(Events), NEW c,
           Follows(q, r, es), NoPress(es), Placed(q, c)
    PROVE  Placed(r, c)
<1> SUFFICES ASSUME NEW i \in 1 .. Len(r), IsPress(r[i])
             PROVE  PlacedAt(r, c, i)
    BY DEF Placed
<1>1. Len(q) \in Nat /\ Len(r) \in Nat /\ Len(es) \in Nat
    BY DEF Follows
<1>2. i <= Len(q)
    <2> SUFFICES ASSUME i > Len(q) PROVE FALSE
        BY <1>1
    <2>1. i - Len(q) \in 1 .. Len(es) /\ r[i] = es[i - Len(q)]
        BY <1>1 DEF Follows
    <2> QED
        BY <2>1 DEF NoPress
<1>3. r[i] = q[i] /\ i \in 1 .. Len(q)
    BY <1>1, <1>2 DEF Follows
<1>4. PlacedAt(q, c, i)
    BY <1>3 DEF Placed
<1>5. i >= 2 => r[i - 1] = q[i - 1]
    BY <1>1, <1>2 DEF Follows
<1>6. i >= 3 => r[i - 2] = q[i - 2]
    BY <1>1, <1>2 DEF Follows
<1> QED
    BY <1>3, <1>4, <1>5, <1>6 DEF PlacedAt

(* A character or key is followed by a SYN, none of which is a press.      *)
LEMMA Separated ==
    ASSUME NEW es \in Seq(Events), NoPress(es)
    PROVE  WithSyns(es) \in Seq(Events) /\ NoPress(WithSyns(es))
<1>1. Len(es) \in Nat
    OBVIOUS
<1>2. Syn \in Events /\ ~IsPress(Syn)
    <2>1. Nowhere \in Places
        BY DEF Nowhere, Places
    <2>2. "" \in Codes /\ "SYN" \in {"SYN", "CHAR", "KEY", "ABS"} /\ "SYN" # "KEY"
        BY DEF Codes
    <2>3. 0 \in Int
        OBVIOUS
    <2> QED
        BY <2>1, <2>2, <2>3, AnEvent, Zenon DEF Syn
<1>3. ASSUME NEW i \in 1 .. 2 * Len(es)
      PROVE  /\ (IF i % 2 = 1 THEN es[(i + 1) \div 2] ELSE Syn) \in Events
             /\ ~IsPress(IF i % 2 = 1 THEN es[(i + 1) \div 2] ELSE Syn)
    <2>1. CASE i % 2 = 1
        <3>1. (i + 1) \div 2 \in 1 .. Len(es)
            BY <1>1
        <3>2. es[(i + 1) \div 2] \in Events
            BY <3>1
        <3> QED
            BY <2>1, <3>1, <3>2 DEF NoPress
    <2>2. CASE i % 2 # 1
        BY <1>2, <2>2
    <2> QED
        BY <2>1, <2>2
<1>4. WithSyns(es) \in [1 .. 2 * Len(es) -> Events]
    BY <1>3 DEF WithSyns
<1>5. 2 * Len(es) \in Nat
    BY <1>1
<1>6. WithSyns(es) \in Seq(Events) /\ Len(WithSyns(es)) = 2 * Len(es)
    BY <1>4, <1>5
<1>7. \A i \in 1 .. 2 * Len(es) : ~IsPress(WithSyns(es)[i])
    BY <1>3 DEF WithSyns
<1> QED
    BY <1>6, <1>7 DEF NoPress

(* r is s after a poll: presses that were placed still are. *)
Kept(s, r, c) ==
    /\ r \in Touches /\ Len(r.events) <= RING - 1
    /\ Placed(s.events, c) => Placed(r.events, c)

(* The characters and the keys of a poll, each an event that is no press.  *)
LEMMA PollSeparated ==
    ASSUME NEW s \in Touches, Len(s.events) <= RING - 1, NEW c,
           NEW es \in Seq(Events), NoPress(es)
    PROVE  Kept(s, PushAll(s, WithSyns(es)), c)
<1>1. WithSyns(es) \in Seq(Events) /\ NoPress(WithSyns(es))
    BY Separated
<1>2. /\ PushAll(s, WithSyns(es)) \in Touches
      /\ Follows(s.events, PushAll(s, WithSyns(es)).events, WithSyns(es))
    BY <1>1, Pushed
<1>3. s.events \in Seq(Events)
    BY DEF Touches
<1>4. Placed(s.events, c) => Placed(PushAll(s, WithSyns(es)).events, c)
    BY <1>1, <1>2, <1>3, NothingPressed
<1> QED
    BY <1>2, <1>4 DEF Kept, Follows

(* Polling the characters places no press.                                 *)
LEMMA PollChars ==
    ASSUME DriverTypes, NEW s \in Touches, Len(s.events) <= RING - 1, NEW c
    PROVE  Kept(s, poll_chars(s), c)
<1> DEFINE es == [i \in DOMAIN dev.chars |-> Event("CHAR", dev.chars[i], 1, Nowhere)]
<1>1. dev.chars \in Seq(KeyCodes) /\ Len(dev.chars) \in Nat
    BY DEF DriverTypes
<1>2. Nowhere \in Places
    BY DEF Nowhere, Places
<1>3. ASSUME NEW i \in DOMAIN dev.chars
      PROVE  /\ Event("CHAR", dev.chars[i], 1, Nowhere) \in Events
             /\ ~IsPress(Event("CHAR", dev.chars[i], 1, Nowhere))
    <2>1. dev.chars[i] \in Codes
        <3>1. dev.chars[i] \in KeyCodes
            BY <1>1
        <3> QED
            BY <3>1 DEF Codes
    <2>2. 1 \in Int /\ "CHAR" \in {"SYN", "CHAR", "KEY", "ABS"} /\ "CHAR" # "KEY"
        OBVIOUS
    <2> QED
        BY <1>2, <2>1, <2>2, AnEvent, Zenon
<1>4. es \in [1 .. Len(dev.chars) -> Events] /\ \A i \in 1 .. Len(dev.chars) : ~IsPress(es[i])
    BY <1>1, <1>3
<1> HIDE DEF es
<1>5. es \in Seq(Events) /\ Len(es) = Len(dev.chars)
    BY <1>1, <1>4
<1>6. NoPress(es)
    BY <1>4, <1>5 DEF NoPress
<1> QED
    BY <1>5, <1>6, PollSeparated DEF poll_chars, es

(* Polling the keys places no press.                                       *)
LEMMA PollKeys ==
    ASSUME DriverTypes, NEW s \in Touches, Len(s.events) <= RING - 1, NEW c
    PROVE  Kept(s, poll_keys(s), c)
<1> DEFINE es == [i \in DOMAIN dev.keys |->
                     Event("KEY", dev.keys[i].code, dev.keys[i].value, Nowhere)]
<1>1. dev.keys \in Seq(Keys) /\ Len(dev.keys) \in Nat
    BY DEF DriverTypes
<1>2. Nowhere \in Places
    BY DEF Nowhere, Places
<1>3. ASSUME NEW i \in DOMAIN dev.keys
      PROVE  /\ Event("KEY", dev.keys[i].code, dev.keys[i].value, Nowhere) \in Events
             /\ ~IsPress(Event("KEY", dev.keys[i].code, dev.keys[i].value, Nowhere))
    <2>1. dev.keys[i] \in Keys
        BY <1>1
    <2>2. /\ dev.keys[i].code \in Codes /\ dev.keys[i].code # "BTN_TOUCH"
          /\ dev.keys[i].value \in Int
        <3>1. dev.keys[i].code \in KeyCodes /\ dev.keys[i].value \in Int
            BY <2>1 DEF Keys
        <3>2. dev.keys[i].code # "BTN_TOUCH"
            BY <3>1, Zenon DEF KeyCodes
        <3> QED
            BY <3>1, <3>2 DEF Codes
    <2> QED
        BY <2>2, KeyEvent, Zenon
<1>4. es \in [1 .. Len(dev.keys) -> Events] /\ \A i \in 1 .. Len(dev.keys) : ~IsPress(es[i])
    BY <1>1, <1>3
<1> HIDE DEF es
<1>5. es \in Seq(Events) /\ Len(es) = Len(dev.keys)
    BY <1>1, <1>4
<1>6. NoPress(es)
    BY <1>4, <1>5 DEF NoPress
<1> QED
    BY <1>5, <1>6, PollSeparated DEF poll_keys, es

(* Two sequences without a press, one behind the other.                    *)
LEMMA NoPressCat ==
    ASSUME NEW a \in Seq(Events), NEW b \in Seq(Events), NoPress(a), NoPress(b)
    PROVE  a \o b \in Seq(Events) /\ NoPress(a \o b)
<1>1. /\ Len(a) \in Nat /\ Len(b) \in Nat
      /\ a \o b \in Seq(Events) /\ Len(a \o b) = Len(a) + Len(b)
    OBVIOUS
<1>2. ASSUME NEW i \in 1 .. Len(a) + Len(b) PROVE ~IsPress((a \o b)[i])
    <2>1. CASE i <= Len(a)
        <3>1. i \in 1 .. Len(a) /\ (a \o b)[i] = a[i]
            BY <1>1, <2>1
        <3> QED
            BY <3>1 DEF NoPress
    <2>2. CASE i > Len(a)
        <3>1. i - Len(a) \in 1 .. Len(b) /\ (a \o b)[i] = b[i - Len(a)]
            BY <1>1, <2>2
        <3> QED
            BY <3>1 DEF NoPress
    <2> QED
        BY <1>1, <2>1, <2>2
<1> QED
    BY <1>1, <1>2 DEF NoPress

(* An event that is no press, alone.                                       *)
LEMMA NoPressOne ==
    ASSUME NEW e \in Events, ~IsPress(e)
    PROVE  <<e>> \in Seq(Events) /\ NoPress(<<e>>)
<1>1. <<e>> \in Seq(Events) /\ Len(<<e>>) = 1 /\ <<e>>[1] = e
    OBVIOUS
<1>2. \A i \in 1 .. 1 : i = 1
    OBVIOUS
<1> QED
    BY <1>1, <1>2, Zenon DEF NoPress

(* An event behind others.                                                 *)
LEMMA OneBehind ==
    ASSUME NEW q \in Seq(Events), NEW e \in Events
    PROVE  /\ q \o <<e>> \in Seq(Events) /\ Len(q \o <<e>>) = Len(q) + 1
           /\ \A i \in 1 .. Len(q) : (q \o <<e>>)[i] = q[i]
           /\ (q \o <<e>>)[Len(q) + 1] = e
<1>1. <<e>> \in Seq(Events) /\ Len(<<e>>) = 1 /\ <<e>>[1] = e /\ Len(q) \in Nat
    OBVIOUS
<1> DEFINE o == <<e>>
<1> HIDE DEF o
<1>2. o \in Seq(Events) /\ Len(o) = 1 /\ o[1] = e
    BY <1>1 DEF o
<1>3. /\ q \o o \in Seq(Events) /\ Len(q \o o) = Len(q) + 1
      /\ \A i \in 1 .. Len(q) : (q \o o)[i] = q[i]
      /\ (q \o o)[Len(q) + 1] = o[1]
    <2>1. q \o o \in Seq(Events) /\ Len(q \o o) = Len(q) + 1
        BY <1>2, LenCat, ZenonT(30)
    <2>2. \A i \in 1 .. Len(q) : (q \o o)[i] = q[i]
        BY <1>2, ElemCat, Zenon
    <2>3. \A i \in 1 .. Len(q) + 1 : i > Len(q) => (q \o o)[i] = o[i - Len(q)]
        BY <1>2, ElemCat, ZenonT(30)
    <2>4. Len(q) + 1 \in 1 .. Len(q) + 1 /\ Len(q) + 1 > Len(q) /\ (Len(q) + 1) - Len(q) = 1
        BY <1>1
    <2> QED
        BY <2>1, <2>2, <2>3, <2>4, Zenon
<1> QED
    BY <1>2, <1>3 DEF o

(* The events of a touch.                                                  *)
LEMMA TouchEvents ==
    ASSUME DriverTypes
    PROVE  /\ Place \in Places /\ Place.x = dev.x /\ Place.y = dev.y
           /\ Event("ABS", "X", dev.x, Place) \in Events
           /\ Event("ABS", "Y", dev.y, Place) \in Events
           /\ Event("KEY", "BTN_TOUCH", 1, Place) \in Events
           /\ Event("KEY", "BTN_TOUCH", 0, Nowhere) \in Events
           /\ Syn \in Events
           /\ ~IsPress(Event("ABS", "X", dev.x, Place))
           /\ ~IsPress(Event("ABS", "Y", dev.y, Place))
           /\ ~IsPress(Event("KEY", "BTN_TOUCH", 0, Nowhere))
           /\ ~IsPress(Syn)
           /\ Event("KEY", "BTN_TOUCH", 1, Place).made = Place
<1>1. dev.x \in Int /\ dev.y \in Int /\ 0 \in Int /\ 1 \in Int /\ 0 # 1
    BY DEF DriverTypes
<1>2. Place \in Places /\ Place.x = dev.x /\ Place.y = dev.y /\ Nowhere \in Places
    BY <1>1 DEF Place, Places, Nowhere
<1>3. "" \in Codes /\ "X" \in Codes /\ "Y" \in Codes /\ "BTN_TOUCH" \in Codes
    BY Zenon DEF Codes
<1>4. /\ "SYN" \in {"SYN", "CHAR", "KEY", "ABS"} /\ "KEY" \in {"SYN", "CHAR", "KEY", "ABS"}
      /\ "ABS" \in {"SYN", "CHAR", "KEY", "ABS"} /\ "ABS" # "KEY" /\ "SYN" # "KEY"
    OBVIOUS
<1>5. /\ Event("ABS", "X", dev.x, Place) \in Events
      /\ ~IsPress(Event("ABS", "X", dev.x, Place))
    BY <1>1, <1>2, <1>3, <1>4, AnEvent, Zenon
<1>6. /\ Event("ABS", "Y", dev.y, Place) \in Events
      /\ ~IsPress(Event("ABS", "Y", dev.y, Place))
    BY <1>1, <1>2, <1>3, <1>4, AnEvent, Zenon
<1>7. /\ Event("KEY", "BTN_TOUCH", 0, Nowhere) \in Events
      /\ ~IsPress(Event("KEY", "BTN_TOUCH", 0, Nowhere))
    <2>1. /\ Event("KEY", "BTN_TOUCH", 0, Nowhere) \in Events
          /\ IsPress(Event("KEY", "BTN_TOUCH", 0, Nowhere))
             <=> /\ "KEY" = "KEY" /\ "BTN_TOUCH" = "BTN_TOUCH" /\ 0 = 1
        BY <1>1, <1>2, <1>3, <1>4, AnEvent, Zenon
    <2> QED
        BY <1>1, <2>1
<1>8. /\ Event("KEY", "BTN_TOUCH", 1, Place) \in Events
      /\ Event("KEY", "BTN_TOUCH", 1, Place).made = Place
    <2>1. Event("KEY", "BTN_TOUCH", 1, Place) \in Events
        BY <1>1, <1>2, <1>3, <1>4, AnEvent, Zenon
    <2>2. Event("KEY", "BTN_TOUCH", 1, Place).made = Place
        BY DEF Event
    <2> QED
        BY <2>1, <2>2
<1>9. Syn \in Events /\ ~IsPress(Syn)
    BY <1>1, <1>2, <1>3, <1>4, AnEvent, Zenon DEF Syn
<1> QED
    BY <1>2, <1>5, <1>6, <1>7, <1>8, <1>9, Zenon

(* A press comes with its position: behind both halves of it, or not at    *)
(* all, when the ring is full (d1_touch.rs).                               *)
LEMMA PressPlaced ==
    ASSUME DriverTypes, NEW q \in Seq(Events), NEW r, NEW c, Placed(q, c),
           NEW es, Len(es) = 4,
           es[1] = Event("ABS", "X", dev.x, Place), es[2] = Event("ABS", "Y", dev.y, Place),
           es[3] = Event("KEY", "BTN_TOUCH", 1, Place), es[4] = Syn,
           Follows(q, r, es)
    PROVE  Placed(r, c)
<1> SUFFICES ASSUME NEW i \in 1 .. Len(r), IsPress(r[i])
             PROVE  PlacedAt(r, c, i)
    BY DEF Placed
<1>1. Len(q) \in Nat /\ Len(r) \in Nat /\ Len(es) = 4
    BY DEF Follows
<1>2. CASE i <= Len(q)
    <2>1. r[i] = q[i] /\ i \in 1 .. Len(q)
        BY <1>1, <1>2 DEF Follows
    <2>2. PlacedAt(q, c, i)
        BY <2>1 DEF Placed
    <2>3. i >= 2 => r[i - 1] = q[i - 1]
        BY <1>1, <1>2 DEF Follows
    <2>4. i >= 3 => r[i - 2] = q[i - 2]
        BY <1>1, <1>2 DEF Follows
    <2> QED
        BY <2>1, <2>2, <2>3, <2>4 DEF PlacedAt
<1>3. CASE i > Len(q)
    <2> HIDE DEF Follows
    <2>0. Len(r) <= Len(q) + Len(es) /\ r[i] = es[i - Len(q)]
        BY <1>1, <1>3, Zenon DEF Follows
    <2>1. r[i] = es[i - Len(q)] /\ i - Len(q) \in 1 .. 4
        BY <1>1, <1>3, <2>0
    <2>2. i - Len(q) = 3
        BY <2>1, TouchEvents
    <2>3. i - 1 \in 1 .. Len(r) /\ i - 2 \in 1 .. Len(r)
        BY <1>1, <2>2
    <2>4. r[i - 1] = es[2] /\ r[i - 2] = es[1] /\ r[i] = es[3]
        <3>1. \A j \in 1 .. Len(r) : j > Len(q) => r[j] = es[j - Len(q)]
            BY Zenon DEF Follows
        <3>2. /\ i - 1 > Len(q) /\ i - 2 > Len(q)
              /\ (i - 1) - Len(q) = 2 /\ (i - 2) - Len(q) = 1
            BY <1>1, <2>2
        <3> QED
            BY <2>1, <2>2, <2>3, <3>1, <3>2, Zenon
    <2>5. r[i].made = Place /\ Place.x = dev.x /\ Place.y = dev.y
        BY <2>4, TouchEvents
    <2> QED
        BY <1>1, <2>2, <2>4, <2>5, SMTT(30) DEF PlacedAt
<1> QED
    BY <1>1, <1>2, <1>3

(* Polling the touch position.                                             *)
LEMMA PollTouch ==
    ASSUME DriverTypes, NEW s \in Touches, Len(s.events) <= RING - 1, NEW c
    PROVE  Kept(s, poll_touch(s), c)
<1> DEFINE down == [s EXCEPT !.pressed = TRUE, !.last_x = dev.x, !.last_y = dev.y]
           up == [s EXCEPT !.pressed = FALSE]
           press == Event("KEY", "BTN_TOUCH", 1, Place)
           release == Event("KEY", "BTN_TOUCH", 0, Nowhere)
           ax == Event("ABS", "X", dev.x, Place)
           ay == Event("ABS", "Y", dev.y, Place)
<1>1. /\ down \in Touches /\ down.events = s.events
      /\ up \in Touches /\ up.events = s.events
      /\ s.events \in Seq(Events)
    BY Zenon DEF DriverTypes, Touches
<1>2. /\ ax \in Events /\ ~IsPress(ax) /\ ay \in Events /\ ~IsPress(ay)
      /\ press \in Events /\ release \in Events /\ ~IsPress(release)
      /\ Syn \in Events /\ ~IsPress(Syn)
    BY TouchEvents, Zenon
<1>3. CASE ~dev.int \/ (~dev.down /\ ~s.pressed)
    <2>1. poll_touch(s) = s
        BY <1>3 DEF poll_touch
    <2> QED
        BY <2>1, Zenon DEF Kept
<1>4. CASE dev.int /\ dev.down /\ s.pressed
    <2> DEFINE mx == IF dev.x # s.last_x \/ ~s.pressed THEN <<ax>> ELSE <<>>
               my == IF dev.y # s.last_y \/ ~s.pressed THEN <<ay>> ELSE <<>>
               es == ((mx \o my) \o <<>>) \o <<Syn>>
    <2>1. poll_touch(s) = PushAll(down, es)
        BY <1>4 DEF poll_touch, Moved
    <2>2. <<>> \in Seq(Events) /\ NoPress(<<>>)
        BY DEF NoPress
    <2>3. mx \in Seq(Events) /\ NoPress(mx) /\ my \in Seq(Events) /\ NoPress(my)
        BY <1>2, <2>2, NoPressOne, Zenon
    <2>4. <<Syn>> \in Seq(Events) /\ NoPress(<<Syn>>)
        BY <1>2, NoPressOne, Zenon
    <2> HIDE DEF mx, my, down
    <2>5. es \in Seq(Events) /\ NoPress(es)
        BY <2>2, <2>3, <2>4, NoPressCat, Zenon
    <2> HIDE DEF es
    <2>6. /\ PushAll(down, es) \in Touches
          /\ Follows(s.events, PushAll(down, es).events, es)
        BY <1>1, <2>5, Pushed
    <2>7. Placed(s.events, c) => Placed(PushAll(down, es).events, c)
        BY <1>1, <2>5, <2>6, NothingPressed
    <2> QED
        BY <2>1, <2>6, <2>7, Zenon DEF Kept, Follows
<1>5. CASE dev.int /\ dev.down /\ ~s.pressed
    <2> DEFINE two == <<ax>> \o <<ay>>
               three == two \o <<press>>
               es == three \o <<Syn>>
    <2>1. poll_touch(s) = PushAll(down, es)
        BY <1>5 DEF poll_touch, Moved
    <2> HIDE DEF ax, ay, press, down
    <2>2. two \in Seq(Events) /\ Len(two) = 2 /\ two[1] = ax /\ two[2] = ay
        BY <1>2
    <2> HIDE DEF two
    <2>3. /\ three \in Seq(Events) /\ Len(three) = 3
          /\ three[1] = ax /\ three[2] = ay /\ three[3] = press
        <3>1. /\ three \in Seq(Events) /\ Len(three) = Len(two) + 1
              /\ \A i \in 1 .. Len(two) : three[i] = two[i]
              /\ three[Len(two) + 1] = press
            BY <1>2, <2>2, OneBehind, Zenon
        <3> HIDE DEF three
        <3> QED
            BY <2>2, <3>1
    <2> HIDE DEF three
    <2>4. /\ es \in Seq(Events) /\ Len(es) = 4
          /\ es[1] = ax /\ es[2] = ay /\ es[3] = press /\ es[4] = Syn
        <3>1. /\ es \in Seq(Events) /\ Len(es) = Len(three) + 1
              /\ \A i \in 1 .. Len(three) : es[i] = three[i]
              /\ es[Len(three) + 1] = Syn
            BY <1>2, <2>3, OneBehind, Zenon
        <3> HIDE DEF es
        <3> QED
            BY <2>3, <3>1
    <2> HIDE DEF es
    <2>5. /\ PushAll(down, es) \in Touches
          /\ Follows(s.events, PushAll(down, es).events, es)
        BY <1>1, <2>4, Pushed
    <2>6. Placed(s.events, c) => Placed(PushAll(down, es).events, c)
        BY <1>1, <2>5, <2>4, PressPlaced, Zenon DEF ax, ay, press
    <2> QED
        BY <2>1, <2>5, <2>6, Zenon DEF Kept, Follows
<1>6. CASE dev.int /\ ~dev.down /\ s.pressed
    <2> DEFINE es == <<release, Syn>>
    <2>1. poll_touch(s) = PushAll(up, es)
        BY <1>6 DEF poll_touch
    <2> HIDE DEF release, up
    <2>2. es \in Seq(Events) /\ Len(es) = 2 /\ es[1] = release /\ es[2] = Syn
        BY <1>2
    <2>3. NoPress(es)
        BY <1>2, <2>2 DEF NoPress
    <2> HIDE DEF es
    <2>4. /\ PushAll(up, es) \in Touches
          /\ Follows(s.events, PushAll(up, es).events, es)
        BY <1>1, <2>2, Pushed
    <2>5. Placed(s.events, c) => Placed(PushAll(up, es).events, c)
        BY <1>1, <2>2, <2>3, <2>4, NothingPressed
    <2> QED
        BY <2>1, <2>4, <2>5, Zenon DEF Kept, Follows
<1> QED
    BY <1>3, <1>4, <1>5, <1>6, Zenon

(* A whole poll keeps every press placed, and empties the registers.       *)
LEMMA PollKeeps ==
    ASSUME DriverTypes, d1_touch_poll, NEW c
    PROVE  /\ Kept(touch, touch', c)
           /\ dev' \in [chars : Seq(KeyCodes), keys : Seq(Keys), int : BOOLEAN,
                        down : BOOLEAN, x : Int, y : Int]
<1> DEFINE a == poll_chars(touch)
           b == poll_keys(a)
<1>1. Kept(touch, a, c)
    BY PollChars DEF DriverTypes
<1> HIDE DEF a
<1>2. Kept(a, b, c)
    BY <1>1, PollKeys DEF Kept
<1> HIDE DEF b
<1>3. Kept(b, poll_touch(b), c)
    BY <1>2, PollTouch DEF Kept
<1>4. touch' = poll_touch(b)
    BY DEF d1_touch_poll, a, b
<1>5. Kept(touch, touch', c)
    BY <1>1, <1>2, <1>3, <1>4, Zenon DEF Kept
<1>6. dev' = [dev EXCEPT !.chars = <<>>, !.keys = <<>>, !.int = FALSE]
    BY DEF d1_touch_poll
<1>7. <<>> \in Seq(KeyCodes) /\ <<>> \in Seq(Keys)
    OBVIOUS
<1> HIDE DEF Kept
<1> QED
    BY <1>5, <1>6, <1>7, Zenon DEF DriverTypes

(* Taking the first event out of the ring and, if it is a position, moving *)
(* the cursor to it keeps every press placed.                              *)
LEMMA PopKeeps ==
    ASSUME DriverTypes, touch.events # <<>>, pop_event, Placed(touch.events, cursor),
           \/ pointer_moved(Head(touch.events))
           \/ Head(touch.events).type # "ABS" /\ UNCHANGED cursor
    PROVE  Placed(touch'.events, cursor')
<1> DEFINE q == touch.events
           r == Tail(q)
           e == Head(touch.events)
<1>0. \/ pointer_moved(e)
      \/ e.type # "ABS" /\ UNCHANGED cursor
    OBVIOUS
<1>1. /\ q \in Seq(Events) /\ Len(q) \in Nat /\ Len(q) >= 1 /\ e = q[1] /\ e \in Events
      /\ r \in Seq(Events) /\ Len(r) = Len(q) - 1
      /\ \A i \in 1 .. Len(r) : r[i] = q[i + 1]
    BY DEF DriverTypes, Touches
<1>2. touch'.events = r
    BY DEF pop_event, DriverTypes, Touches
<1>3. \A i \in 1 .. Len(q) : IsPress(q[i]) => PlacedAt(q, cursor, i)
    BY DEF Placed
<1> HIDE DEF q, r, e
<1> SUFFICES ASSUME NEW i \in 1 .. Len(r), IsPress(r[i])
             PROVE  PlacedAt(r, cursor', i)
    BY <1>2, Zenon DEF Placed
<1> DEFINE m == r[i].made
<1>4. i + 1 \in 1 .. Len(q) /\ r[i] = q[i + 1] /\ m = q[i + 1].made
    BY <1>1
<1>5. PlacedAt(q, cursor, i + 1)
    BY <1>3, <1>4, Zenon
<1>6. m \in Places /\ m.x \in Int /\ m.y \in Int
    <2>1. r[i] \in Events
        BY <1>1
    <2>2. m \in Places
        BY <2>1 DEF Events
    <2> QED
        BY <2>2 DEF Places
<1>7. q[i] = Event("ABS", "Y", m.y, m)
    BY <1>4, <1>5 DEF PlacedAt
<1>8. i >= 2 => q[i - 1] = Event("ABS", "X", m.x, m)
    BY <1>4, <1>5 DEF PlacedAt
<1> HIDE DEF m
<1>9. i >= 2 => r[i - 1] = Event("ABS", "Y", m.y, m)
    <2>1. i >= 2 => i - 1 \in 1 .. Len(r) /\ (i - 1) + 1 = i
        BY <1>1
    <2> QED
        BY <1>1, <1>7, <2>1, Zenon
<1>10. i >= 3 => r[i - 2] = Event("ABS", "X", m.x, m)
    <2>1. i >= 3 => i - 2 \in 1 .. Len(r) /\ (i - 2) + 1 = i - 1 /\ i >= 2
        BY <1>1
    <2> QED
        BY <1>1, <1>8, <2>1, Zenon
<1>11. ASSUME i = 2 PROVE cursor'.x = OnScreen(m).x
    <2>1. e = Event("ABS", "X", m.x, m)
        BY <1>1, <1>8, <1>11
    <2>2. e.type = "ABS" /\ e.code = "X" /\ e.value = m.x
        BY <2>1 DEF Event
    <2>3. set_cursor_pos(m.x, cursor.y)
        BY <1>0, <2>2, Zenon DEF pointer_moved
    <2> QED
        BY <2>3 DEF set_cursor_pos, OnScreen
<1>12. ASSUME i = 1 PROVE cursor' = OnScreen(m)
    <2>1. e = Event("ABS", "Y", m.y, m)
        BY <1>1, <1>7, <1>12
    <2>2. e.type = "ABS" /\ e.code = "Y" /\ e.value = m.y
        BY <2>1 DEF Event
    <2>3. set_cursor_pos(cursor.x, m.y)
        BY <1>0, <2>2 DEF pointer_moved
    <2>4. cursor.x = OnScreen(m).x
        BY <1>5, <1>12 DEF PlacedAt, m, r
    <2>5. cursor.x \in Int /\ cursor.x < SCREEN_WIDTH
        BY DEF DriverTypes, Places
    <2> QED
        BY <1>6, <2>3, <2>4, <2>5 DEF set_cursor_pos, OnScreen
<1> QED
    BY <1>9, <1>10, <1>11, <1>12 DEF PlacedAt, m

----------------------------------------------------------------------------
(* Presses: every step *)

(* An event handled is a move of the pointer, a press or neither.          *)
LEMMA HandledEvent ==
    ASSUME NEW e, handle_main_screen_input(e)
    PROVE  /\ \/ pointer_moved(e)
              \/ e.type # "ABS" /\ UNCHANGED cursor
           /\ \/ UNCHANGED click
              \/ IsPress(e) /\ click' = [made |-> e.made, taken |-> cursor]
<1>1. CASE pointer_moved(e)
    BY <1>1, Zenon DEF pointer_moved
<1>2. CASE char_typed(e)
    BY <1>2 DEF char_typed
<1>3. CASE touch_pressed(e)
    <2>1. e.type = "KEY" /\ UNCHANGED cursor
        BY <1>3, Zenon DEF touch_pressed
    <2>2. IsPress(e) /\ click' = [made |-> e.made, taken |-> cursor]
        BY <1>3, Zenon DEF touch_pressed, IsPress
    <2> QED
        BY <2>1, <2>2
<1>4. CASE key_pressed(e)
    <2>1. e.type = "KEY" /\ UNCHANGED cursor /\ UNCHANGED click
        BY <1>4, Zenon DEF key_pressed
    <2> QED
        BY <2>1
<1>5. CASE nothing_to_do(e)
    <2>1. (e.type = "SYN" \/ e.type = "KEY") /\ UNCHANGED cursor /\ UNCHANGED click
        BY <1>5, Zenon DEF nothing_to_do
    <2> QED
        BY <2>1
<1> QED
    BY <1>1, <1>2, <1>3, <1>4, <1>5, Zenon DEF handle_main_screen_input

(* Taking an event out of the ring keeps the driver's types.               *)
LEMMA PopTypes ==
    ASSUME DriverTypes, touch.events # <<>>, pop_event
    PROVE  /\ touch' \in Touches /\ Len(touch'.events) <= RING - 1
           /\ Head(touch.events) \in Events
<1>1. touch.events \in Seq(Events) /\ Len(touch.events) <= RING - 1 /\ RING \in Nat
    BY DesktopAssumption DEF DriverTypes, Touches
<1>2. /\ Tail(touch.events) \in Seq(Events) /\ Head(touch.events) \in Events
      /\ Len(Tail(touch.events)) = Len(touch.events) - 1 /\ Len(touch.events) \in Nat
    BY <1>1
<1>3. touch' \in Touches /\ touch'.events = Tail(touch.events)
    BY <1>2, Zenon DEF pop_event, DriverTypes, Touches
<1> QED
    BY <1>1, <1>2, <1>3

(* Handling the event taken out of the ring.                               *)
LEMMA HandlePress ==
    ASSUME PressInv, touch.events # <<>>, pop_event,
           handle_main_screen_input(Head(touch.events)), UNCHANGED <<dev, todo, lost>>
    PROVE  PressInv'
<1> DEFINE e == Head(touch.events)
<1>1. DriverTypes /\ (~lost => Placed(touch.events, cursor)) /\ ClickLands
    BY Zenon DEF PressInv
<1>2. touch' \in Touches /\ Len(touch'.events) <= RING - 1 /\ e \in Events
    BY <1>1, PopTypes, Zenon
<1>3. /\ \/ pointer_moved(e)
         \/ e.type # "ABS" /\ UNCHANGED cursor
      /\ \/ UNCHANGED click
         \/ IsPress(e) /\ click' = [made |-> e.made, taken |-> cursor]
    BY HandledEvent, Zenon
<1>4. ~lost' => Placed(touch'.events, cursor')
    <2> SUFFICES ASSUME ~lost' PROVE Placed(touch'.events, cursor')
        OBVIOUS
    <2>1. ~lost
        BY Zenon
    <2>2. Placed(touch.events, cursor)
        BY <1>1, <2>1, Zenon
    <2> QED
        BY <1>1, <1>3, <2>2, PopKeeps, Zenon
<1>5. ClickLands'
    <2> SUFFICES ASSUME ~lost' PROVE click'.taken = OnScreen(click'.made)
        BY DEF ClickLands, OnScreen
    <2>1. ~lost
        BY Zenon
    <2>2. CASE UNCHANGED click
        BY <1>1, <2>1, <2>2, Zenon DEF ClickLands
    <2>3. CASE IsPress(e) /\ click' = [made |-> e.made, taken |-> cursor]
        <3>1. 1 \in 1 .. Len(touch.events) /\ touch.events[1] = e
            BY <1>1 DEF DriverTypes, Touches
        <3>2. PlacedAt(touch.events, cursor, 1)
            BY <1>1, <2>1, <2>3, <3>1, Zenon DEF Placed
        <3>3. cursor = OnScreen(e.made)
            BY <3>1, <3>2, Zenon DEF PlacedAt
        <3>4. click'.taken = cursor /\ click'.made = e.made
            BY <2>3
        <3> QED
            BY <3>3, <3>4, Zenon
    <2> QED
        BY <1>3, <2>2, <2>3, Zenon
<1>6. cursor' \in Places /\ cursor'.x < SCREEN_WIDTH /\ cursor'.y < SCREEN_HEIGHT
    <2>1. /\ cursor \in Places /\ cursor.x \in Int /\ cursor.y \in Int
          /\ cursor.x < SCREEN_WIDTH /\ cursor.y < SCREEN_HEIGHT
        BY <1>1 DEF DriverTypes, Places
    <2>2. e.value \in Int
        BY <1>2 DEF Events
    <2>3. CASE UNCHANGED cursor
        BY <2>1, <2>3, Zenon
    <2>4. CASE pointer_moved(e)
        <3>1. set_cursor_pos(e.value, cursor.y) \/ set_cursor_pos(cursor.x, e.value)
            BY <2>4, Zenon DEF pointer_moved
        <3> HIDE DEF e
        <3> QED
            BY <2>1, <2>2, <3>1 DEF set_cursor_pos, Places, SCREEN_WIDTH, SCREEN_HEIGHT
    <2> QED
        BY <1>3, <2>3, <2>4, Zenon
<1>7. DriverTypes'
    BY <1>1, <1>2, <1>6, Zenon DEF DriverTypes, Keys
<1> QED
    BY <1>4, <1>5, <1>7, Zenon DEF PressInv, Placed

(* Polling, whoever asked for it.                                          *)
LEMMA PollPress ==
    ASSUME PressInv, d1_touch_poll, UNCHANGED <<todo, cursor, click, lost>>
    PROVE  PressInv'
<1>1. DriverTypes /\ (~lost => Placed(touch.events, cursor)) /\ ClickLands
    BY Zenon DEF PressInv
<1>2. /\ Kept(touch, touch', cursor)
      /\ dev' \in [chars : Seq(KeyCodes), keys : Seq(Keys), int : BOOLEAN,
                   down : BOOLEAN, x : Int, y : Int]
    BY <1>1, PollKeeps, Zenon
<1>3. DriverTypes'
    BY <1>1, <1>2, Zenon DEF DriverTypes, Kept
<1>4. (~lost => Placed(touch.events, cursor))'
    BY <1>1, <1>2, Zenon DEF Kept, Placed
<1>5. ClickLands'
    BY <1>1, Zenon DEF ClickLands
<1> QED
    BY <1>3, <1>4, <1>5, Zenon DEF PressInv

(* What the user does fits the driver's types.                             *)
LEMMA UserPress ==
    ASSUME PressInv, User
    PROVE  PressInv'
<1>1. DriverTypes /\ (~lost => Placed(touch.events, cursor)) /\ ClickLands
    BY Zenon DEF PressInv
<1>2. /\ dev \in [chars : Seq(KeyCodes), keys : Seq(Keys), int : BOOLEAN,
                  down : BOOLEAN, x : Int, y : Int]
      /\ todo \in Seq(Inputs)
    BY <1>1, Zenon DEF DriverTypes
<1>3. UNCHANGED <<touch, cursor, click, lost>>
    BY Zenon DEF User, user_acts, user_lifts
<1>4. /\ dev' \in [chars : Seq(KeyCodes), keys : Seq(Keys), int : BOOLEAN,
                   down : BOOLEAN, x : Int, y : Int]
      /\ todo' \in Seq(Inputs)
    <2>1. CASE user_lifts
        BY <1>2, <2>1, Zenon DEF user_lifts
    <2>2. CASE user_acts
        <3>1. todo # <<>> /\ todo' = Tail(todo) /\ Present(Head(todo))
            BY <2>2, Zenon DEF user_acts
        <3>2. Head(todo) \in Inputs /\ todo' \in Seq(Inputs)
            BY <1>2, <3>1
        <3> DEFINE u == Head(todo)
        <3> HIDE DEF u
        <3>3. u \in Inputs /\ Present(u)
            BY <3>1, <3>2 DEF u
        <3>4. CASE u \in [kind : {"char", "key"}, code : KeyCodes]
            <4>1. u.kind \in {"char", "key"} /\ u.code \in KeyCodes
                BY <3>4
            <4>2. CASE u.kind = "char"
                <5>1. dev' = [dev EXCEPT !.chars = Append(@, u.code)]
                    BY <3>3, <4>2 DEF Present
                <5>2. Append(dev.chars, u.code) \in Seq(KeyCodes)
                    BY <1>2, <4>1
                <5> QED
                    BY <1>2, <3>2, <5>1, <5>2, Zenon
            <4>3. CASE u.kind = "key"
                <5> DEFINE both == <<[code |-> u.code, value |-> 1],
                                     [code |-> u.code, value |-> 0]>>
                <5>1. dev' = [dev EXCEPT !.keys = @ \o both]
                    BY <3>3, <4>3 DEF Present
                <5>2. [code |-> u.code, value |-> 1] \in Keys /\ [code |-> u.code, value |-> 0] \in Keys
                    BY <4>1 DEF Keys
                <5>3. both \in Seq(Keys)
                    BY <5>2
                <5> HIDE DEF both
                <5>4. dev.keys \in Seq(Keys)
                    BY <1>2
                <5>5. dev.keys \o both \in Seq(Keys)
                    BY <5>3, <5>4
                <5> QED
                    BY <1>2, <3>2, <5>1, <5>5, Zenon
            <4> QED
                BY <4>1, <4>2, <4>3, Zenon
        <3>5. CASE u \in [kind : {"touch"}, x : Nat, y : Nat]
            <4>1. u.kind = "touch" /\ u.x \in Int /\ u.y \in Int
                BY <3>5
            <4>2. dev' = [dev EXCEPT !.int = TRUE, !.down = TRUE, !.x = u.x, !.y = u.y]
                BY <3>3, <4>1 DEF Present
            <4> QED
                BY <1>2, <3>2, <4>1, <4>2, Zenon
        <3> QED
            BY <3>3, <3>4, <3>5, Zenon DEF Inputs
    <2> QED
        BY <2>1, <2>2, Zenon DEF User
<1>5. DriverTypes'
    BY <1>1, <1>3, <1>4, Zenon DEF DriverTypes
<1>6. (~lost => Placed(touch.events, cursor))' /\ ClickLands'
    BY <1>1, <1>3, Zenon DEF ClickLands, Placed
<1> QED
    BY <1>5, <1>6, Zenon DEF PressInv

(* The steps that touch neither the driver nor the cursor.                 *)
LEMMA OtherPress ==
    ASSUME PressInv, UNCHANGED <<dev, todo, touch, cursor, click, lost>>
    PROVE  PressInv'
<1>1. DriverTypes'
    BY Zenon DEF PressInv, DriverTypes
<1>2. (~lost => Placed(touch.events, cursor))'
    BY Zenon DEF PressInv, Placed
<1>3. ClickLands'
    BY Zenon DEF PressInv, ClickLands
<1> QED
    BY <1>1, <1>2, <1>3, Zenon DEF PressInv

(* An event that a late request takes is lost.                             *)
LEMMA LatePress ==
    ASSUME PressInv, handle_late_request
    PROVE  PressInv'
<1>1. DriverTypes /\ (~lost => Placed(touch.events, cursor)) /\ ClickLands
    BY Zenon DEF PressInv
<1>2. UNCHANGED <<todo, cursor, click>>
    BY Zenon DEF handle_late_request
<1>3. \/ d1_touch_poll /\ UNCHANGED lost
      \/ UNCHANGED <<dev, touch, lost>>
      \/ touch.events # <<>> /\ pop_event /\ lost' = TRUE /\ UNCHANGED dev
    BY DEF handle_late_request
<1>4. CASE d1_touch_poll /\ UNCHANGED lost
    BY <1>2, <1>4, PollPress
<1>5. CASE UNCHANGED <<dev, touch, lost>>
    BY <1>2, <1>5, OtherPress
<1>6. CASE touch.events # <<>> /\ pop_event /\ lost' = TRUE /\ UNCHANGED dev
    <2>1. touch' \in Touches /\ Len(touch'.events) <= RING - 1
        BY <1>1, <1>6, PopTypes, Zenon
    <2>2. DriverTypes'
        BY <1>1, <1>2, <1>6, <2>1, Zenon DEF DriverTypes
    <2> QED
        BY <1>6, <2>2 DEF PressInv, ClickLands
<1> QED
    BY <1>3, <1>4, <1>5, <1>6, Zenon

(* Presses stay placed whatever step is taken.                             *)
LEMMA PressStep ==
    ASSUME PressInv, [Next]_vars
    PROVE  PressInv'
<1>1. CASE User
    BY <1>1, UserPress
<1>2. CASE handle_late_request
    BY <1>2, LatePress
<1>3. CASE tick_starts
    <2>1. UNCHANGED <<todo, cursor, click, lost>>
        BY <1>3, Zenon DEF tick_starts
    <2>2. d1_touch_poll \/ UNCHANGED <<touch, dev>>
        BY <1>3, Zenon DEF tick_starts, touch_poll
    <2> QED
        BY <2>1, <2>2, PollPress, OtherPress
<1>4. CASE tick_handles_event
    BY <1>4, HandlePress, Zenon DEF tick_handles_event, SomeEvent, device_vars
<1>5. CASE wasm_handles_event
    BY <1>5, HandlePress, Zenon DEF wasm_handles_event, device_vars
<1>6. CASE wasm_polls
    BY <1>6, PollPress, Zenon DEF wasm_polls
<1>7. CASE wasm_sees_q
    <2>1. DriverTypes /\ (~lost => Placed(touch.events, cursor)) /\ ClickLands
        BY Zenon DEF PressInv
    <2>2. /\ dev.chars # <<>> /\ dev' = [dev EXCEPT !.chars = Tail(@)]
          /\ UNCHANGED <<todo, touch, cursor, click, lost>>
        BY <1>7, Zenon DEF wasm_sees_q
    <2>3. Tail(dev.chars) \in Seq(KeyCodes)
        BY <2>1, <2>2 DEF DriverTypes
    <2>4. dev' \in [chars : Seq(KeyCodes), keys : Seq(Keys), int : BOOLEAN,
                   down : BOOLEAN, x : Int, y : Int]
        BY <2>1, <2>2, <2>3, Zenon DEF DriverTypes
    <2>5. DriverTypes'
        BY <2>1, <2>2, <2>4, Zenon DEF DriverTypes
    <2>6. (~lost => Placed(touch.events, cursor))' /\ ClickLands'
        BY <2>1, <2>2, Zenon DEF ClickLands, Placed
    <2> QED
        BY <2>5, <2>6, Zenon DEF PressInv
<1>8. CASE \/ boot_clears \/ setup_main_screen \/ tick_drained
           \/ update_main_screen_hardware_stats \/ tick_flushes
    <2>1. UNCHANGED <<dev, todo, touch, cursor, click, lost>>
        BY <1>8, Zenon DEF boot_clears, setup_main_screen, tick_drained, NoEvent, device_vars,
               update_main_screen_hardware_stats, tick_flushes
    <2> QED
        BY <2>1, OtherPress
<1>9. CASE program_prints \/ elf_exits \/ wasm_returns \/ refresh_terminal_output
    <2>1. UNCHANGED <<dev, todo, touch, cursor, click, lost>>
        BY <1>9, Zenon DEF program_prints, elf_exits, wasm_returns, refresh_terminal_output,
               device_vars
    <2> QED
        BY <2>1, OtherPress
<1>10. CASE UNCHANGED vars
    BY <1>10, OtherPress DEF vars
<1> QED
    BY <1>1, <1>2, <1>3, <1>4, <1>5, <1>6, <1>7, <1>8, <1>9, <1>10, Zenon
       DEF Next, Gpuid, Programs

(* At the start the ring is empty and no press has been taken.             *)
LEMMA PressInit ==
    ASSUME Init
    PROVE  PressInv
<1>0. /\ dev = [chars |-> <<>>, keys |-> <<>>, int |-> FALSE, down |-> FALSE,
                x |-> 0, y |-> 0]
      /\ touch = [pressed |-> FALSE, last_x |-> -1, last_y |-> -1, events |-> <<>>]
      /\ cursor = [x |-> 512, y |-> 384]
      /\ click = [made |-> Nowhere, taken |-> Nowhere]
    BY Zenon DEF Init
<1>1. dev \in [chars : Seq(KeyCodes), keys : Seq(Keys), int : BOOLEAN,
               down : BOOLEAN, x : Int, y : Int]
    BY <1>0
<1>2. todo \in Seq(Inputs)
    BY DesktopAssumption, Zenon DEF Init
<1>3. touch \in Touches /\ touch.events = <<>>
    BY <1>0 DEF Touches
<1>4. Len(touch.events) <= RING - 1 /\ Len(touch.events) = 0
    BY <1>3, DesktopAssumption
<1>5. cursor \in Places /\ cursor.x < SCREEN_WIDTH /\ cursor.y < SCREEN_HEIGHT
    BY <1>0 DEF Places, SCREEN_WIDTH, SCREEN_HEIGHT
<1>6. Placed(touch.events, cursor)
    BY <1>4 DEF Placed
<1>7. ClickLands
    BY <1>0 DEF ClickLands, OnScreen, Nowhere, SCREEN_WIDTH, SCREEN_HEIGHT
<1> QED
    BY <1>1, <1>2, <1>3, <1>4, <1>5, <1>6, <1>7, Zenon DEF PressInv, DriverTypes

(* A press is taken where it was made, for every size of the ring and      *)
(* whatever the user does: the touch driver queues both halves of the      *)
(* position before the press (d1_touch.rs), and gpuid and a WASM program   *)
(* drain the ring in order (gpuid.rs).                                     *)
THEOREM DesktopClick == Spec => []ClickLands
<1>1. Init => PressInv
    BY PressInit
<1>2. PressInv /\ [Next]_vars => PressInv'
    BY PressStep
<1>3. PressInv => ClickLands
    BY Zenon DEF PressInv
<1> QED
    BY <1>1, <1>2, <1>3, PTL DEF Spec

----------------------------------------------------------------------------
(* Windows: what the screen shows, as a relation of the state of the       *)
(* windows u, the back buffer s and the backing store b.  While a window   *)
(* is open the backing store holds the main screen to come back to.        *)

UiShape(u) ==
    /\ u = [open |-> u.open, selected |-> u.selected, input |-> u.input,
            output |-> u.output, running |-> u.running, cancel |-> u.cancel,
            clicked |-> u.clicked]
    /\ u.open \in {NONE, NETWORK, TERMINAL}
    /\ u.selected \in {NETWORK, TERMINAL}
    /\ u.running \in BOOLEAN /\ u.clicked \in BOOLEAN
ScreenShape(s) ==
    /\ s = [area |-> s.area, input |-> s.input, output |-> s.output, button |-> s.button,
            highlight |-> s.highlight, spoiled |-> s.spoiled]
    /\ s.spoiled \in BOOLEAN
BackShape(b) ==
    /\ b = [valid |-> b.valid, content |-> b.content]
    /\ b.valid \in BOOLEAN
    /\ ScreenShape(b.content)

MainIn(u, s) == s.area = "main" /\ (u.clicked \/ s.highlight = u.selected)
TerminalIn(u, s) ==
    /\ s.area = TERMINAL
    /\ u.input # <<>> => s.input = u.input
    /\ s.output = u.output
    /\ s.button = Button(u)
ShownIn(u, s, b) ==
    /\ u.open = NONE => MainIn(u, s)
    /\ u.open = NETWORK => s.area = NETWORK
    /\ u.open = TERMINAL => TerminalIn(u, s)
    /\ u.open # NONE => b.valid /\ MainIn(u, b.content)
View(u, s, b) ==
    /\ UiShape(u) /\ ScreenShape(s) /\ BackShape(b)
    /\ ~s.spoiled => ShownIn(u, s, b)

(* What draw_terminal_input_only changes.                             *)
LEMMA DrawInput ==
    ASSUME NEW v, NEW s, ScreenShape(s)
    PROVE  LET t == draw_terminal_input_only(s, v)
           IN  /\ ScreenShape(t)
               /\ t.area = s.area /\ t.output = s.output /\ t.button = s.button /\ t.highlight = s.highlight
               /\ t.input = v.input
               /\ t.spoiled <=> (s.spoiled \/ v.open # TERMINAL)
<1> DEFINE sp == Spoils(s, v)
           x == v.input
           t == draw_terminal_input_only(s, v)
<1>1. sp \in BOOLEAN /\ (sp <=> (s.spoiled \/ v.open # TERMINAL))
    BY DEF Spoils
<1> HIDE DEF sp, x
<1>2. t = [s EXCEPT !.input = x, !.spoiled = sp]
    BY Zenon DEF draw_terminal_input_only, sp, x
<1>3. t = [area |-> s.area, input |-> x, output |-> s.output, button |-> s.button, highlight |-> s.highlight,
           spoiled |-> sp]
    BY <1>2, Zenon DEF ScreenShape
<1>4. /\ t.area = s.area /\ t.output = s.output /\ t.button = s.button /\ t.highlight = s.highlight
      /\ t.input = x /\ t.spoiled = sp
    BY <1>3
<1> HIDE DEF t
<1>5. ScreenShape(t)
    BY <1>1, <1>3, <1>4, Zenon DEF ScreenShape
<1>6. t.spoiled <=> (s.spoiled \/ v.open # TERMINAL)
    BY <1>1, <1>4
<1> QED
    BY <1>4, <1>5, <1>6, Zenon DEF t, x

(* What draw_terminal_output_only changes.                            *)
LEMMA DrawOutput ==
    ASSUME NEW v, NEW s, ScreenShape(s)
    PROVE  LET t == draw_terminal_output_only(s, v)
           IN  /\ ScreenShape(t)
               /\ t.area = s.area /\ t.input = s.input /\ t.button = s.button /\ t.highlight = s.highlight
               /\ t.output = v.output
               /\ t.spoiled <=> (s.spoiled \/ v.open # TERMINAL)
<1> DEFINE sp == Spoils(s, v)
           x == v.output
           t == draw_terminal_output_only(s, v)
<1>1. sp \in BOOLEAN /\ (sp <=> (s.spoiled \/ v.open # TERMINAL))
    BY DEF Spoils
<1> HIDE DEF sp, x
<1>2. t = [s EXCEPT !.output = x, !.spoiled = sp]
    BY Zenon DEF draw_terminal_output_only, sp, x
<1>3. t = [area |-> s.area, input |-> s.input, output |-> x, button |-> s.button, highlight |-> s.highlight,
           spoiled |-> sp]
    BY <1>2, Zenon DEF ScreenShape
<1>4. /\ t.area = s.area /\ t.input = s.input /\ t.button = s.button /\ t.highlight = s.highlight
      /\ t.output = x /\ t.spoiled = sp
    BY <1>3
<1> HIDE DEF t
<1>5. ScreenShape(t)
    BY <1>1, <1>3, <1>4, Zenon DEF ScreenShape
<1>6. t.spoiled <=> (s.spoiled \/ v.open # TERMINAL)
    BY <1>1, <1>4
<1> QED
    BY <1>4, <1>5, <1>6, Zenon DEF t, x

(* What draw_terminal_button_only changes.                            *)
LEMMA DrawButton ==
    ASSUME NEW v, NEW s, ScreenShape(s)
    PROVE  LET t == draw_terminal_button_only(s, v)
           IN  /\ ScreenShape(t)
               /\ t.area = s.area /\ t.input = s.input /\ t.output = s.output /\ t.highlight = s.highlight
               /\ t.button = Button(v)
               /\ t.spoiled <=> (s.spoiled \/ v.open # TERMINAL)
<1> DEFINE sp == Spoils(s, v)
           x == Button(v)
           t == draw_terminal_button_only(s, v)
<1>1. sp \in BOOLEAN /\ (sp <=> (s.spoiled \/ v.open # TERMINAL))
    BY DEF Spoils
<1> HIDE DEF sp, x
<1>2. t = [s EXCEPT !.button = x, !.spoiled = sp]
    BY Zenon DEF draw_terminal_button_only, sp, x
<1>3. t = [area |-> s.area, input |-> s.input, output |-> s.output, button |-> x, highlight |-> s.highlight,
           spoiled |-> sp]
    BY <1>2, Zenon DEF ScreenShape
<1>4. /\ t.area = s.area /\ t.input = s.input /\ t.output = s.output /\ t.highlight = s.highlight
      /\ t.button = x /\ t.spoiled = sp
    BY <1>3
<1> HIDE DEF t
<1>5. ScreenShape(t)
    BY <1>1, <1>3, <1>4, Zenon DEF ScreenShape
<1>6. t.spoiled <=> (s.spoiled \/ v.open # TERMINAL)
    BY <1>1, <1>4
<1> QED
    BY <1>4, <1>5, <1>6, Zenon DEF t, x

(* What draw_terminal_window changes: all but the buttons of the main      *)
(* screen.                                                                 *)
LEMMA DrawWindow ==
    ASSUME NEW v, NEW s
    PROVE  LET t == draw_terminal_window(s, v)
           IN  /\ ScreenShape(t)
               /\ t.area = TERMINAL /\ t.input = v.input /\ t.output = v.output
               /\ t.button = Button(v) /\ t.highlight = s.highlight
               /\ t.spoiled <=> (s.spoiled \/ v.open # TERMINAL)
<1> DEFINE sp == Spoils(s, v)
           t == draw_terminal_window(s, v)
<1>1. sp \in BOOLEAN /\ (sp <=> (s.spoiled \/ v.open # TERMINAL))
    BY DEF Spoils
<1> HIDE DEF sp
<1>2. t = [area |-> TERMINAL, input |-> v.input, output |-> v.output, button |-> Button(v),
           highlight |-> s.highlight, spoiled |-> sp]
    BY Zenon DEF draw_terminal_window, sp
<1>3. /\ t.area = TERMINAL /\ t.input = v.input /\ t.output = v.output
      /\ t.button = Button(v) /\ t.highlight = s.highlight /\ t.spoiled = sp
    BY <1>2
<1> HIDE DEF t
<1>4. ScreenShape(t)
    BY <1>1, <1>2, <1>3, Zenon DEF ScreenShape
<1>5. t.spoiled <=> (s.spoiled \/ v.open # TERMINAL)
    BY <1>1, <1>3
<1> QED
    BY <1>3, <1>4, <1>5, Zenon DEF t

(* Setting input of the state of the windows.                                *)
LEMMA UiInput ==
    ASSUME NEW u, UiShape(u), NEW x_input
    PROVE  [u EXCEPT !.input = x_input]
           = [open |-> u.open, selected |-> u.selected, input |-> x_input,
           output |-> u.output, running |-> u.running, cancel |-> u.cancel, clicked |-> u.clicked]
BY DEF UiShape

(* Setting output of the state of the windows.                               *)
LEMMA UiOutput ==
    ASSUME NEW u, UiShape(u), NEW x_output
    PROVE  [u EXCEPT !.output = x_output]
           = [open |-> u.open, selected |-> u.selected, input |-> u.input,
           output |-> x_output, running |-> u.running, cancel |-> u.cancel, clicked |-> u.clicked]
BY DEF UiShape

(* Setting cancel, output of the state of the windows.                       *)
LEMMA UiCancelOutput ==
    ASSUME NEW u, UiShape(u), NEW x_cancel, NEW x_output
    PROVE  [u EXCEPT !.cancel = x_cancel, !.output = x_output]
           = [open |-> u.open, selected |-> u.selected, input |-> u.input,
           output |-> x_output, running |-> u.running, cancel |-> x_cancel, clicked |-> u.clicked]
<1> DEFINE w1 == [u EXCEPT !.cancel = x_cancel]
<1>1. w1 = [open |-> u.open, selected |-> u.selected, input |-> u.input,
           output |-> u.output, running |-> u.running, cancel |-> x_cancel, clicked |-> u.clicked]
    BY DEF UiShape
<1> HIDE DEF w1
<1> DEFINE w2 == [w1 EXCEPT !.output = x_output]
<1>2. w2 = [open |-> u.open, selected |-> u.selected, input |-> u.input,
           output |-> x_output, running |-> u.running, cancel |-> x_cancel, clicked |-> u.clicked]
    BY <1>1
<1>3. w2 = [u EXCEPT !.cancel = x_cancel, !.output = x_output]
    BY Zenon DEF w1
<1> HIDE DEF w2
<1> QED
    BY <1>2, <1>3, Zenon

(* Setting output, running of the state of the windows.                      *)
LEMMA UiOutputRunning ==
    ASSUME NEW u, UiShape(u), NEW x_output, NEW x_running
    PROVE  [u EXCEPT !.output = x_output, !.running = x_running]
           = [open |-> u.open, selected |-> u.selected, input |-> u.input,
           output |-> x_output, running |-> x_running, cancel |-> u.cancel, clicked |-> u.clicked]
<1> DEFINE w1 == [u EXCEPT !.output = x_output]
<1>1. w1 = [open |-> u.open, selected |-> u.selected, input |-> u.input,
           output |-> x_output, running |-> u.running, cancel |-> u.cancel, clicked |-> u.clicked]
    BY DEF UiShape
<1> HIDE DEF w1
<1> DEFINE w2 == [w1 EXCEPT !.running = x_running]
<1>2. w2 = [open |-> u.open, selected |-> u.selected, input |-> u.input,
           output |-> x_output, running |-> x_running, cancel |-> u.cancel, clicked |-> u.clicked]
    BY <1>1
<1>3. w2 = [u EXCEPT !.output = x_output, !.running = x_running]
    BY Zenon DEF w1
<1> HIDE DEF w2
<1> QED
    BY <1>2, <1>3, Zenon

(* Setting running, input of the state of the windows.                       *)
LEMMA UiRunningInput ==
    ASSUME NEW u, UiShape(u), NEW x_running, NEW x_input
    PROVE  [u EXCEPT !.running = x_running, !.input = x_input]
           = [open |-> u.open, selected |-> u.selected, input |-> x_input,
           output |-> u.output, running |-> x_running, cancel |-> u.cancel, clicked |-> u.clicked]
<1> DEFINE w1 == [u EXCEPT !.running = x_running]
<1>1. w1 = [open |-> u.open, selected |-> u.selected, input |-> u.input,
           output |-> u.output, running |-> x_running, cancel |-> u.cancel, clicked |-> u.clicked]
    BY DEF UiShape
<1> HIDE DEF w1
<1> DEFINE w2 == [w1 EXCEPT !.input = x_input]
<1>2. w2 = [open |-> u.open, selected |-> u.selected, input |-> x_input,
           output |-> u.output, running |-> x_running, cancel |-> u.cancel, clicked |-> u.clicked]
    BY <1>1
<1>3. w2 = [u EXCEPT !.running = x_running, !.input = x_input]
    BY Zenon DEF w1
<1> HIDE DEF w2
<1> QED
    BY <1>2, <1>3, Zenon

(* Setting cancel of the state of the windows.                               *)
LEMMA UiCancel ==
    ASSUME NEW u, UiShape(u), NEW x_cancel
    PROVE  [u EXCEPT !.cancel = x_cancel]
           = [open |-> u.open, selected |-> u.selected, input |-> u.input,
           output |-> u.output, running |-> u.running, cancel |-> x_cancel, clicked |-> u.clicked]
BY DEF UiShape

(* Setting open of the state of the windows.                                 *)
LEMMA UiOpen ==
    ASSUME NEW u, UiShape(u), NEW x_open
    PROVE  [u EXCEPT !.open = x_open]
           = [open |-> x_open, selected |-> u.selected, input |-> u.input,
           output |-> u.output, running |-> u.running, cancel |-> u.cancel, clicked |-> u.clicked]
BY DEF UiShape

(* Setting open, input, output of the state of the windows.                  *)
LEMMA UiOpenInputOutput ==
    ASSUME NEW u, UiShape(u), NEW x_open, NEW x_input, NEW x_output
    PROVE  [u EXCEPT !.open = x_open, !.input = x_input, !.output = x_output]
           = [open |-> x_open, selected |-> u.selected, input |-> x_input,
           output |-> x_output, running |-> u.running, cancel |-> u.cancel, clicked |-> u.clicked]
<1> DEFINE w1 == [u EXCEPT !.open = x_open]
<1>1. w1 = [open |-> x_open, selected |-> u.selected, input |-> u.input,
           output |-> u.output, running |-> u.running, cancel |-> u.cancel, clicked |-> u.clicked]
    BY DEF UiShape
<1> HIDE DEF w1
<1> DEFINE w2 == [w1 EXCEPT !.input = x_input]
<1>2. w2 = [open |-> x_open, selected |-> u.selected, input |-> x_input,
           output |-> u.output, running |-> u.running, cancel |-> u.cancel, clicked |-> u.clicked]
    BY <1>1
<1> HIDE DEF w2
<1> DEFINE w3 == [w2 EXCEPT !.output = x_output]
<1>3. w3 = [open |-> x_open, selected |-> u.selected, input |-> x_input,
           output |-> x_output, running |-> u.running, cancel |-> u.cancel, clicked |-> u.clicked]
    BY <1>2
<1>4. w3 = [u EXCEPT !.open = x_open, !.input = x_input, !.output = x_output]
    BY Zenon DEF w1, w2
<1> HIDE DEF w3
<1> QED
    BY <1>3, <1>4, Zenon

(* Setting selected, clicked of the state of the windows.                    *)
LEMMA UiSelectedClicked ==
    ASSUME NEW u, UiShape(u), NEW x_selected, NEW x_clicked
    PROVE  [u EXCEPT !.selected = x_selected, !.clicked = x_clicked]
           = [open |-> u.open, selected |-> x_selected, input |-> u.input,
           output |-> u.output, running |-> u.running, cancel |-> u.cancel, clicked |-> x_clicked]
<1> DEFINE w1 == [u EXCEPT !.selected = x_selected]
<1>1. w1 = [open |-> u.open, selected |-> x_selected, input |-> u.input,
           output |-> u.output, running |-> u.running, cancel |-> u.cancel, clicked |-> u.clicked]
    BY DEF UiShape
<1> HIDE DEF w1
<1> DEFINE w2 == [w1 EXCEPT !.clicked = x_clicked]
<1>2. w2 = [open |-> u.open, selected |-> x_selected, input |-> u.input,
           output |-> u.output, running |-> u.running, cancel |-> u.cancel, clicked |-> x_clicked]
    BY <1>1
<1>3. w2 = [u EXCEPT !.selected = x_selected, !.clicked = x_clicked]
    BY Zenon DEF w1
<1> HIDE DEF w2
<1> QED
    BY <1>2, <1>3, Zenon

(* Typing: the input line is redrawn on its own.                           *)
LEMMA ViewInput ==
    ASSUME NEW u, NEW s, NEW b, NEW x, View(u, s, b)
    PROVE  LET v == [u EXCEPT !.input = x]
           IN  View(v, draw_terminal_input_only(s, v), b)
<1> DEFINE v == [u EXCEPT !.input = x]
           t == draw_terminal_input_only(s, v)
<1>1. /\ UiShape(u) /\ ScreenShape(s) /\ BackShape(b)
      /\ ~s.spoiled => ShownIn(u, s, b)
    BY Zenon DEF View
<1>2. v = [open |-> u.open, selected |-> u.selected, input |-> x,
           output |-> u.output, running |-> u.running, cancel |-> u.cancel, clicked |-> u.clicked]
    BY <1>1, UiInput, Zenon
<1>3. /\ v.open = u.open /\ v.selected = u.selected /\ v.input = x
      /\ v.output = u.output /\ v.running = u.running /\ v.cancel = u.cancel /\ v.clicked = u.clicked
    BY <1>2
<1> HIDE DEF v
<1>4. UiShape(v)
    BY <1>1, <1>2, <1>3 DEF UiShape
<1>5. ScreenShape(t)
    BY <1>1, DrawInput, Zenon
<1>6. /\ t.area = s.area /\ t.input = v.input /\ t.output = s.output
      /\ t.button = s.button /\ t.highlight = s.highlight
      /\ t.spoiled <=> (s.spoiled \/ v.open # TERMINAL)
    BY <1>1, DrawInput, ZenonT(30)
<1> HIDE DEF t
<1>7. ASSUME ~t.spoiled PROVE ShownIn(v, t, b)
    BY <1>1, <1>3, <1>6, <1>7 DEF ShownIn, MainIn, TerminalIn, Button, NONE, NETWORK, TERMINAL
<1> QED
    BY <1>1, <1>4, <1>5, <1>7, Zenon DEF View, v, t

(* Output: the output is redrawn on its own.                               *)
LEMMA ViewOutput ==
    ASSUME NEW u, NEW s, NEW b, NEW x, View(u, s, b)
    PROVE  LET v == [u EXCEPT !.output = x]
           IN  View(v, draw_terminal_output_only(s, v), b)
<1> DEFINE v == [u EXCEPT !.output = x]
           t == draw_terminal_output_only(s, v)
<1>1. /\ UiShape(u) /\ ScreenShape(s) /\ BackShape(b)
      /\ ~s.spoiled => ShownIn(u, s, b)
    BY Zenon DEF View
<1>2. v = [open |-> u.open, selected |-> u.selected, input |-> u.input,
           output |-> x, running |-> u.running, cancel |-> u.cancel, clicked |-> u.clicked]
    BY <1>1, UiOutput, Zenon
<1>3. /\ v.open = u.open /\ v.selected = u.selected /\ v.input = u.input
      /\ v.output = x /\ v.running = u.running /\ v.cancel = u.cancel /\ v.clicked = u.clicked
    BY <1>2
<1> HIDE DEF v
<1>4. UiShape(v)
    BY <1>1, <1>2, <1>3 DEF UiShape
<1>5. ScreenShape(t)
    BY <1>1, DrawOutput, Zenon
<1>6. /\ t.area = s.area /\ t.input = s.input /\ t.output = v.output
      /\ t.button = s.button /\ t.highlight = s.highlight
      /\ t.spoiled <=> (s.spoiled \/ v.open # TERMINAL)
    BY <1>1, DrawOutput, ZenonT(30)
<1> HIDE DEF t
<1>7. ASSUME ~t.spoiled PROVE ShownIn(v, t, b)
    BY <1>1, <1>3, <1>6, <1>7 DEF ShownIn, MainIn, TerminalIn, Button, NONE, NETWORK, TERMINAL
<1> QED
    BY <1>1, <1>4, <1>5, <1>7, Zenon DEF View, v, t

(* A request to cancel redraws the whole terminal window.                  *)
LEMMA ViewCancel ==
    ASSUME NEW u, NEW s, NEW b, NEW x, View(u, s, b)
    PROVE  LET v == [u EXCEPT !.cancel = TRUE, !.output = x]
           IN  View(v, draw_terminal_window(s, v), b)
<1> DEFINE v == [u EXCEPT !.cancel = TRUE, !.output = x]
           t == draw_terminal_window(s, v)
<1>1. /\ UiShape(u) /\ ScreenShape(s) /\ BackShape(b)
      /\ ~s.spoiled => ShownIn(u, s, b)
    BY Zenon DEF View
<1>2. v = [open |-> u.open, selected |-> u.selected, input |-> u.input,
           output |-> x, running |-> u.running, cancel |-> TRUE, clicked |-> u.clicked]
    BY <1>1, UiCancelOutput, Zenon
<1>3. /\ v.open = u.open /\ v.selected = u.selected /\ v.input = u.input
      /\ v.output = x /\ v.running = u.running /\ v.cancel = TRUE /\ v.clicked = u.clicked
    BY <1>2
<1> HIDE DEF v
<1>4. UiShape(v)
    BY <1>1, <1>2, <1>3 DEF UiShape
<1>5. ScreenShape(t)
    BY <1>1, DrawWindow, Zenon
<1>6. /\ t.area = TERMINAL /\ t.input = v.input /\ t.output = v.output
      /\ t.button = Button(v) /\ t.highlight = s.highlight
      /\ t.spoiled <=> (s.spoiled \/ v.open # TERMINAL)
    BY <1>1, DrawWindow, Zenon
<1> HIDE DEF t
<1>7. ASSUME ~t.spoiled PROVE ShownIn(v, t, b)
    BY <1>1, <1>3, <1>6, <1>7 DEF ShownIn, MainIn, TerminalIn, Button, NONE, NETWORK, TERMINAL
<1> QED
    BY <1>1, <1>4, <1>5, <1>7, Zenon DEF View, v, t

(* The end of a command: output and button are redrawn.                    *)
LEMMA ViewComplete ==
    ASSUME NEW u, NEW s, NEW b, NEW x, View(u, s, b)
    PROVE  LET v == [u EXCEPT !.output = x, !.running = FALSE]
           IN  View(v, draw_terminal_button_only(draw_terminal_output_only(s, v), v), b)
<1> DEFINE v == [u EXCEPT !.output = x, !.running = FALSE]
           r == draw_terminal_output_only(s, v)
           t == draw_terminal_button_only(r, v)
<1>1. /\ UiShape(u) /\ ScreenShape(s) /\ BackShape(b)
      /\ ~s.spoiled => ShownIn(u, s, b)
    BY Zenon DEF View
<1>2. v = [open |-> u.open, selected |-> u.selected, input |-> u.input,
           output |-> x, running |-> FALSE, cancel |-> u.cancel, clicked |-> u.clicked]
    BY <1>1, UiOutputRunning, Zenon
<1>3. /\ v.open = u.open /\ v.selected = u.selected /\ v.input = u.input
      /\ v.output = x /\ v.running = FALSE /\ v.cancel = u.cancel /\ v.clicked = u.clicked
    BY <1>2
<1> HIDE DEF v
<1>4. UiShape(v)
    BY <1>1, <1>2, <1>3 DEF UiShape
<1>5. ScreenShape(r)
    BY <1>1, DrawOutput, Zenon
<1>6. /\ r.area = s.area /\ r.input = s.input /\ r.output = v.output
      /\ r.button = s.button /\ r.highlight = s.highlight
      /\ r.spoiled <=> (s.spoiled \/ v.open # TERMINAL)
    BY <1>1, DrawOutput, Zenon
<1> HIDE DEF r
<1>7. ScreenShape(t)
    BY <1>5, DrawButton, Zenon
<1>8. /\ t.area = r.area /\ t.input = r.input /\ t.output = r.output
      /\ t.button = Button(v) /\ t.highlight = r.highlight
      /\ t.spoiled <=> (r.spoiled \/ v.open # TERMINAL)
    BY <1>5, DrawButton, Zenon
<1> HIDE DEF t
<1>9. ASSUME ~t.spoiled PROVE ShownIn(v, t, b)
    BY <1>1, <1>3, <1>6, <1>8, <1>9 DEF ShownIn, MainIn, TerminalIn, Button, NONE, NETWORK, TERMINAL
<1> QED
    BY <1>1, <1>4, <1>7, <1>9, Zenon DEF View, v, r, t

(* The start of a command: button and input line are redrawn.              *)
LEMMA ViewStart ==
    ASSUME NEW u, NEW s, NEW b, View(u, s, b)
    PROVE  LET v == [u EXCEPT !.running = TRUE, !.input = <<>>]
           IN  View(v, draw_terminal_input_only(draw_terminal_button_only(s, v), v), b)
<1> DEFINE v == [u EXCEPT !.running = TRUE, !.input = <<>>]
           r == draw_terminal_button_only(s, v)
           t == draw_terminal_input_only(r, v)
<1>1. /\ UiShape(u) /\ ScreenShape(s) /\ BackShape(b)
      /\ ~s.spoiled => ShownIn(u, s, b)
    BY Zenon DEF View
<1>2. v = [open |-> u.open, selected |-> u.selected, input |-> <<>>,
           output |-> u.output, running |-> TRUE, cancel |-> u.cancel, clicked |-> u.clicked]
    BY <1>1, UiRunningInput, Zenon
<1>3. /\ v.open = u.open /\ v.selected = u.selected /\ v.input = <<>>
      /\ v.output = u.output /\ v.running = TRUE /\ v.cancel = u.cancel /\ v.clicked = u.clicked
    BY <1>2
<1> HIDE DEF v
<1>4. UiShape(v)
    BY <1>1, <1>2, <1>3 DEF UiShape
<1>5. ScreenShape(r)
    BY <1>1, DrawButton, Zenon
<1>6. /\ r.area = s.area /\ r.input = s.input /\ r.output = s.output
      /\ r.button = Button(v) /\ r.highlight = s.highlight
      /\ r.spoiled <=> (s.spoiled \/ v.open # TERMINAL)
    BY <1>1, DrawButton, ZenonT(30)
<1> HIDE DEF r
<1>7. ScreenShape(t)
    BY <1>5, DrawInput, Zenon
<1>8. /\ t.area = r.area /\ t.input = v.input /\ t.output = r.output
      /\ t.button = r.button /\ t.highlight = r.highlight
      /\ t.spoiled <=> (r.spoiled \/ v.open # TERMINAL)
    BY <1>5, DrawInput, ZenonT(30)
<1> HIDE DEF t
<1>9. ASSUME ~t.spoiled PROVE ShownIn(v, t, b)
    BY <1>1, <1>3, <1>6, <1>8, <1>9 DEF ShownIn, MainIn, TerminalIn, Button, NONE, NETWORK, TERMINAL
<1> QED
    BY <1>1, <1>4, <1>7, <1>9, Zenon DEF View, v, r, t

(* Ctrl+C clears the input line without redrawing it.                      *)
LEMMA ViewCleared ==
    ASSUME NEW u, NEW s, NEW b, View(u, s, b)
    PROVE  View([u EXCEPT !.input = <<>>], s, b)
<1> DEFINE v == [u EXCEPT !.input = <<>>]
<1>1. /\ UiShape(u) /\ ScreenShape(s) /\ BackShape(b)
      /\ ~s.spoiled => ShownIn(u, s, b)
    BY Zenon DEF View
<1>2. v = [open |-> u.open, selected |-> u.selected, input |-> <<>>,
           output |-> u.output, running |-> u.running, cancel |-> u.cancel, clicked |-> u.clicked]
    BY <1>1, UiInput, Zenon
<1>3. /\ v.open = u.open /\ v.selected = u.selected /\ v.input = <<>>
      /\ v.output = u.output /\ v.running = u.running /\ v.cancel = u.cancel /\ v.clicked = u.clicked
    BY <1>2
<1> HIDE DEF v
<1>4. UiShape(v)
    BY <1>1, <1>2, <1>3 DEF UiShape
<1>5. ASSUME ~s.spoiled PROVE ShownIn(v, s, b)
    BY <1>1, <1>3, <1>5 DEF ShownIn, MainIn, TerminalIn, Button, NONE, NETWORK, TERMINAL
<1> QED
    BY <1>1, <1>4, <1>5, Zenon DEF View, v

(* A program that sees the request to cancel draws nothing.                *)
LEMMA ViewSeen ==
    ASSUME NEW u, NEW s, NEW b, View(u, s, b)
    PROVE  View([u EXCEPT !.cancel = FALSE], s, b)
<1> DEFINE v == [u EXCEPT !.cancel = FALSE]
<1>1. /\ UiShape(u) /\ ScreenShape(s) /\ BackShape(b)
      /\ ~s.spoiled => ShownIn(u, s, b)
    BY Zenon DEF View
<1>2. v = [open |-> u.open, selected |-> u.selected, input |-> u.input,
           output |-> u.output, running |-> u.running, cancel |-> FALSE, clicked |-> u.clicked]
    BY <1>1, UiCancel, Zenon
<1>3. /\ v.open = u.open /\ v.selected = u.selected /\ v.input = u.input
      /\ v.output = u.output /\ v.running = u.running /\ v.cancel = FALSE /\ v.clicked = u.clicked
    BY <1>2
<1> HIDE DEF v
<1>4. UiShape(v)
    BY <1>1, <1>2, <1>3 DEF UiShape
<1>5. ASSUME ~s.spoiled PROVE ShownIn(v, s, b)
    BY <1>1, <1>3, <1>5 DEF ShownIn, MainIn, TerminalIn, Button, NONE, NETWORK, TERMINAL
<1> QED
    BY <1>1, <1>4, <1>5, Zenon DEF View, v

(* Opening a window: its own state is reset, the rest of it is kept.       *)
LEMMA Opened ==
    ASSUME NEW u, UiShape(u), NEW w \in {NETWORK, TERMINAL}
    PROVE  LET v == OpenState(u, w)
           IN  /\ UiShape(v)
               /\ v.open = w /\ v.selected = u.selected /\ v.clicked = u.clicked
               /\ w = TERMINAL => v.input = <<>> /\ v.output = <<>>
<1> DEFINE v == OpenState(u, w)
<1>1. CASE w = TERMINAL
    <2>1. v = [u EXCEPT !.open = w, !.input = <<>>, !.output = <<>>]
        BY <1>1, Zenon DEF OpenState
    <2>2. v = [open |-> w, selected |-> u.selected, input |-> <<>>, output |-> <<>>,
               running |-> u.running, cancel |-> u.cancel, clicked |-> u.clicked]
        BY <2>1, UiOpenInputOutput, Zenon
    <2> HIDE DEF v
    <2>3. /\ v.open = w /\ v.selected = u.selected /\ v.input = <<>> /\ v.output = <<>>
          /\ v.running = u.running /\ v.cancel = u.cancel /\ v.clicked = u.clicked
        BY <2>2
    <2>4. UiShape(v)
        BY <2>2, <2>3 DEF UiShape
    <2> QED
        BY <2>3, <2>4, Zenon DEF v
<1>2. CASE w # TERMINAL
    <2>1. v = [u EXCEPT !.open = w]
        BY <1>2, Zenon DEF OpenState
    <2>2. v = [open |-> w, selected |-> u.selected, input |-> u.input, output |-> u.output,
               running |-> u.running, cancel |-> u.cancel, clicked |-> u.clicked]
        BY <2>1, UiOpen, Zenon
    <2> HIDE DEF v
    <2>3. /\ v.open = w /\ v.selected = u.selected /\ v.input = u.input /\ v.output = u.output
          /\ v.running = u.running /\ v.cancel = u.cancel /\ v.clicked = u.clicked
        BY <2>2
    <2>4. UiShape(v)
        BY <2>2, <2>3 DEF UiShape
    <2> QED
        BY <1>2, <2>3, <2>4, Zenon DEF v
<1> QED
    BY <1>1, <1>2, Zenon

(* Selecting a button by a click.                                          *)
LEMMA SelectedByClick ==
    ASSUME NEW u, UiShape(u), NEW w \in {NETWORK, TERMINAL}
    PROVE  LET v == [u EXCEPT !.selected = w, !.clicked = TRUE]
           IN  /\ UiShape(v)
               /\ v.open = u.open /\ v.selected = w /\ v.clicked = TRUE
               /\ v.input = u.input /\ v.output = u.output
<1> DEFINE v == [u EXCEPT !.selected = w, !.clicked = TRUE]
<1>1. v = [open |-> u.open, selected |-> w, input |-> u.input, output |-> u.output,
           running |-> u.running, cancel |-> u.cancel, clicked |-> TRUE]
    BY UiSelectedClicked, Zenon
<1> HIDE DEF v
<1>2. /\ v.open = u.open /\ v.selected = w /\ v.input = u.input /\ v.output = u.output
      /\ v.running = u.running /\ v.cancel = u.cancel /\ v.clicked = TRUE
    BY <1>1
<1>3. UiShape(v)
    BY <1>1, <1>2 DEF UiShape
<1> QED
    BY <1>2, <1>3, Zenon DEF v

(* Selecting a button by a key.                                            *)
LEMMA SelectedByKey ==
    ASSUME NEW u, UiShape(u), NEW w \in {NETWORK, TERMINAL}
    PROVE  LET v == [u EXCEPT !.selected = w, !.clicked = FALSE]
           IN  /\ UiShape(v)
               /\ v.open = u.open /\ v.selected = w /\ v.clicked = FALSE
               /\ v.input = u.input /\ v.output = u.output
<1> DEFINE v == [u EXCEPT !.selected = w, !.clicked = FALSE]
<1>1. v = [open |-> u.open, selected |-> w, input |-> u.input, output |-> u.output,
           running |-> u.running, cancel |-> u.cancel, clicked |-> FALSE]
    BY UiSelectedClicked, Zenon
<1> HIDE DEF v
<1>2. /\ v.open = u.open /\ v.selected = w /\ v.input = u.input /\ v.output = u.output
      /\ v.running = u.running /\ v.cancel = u.cancel /\ v.clicked = FALSE
    BY <1>1
<1>3. UiShape(v)
    BY <1>1, <1>2 DEF UiShape
<1> QED
    BY <1>2, <1>3, Zenon DEF v

(* Opening a window from the main screen saves what was there.             *)
LEMMA ViewOpen ==
    ASSUME NEW u, NEW s, NEW b, NEW v, NEW w \in {NETWORK, TERMINAL}, NEW t,
           View(u, s, b), u.open = NONE, UiShape(v), v.open = w,
           v.clicked = TRUE \/ (v.clicked = u.clicked /\ v.selected = u.selected),
           t = IF w = TERMINAL THEN draw_terminal_window(s, v) ELSE draw_network_window(s)
    PROVE  View(v, t, [valid |-> TRUE, content |-> s])
<1> DEFINE a == [valid |-> TRUE, content |-> s]
<1>1. /\ UiShape(u) /\ ScreenShape(s) /\ BackShape(b)
      /\ ~s.spoiled => ShownIn(u, s, b)
    BY Zenon DEF View
<1>2. a.valid = TRUE /\ a.content = s
    OBVIOUS
<1>3. BackShape(a)
    BY <1>1, <1>2 DEF BackShape
<1> HIDE DEF a
<1>4. CASE w = TERMINAL
    <2>1. t = draw_terminal_window(s, v)
        BY <1>4, Zenon
    <2>2. /\ ScreenShape(t)
          /\ t.area = TERMINAL /\ t.input = v.input /\ t.output = v.output
          /\ t.button = Button(v) /\ t.highlight = s.highlight
          /\ t.spoiled <=> (s.spoiled \/ v.open # TERMINAL)
        <3> DEFINE d == draw_terminal_window(s, v)
        <3>1. /\ ScreenShape(d)
              /\ d.area = TERMINAL /\ d.input = v.input /\ d.output = v.output
              /\ d.button = Button(v) /\ d.highlight = s.highlight
              /\ d.spoiled <=> (s.spoiled \/ v.open # TERMINAL)
            BY DrawWindow, Zenon
        <3>2. t = d
            BY <2>1, SMTT(30), ZenonT(30)
        <3> HIDE DEF d
        <3> QED
            BY <3>1, <3>2
    <2>3. ASSUME ~t.spoiled PROVE ShownIn(v, t, a)
        BY <1>1, <1>2, <1>4, <2>2, <2>3
           DEF ShownIn, MainIn, TerminalIn, NONE, NETWORK, TERMINAL
    <2> QED
        BY <1>3, <2>2, <2>3, Zenon DEF View, a
<1>5. CASE w = NETWORK
    <2>1. t = draw_network_window(s)
        BY <1>5 DEF NETWORK, TERMINAL
    <2>2. t.area = NETWORK /\ t.spoiled = s.spoiled
        BY <2>1 DEF draw_network_window, Plain
    <2>3. ScreenShape(t)
        BY <1>1, <2>1, SMTT(30), ZenonT(30) DEF ScreenShape, draw_network_window, Plain
    <2>4. ASSUME ~t.spoiled PROVE ShownIn(v, t, a)
        BY <1>1, <1>2, <1>5, <2>2, <2>4
           DEF ShownIn, MainIn, TerminalIn, NONE, NETWORK, TERMINAL
    <2> QED
        BY <1>3, <2>3, <2>4, Zenon DEF View, a
<1> QED
    BY <1>4, <1>5, Zenon

(* The state of the windows without a window.                              *)
LEMMA Closed ==
    ASSUME NEW u, UiShape(u), NEW v,
           v = [u EXCEPT !.open = NONE, !.input = <<>>, !.output = <<>>]
    PROVE  v = [open |-> NONE, selected |-> u.selected, input |-> <<>>, output |-> <<>>,
                running |-> u.running, cancel |-> u.cancel, clicked |-> u.clicked]
BY UiOpenInputOutput, Zenon

(* The backing store, set valid or not.                                    *)
LEMMA Validity ==
    ASSUME NEW b, BackShape(b), NEW p
    PROVE  LET a == [b EXCEPT !.valid = p]
           IN  a = [valid |-> p, content |-> b.content] /\ a.valid = p /\ a.content = b.content
BY DEF BackShape

(* Closing a window brings the saved main screen back.                     *)
LEMMA ViewClose ==
    ASSUME View(ui, screen, backing), ui.open # NONE, close_window
    PROVE  View(ui', screen', backing')
<1> DEFINE v == [ui EXCEPT !.open = NONE, !.input = <<>>, !.output = <<>>]
<1>1. /\ UiShape(ui) /\ ScreenShape(screen) /\ BackShape(backing)
      /\ ~screen.spoiled => ShownIn(ui, screen, backing)
    BY Zenon DEF View
<1>2. ui' = v /\ restore_window_backing
    BY Zenon DEF close_window
<1>v. v = [ui EXCEPT !.open = NONE, !.input = <<>>, !.output = <<>>]
    OBVIOUS
<1> HIDE DEF v
<1>3. v = [open |-> NONE, selected |-> ui.selected, input |-> <<>>, output |-> <<>>,
           running |-> ui.running, cancel |-> ui.cancel, clicked |-> ui.clicked]
    BY <1>1, <1>v, Closed, Zenon
<1>4. /\ v.open = NONE /\ v.selected = ui.selected /\ v.input = <<>> /\ v.output = <<>>
      /\ v.running = ui.running /\ v.cancel = ui.cancel /\ v.clicked = ui.clicked
    BY <1>3
<1>5. UiShape(v)
    BY <1>1, <1>3, <1>4 DEF UiShape
<1>6. CASE backing.valid
    <2> DEFINE c == backing.content
               t == [c EXCEPT !.spoiled = screen.spoiled]
               a == [backing EXCEPT !.valid = FALSE]
    <2>1. screen' = t /\ backing' = a
        BY <1>2, <1>6, Zenon DEF restore_window_backing
    <2>2. t = [area |-> c.area, input |-> c.input, output |-> c.output, button |-> c.button,
               highlight |-> c.highlight, spoiled |-> screen.spoiled]
        BY <1>1 DEF BackShape, ScreenShape
    <2>3. /\ t.area = c.area /\ t.input = c.input /\ t.output = c.output
          /\ t.button = c.button /\ t.highlight = c.highlight /\ t.spoiled = screen.spoiled
        BY <2>2
    <2>4. ScreenShape(t)
        <3> HIDE DEF t
        <3> QED
            BY <1>1, <2>2, <2>3, Zenon DEF ScreenShape
    <2>5. BackShape(a)
        <3>1. a = [valid |-> FALSE, content |-> c] /\ a.valid = FALSE /\ a.content = c
            BY <1>1, Validity, Zenon
        <3> HIDE DEF a
        <3>2. ScreenShape(a.content)
            BY <1>1, <3>1, Zenon DEF BackShape
        <3> HIDE DEF c
        <3> QED
            BY <3>1, <3>2 DEF BackShape
    <2> HIDE DEF t, a
    <2>6. ASSUME ~t.spoiled PROVE ShownIn(v, t, a)
        BY <1>1, <1>4, <2>3, <2>6 DEF ShownIn, MainIn, TerminalIn, NONE, NETWORK, TERMINAL
    <2> QED
        BY <1>2, <1>5, <2>1, <2>4, <2>5, <2>6, Zenon DEF View
<1>7. CASE ~backing.valid
    <2>1. screen' = screen /\ backing' = backing
        BY <1>2, <1>7, Zenon DEF restore_window_backing
    <2>2. screen.spoiled
        BY <1>1, <1>7, Zenon DEF ShownIn
    <2> QED
        BY <1>1, <1>2, <1>5, <2>1, <2>2, Zenon DEF View
<1> QED
    BY <1>6, <1>7, Zenon

(* A request to cancel, from wherever it comes.                            *)
LEMMA ViewRequest ==
    ASSUME NEW u, View(u, screen, backing), request_cancel(u), UNCHANGED backing
    PROVE  View(ui', screen', backing')
<1> DEFINE v == [u EXCEPT !.cancel = TRUE, !.output = Append(@, "^C")]
<1>1. CASE u.running
    <2>1. ui' = v /\ screen' = draw_terminal_window(screen, ui')
        BY <1>1, Zenon DEF request_cancel
    <2>2. screen' = draw_terminal_window(screen, v)
        BY <2>1, Zenon
    <2>3. View(v, draw_terminal_window(screen, v), backing)
        BY ViewCancel, Zenon
    <2> HIDE DEF v
    <2> QED
        BY <2>1, <2>2, <2>3, Zenon
<1>2. CASE ~u.running
    BY <1>2, Zenon DEF request_cancel
<1> QED
    BY <1>1, <1>2, Zenon

(* Entering a command.                                                     *)
LEMMA ViewExecute ==
    ASSUME View(ui, screen, backing), terminal_execute_command, UNCHANGED backing
    PROVE  /\ View(ui', screen', backing')
           /\ tick' = tick \/ tick' \in {"elf", "wasm"}
<1>1. CASE ~CanExecute
    BY <1>1, Zenon DEF terminal_execute_command
<1>2. View(Started, StartScreen, backing)
    BY ViewStart, Zenon DEF Started, StartScreen, StartButton
<1>3. CASE CanExecute
    <2>1. CASE Complete(Started, StartScreen, <<CommandName>>) /\ UNCHANGED tick
        <3> DEFINE u == Started
                   s == StartScreen
                   x == <<CommandName>>
                   v == [u EXCEPT !.output = x, !.running = FALSE]
        <3> HIDE DEF u, s, x
        <3>1. View(v, draw_terminal_button_only(draw_terminal_output_only(s, v), v), backing)
            BY <1>2, ViewComplete, Zenon DEF u, s
        <3>2. ui' = v
            BY <2>1, Zenon DEF Complete, u, s, x
        <3>3. screen' = draw_terminal_button_only(draw_terminal_output_only(s, ui'), ui')
            BY <2>1, Zenon DEF Complete, u, s, x
        <3> HIDE DEF v
        <3> QED
            BY <2>1, <3>1, <3>2, <3>3, Zenon
    <2>2. CASE /\ ui' = Started /\ screen' = StartScreen
               /\ tick' \in {"elf", "wasm"}
        BY <1>2, <2>2, Zenon
    <2> QED
        BY <1>3, <2>1, <2>2, Zenon DEF terminal_execute_command
<1> QED
    BY <1>1, <1>3, Zenon

(* Where gpuid's hart is after an event: in the program it started, if any. *)
HandlerEnds == tick' = tick \/ tick' \in {"elf", "wasm"}

(* A character in the terminal.                                            *)
LEMMA ViewChar ==
    ASSUME NEW ch, View(ui, screen, backing), handle_terminal_char(ch)
    PROVE  View(ui', screen', backing') /\ HandlerEnds
<1>1. UNCHANGED backing /\ HandlerEnds
    BY Zenon DEF handle_terminal_char, HandlerEnds
<1>2. CASE ch = "^C"
    <2>1. request_cancel([ui EXCEPT !.input = <<>>])
        BY <1>2, Zenon DEF handle_terminal_char
    <2> DEFINE u == [ui EXCEPT !.input = <<>>]
    <2>2. View(u, screen, backing) /\ request_cancel(u)
        BY <2>1, ViewCleared, Zenon
    <2> HIDE DEF u
    <2> QED
        BY <1>1, <2>2, ViewRequest
<1>3. CASE UNCHANGED <<ui, screen>>
    BY <1>1, <1>3, Zenon
<1>4. CASE /\ ui' = [ui EXCEPT !.input = Append(@, ch)]
           /\ screen' = draw_terminal_input_only(screen, ui')
    <2> DEFINE v == [ui EXCEPT !.input = Append(@, ch)]
    <2>1. View(v, draw_terminal_input_only(screen, v), backing)
        BY ViewInput, Zenon
    <2>2. ui' = v
        BY <1>4, Zenon
    <2> HIDE DEF v
    <2> QED
        BY <1>1, <1>4, <2>1, <2>2, Zenon
<1> QED
    BY <1>2, <1>3, <1>4, Zenon DEF handle_terminal_char

(* A click in an open window.                                              *)
LEMMA ViewWindowClicked ==
    ASSUME View(ui, screen, backing), ui.open # NONE, window_clicked
    PROVE  View(ui', screen', backing') /\ HandlerEnds
<1>1. CASE close_window /\ UNCHANGED tick
    BY <1>1, ViewClose DEF HandlerEnds
<1>2. CASE request_cancel(ui) /\ UNCHANGED tick /\ UNCHANGED backing
    <2>1. View(ui', screen', backing')
        <3> DEFINE u == ui
        <3> QED
            BY <1>2, ViewRequest
    <2> QED
        BY <1>2, <2>1, Zenon DEF HandlerEnds
<1>3. CASE terminal_execute_command /\ UNCHANGED backing
    BY <1>3, ViewExecute, Zenon DEF HandlerEnds
<1>4. CASE UNCHANGED <<ui_vars, tick>>
    BY <1>4, Zenon DEF ui_vars, HandlerEnds
<1> QED
    BY <1>1, <1>2, <1>3, <1>4, Zenon DEF window_clicked

(* A click on the main screen.                                             *)
LEMMA ViewMainClicked ==
    ASSUME View(ui, screen, backing), ui.open = NONE, main_screen_clicked
    PROVE  View(ui', screen', backing') /\ HandlerEnds
<1> DEFINE w == hit_test_main_screen_button(cursor.x, cursor.y)
<1>1. w \in {NONE, NETWORK, TERMINAL}
    BY DEF hit_test_main_screen_button
<1>2. \/ w = NONE /\ UNCHANGED <<ui_vars, tick>>
      \/ /\ w # NONE
         /\ ui' = [OpenState(ui, w) EXCEPT !.selected = w, !.clicked = TRUE]
         /\ draw_child_window(w)
         /\ UNCHANGED tick
    BY Zenon DEF main_screen_clicked
<1> HIDE DEF w
<1>3. CASE w = NONE /\ UNCHANGED <<ui_vars, tick>>
    BY <1>3, Zenon DEF ui_vars, HandlerEnds
<1>4. CASE /\ w # NONE
           /\ ui' = [OpenState(ui, w) EXCEPT !.selected = w, !.clicked = TRUE]
           /\ draw_child_window(w)
           /\ UNCHANGED tick
    <2> DEFINE o == OpenState(ui, w)
               v == [o EXCEPT !.selected = w, !.clicked = TRUE]
               t == IF w = TERMINAL THEN draw_terminal_window(screen, v)
                    ELSE draw_network_window(screen)
    <2>1. w \in {NETWORK, TERMINAL}
        BY <1>1, <1>4, Zenon
    <2>2. UiShape(o) /\ o.open = w
        BY <2>1, Opened, Zenon DEF View
    <2>3. ui' = v
        BY <1>4, Zenon
    <2> HIDE DEF o
    <2>4. UiShape(v) /\ v.open = w /\ v.clicked = TRUE
        BY <2>1, <2>2, SelectedByClick, Zenon
    <2> HIDE DEF v
    <2>5. screen' = t /\ backing' = [valid |-> TRUE, content |-> screen]
        BY <1>4, <2>3, Zenon DEF draw_child_window, save_window_backing
    <2>6. View(v, t, [valid |-> TRUE, content |-> screen])
        BY <2>1, <2>4, ViewOpen, Zenon
    <2> HIDE DEF t
    <2> QED
        BY <1>4, <2>3, <2>5, <2>6, Zenon DEF HandlerEnds
<1> QED
    BY <1>2, <1>3, <1>4, Zenon

(* A key on the main screen.                                               *)
LEMMA ViewMainKey ==
    ASSUME NEW code, View(ui, screen, backing), ui.open = NONE, key_on_main_screen(code)
    PROVE  View(ui', screen', backing') /\ HandlerEnds
<1>1. /\ UiShape(ui) /\ ScreenShape(screen) /\ BackShape(backing)
      /\ ~screen.spoiled => ShownIn(ui, screen, backing)
    BY Zenon DEF View
<1>2. ASSUME NEW w \in {NETWORK, TERMINAL},
             ui' = [ui EXCEPT !.selected = w, !.clicked = FALSE],
             screen' = update_main_screen_buttons(screen, w),
             UNCHANGED <<backing, tick>>
      PROVE  View(ui', screen', backing') /\ HandlerEnds
    <2> DEFINE v == [ui EXCEPT !.selected = w, !.clicked = FALSE]
               t == [screen EXCEPT !.highlight = w]
    <2>1. /\ UiShape(v) /\ v.open = ui.open /\ v.selected = w /\ v.clicked = FALSE
          /\ v.input = ui.input /\ v.output = ui.output
        BY <1>1, SelectedByKey, Zenon
    <2>2. t = [area |-> screen.area, input |-> screen.input, output |-> screen.output,
               button |-> screen.button, highlight |-> w, spoiled |-> screen.spoiled]
        BY <1>1 DEF ScreenShape
    <2>3. /\ t.area = screen.area /\ t.input = screen.input /\ t.output = screen.output
          /\ t.button = screen.button /\ t.highlight = w /\ t.spoiled = screen.spoiled
        BY <2>2
    <2>4. ui' = v /\ screen' = t /\ backing' = backing /\ HandlerEnds
        BY <1>2, Zenon DEF update_main_screen_buttons, HandlerEnds
    <2> HIDE DEF v, t
    <2>5. ScreenShape(t)
        BY <1>1, <2>2, <2>3, Zenon DEF ScreenShape
    <2>6. ASSUME ~t.spoiled PROVE ShownIn(v, t, backing)
        BY <1>1, <2>1, <2>3, <2>6 DEF ShownIn, MainIn, NONE, NETWORK, TERMINAL
    <2> QED
        BY <1>1, <2>1, <2>4, <2>5, <2>6, Zenon DEF View
<1>3. CASE UNCHANGED <<ui, screen, backing, tick>>
    BY <1>3, Zenon DEF HandlerEnds
<1>4. CASE /\ ui' = OpenState(ui, ui.selected)
           /\ draw_child_window(ui.selected)
           /\ UNCHANGED tick
    <2> DEFINE w == ui.selected
               v == OpenState(ui, w)
               t == IF w = TERMINAL THEN draw_terminal_window(screen, v)
                    ELSE draw_network_window(screen)
    <2>1. w \in {NETWORK, TERMINAL}
        BY <1>1, Zenon DEF UiShape
    <2>2. UiShape(v) /\ v.open = w /\ v.clicked = ui.clicked /\ v.selected = ui.selected
        BY <1>1, <2>1, Opened, Zenon
    <2>3. ui' = v
        BY <1>4, Zenon
    <2> HIDE DEF v
    <2>5. screen' = t /\ backing' = [valid |-> TRUE, content |-> screen]
        BY <1>4, <2>3, Zenon DEF draw_child_window, save_window_backing
    <2>6. View(v, t, [valid |-> TRUE, content |-> screen])
        BY <2>1, <2>2, ViewOpen, Zenon
    <2> HIDE DEF t
    <2> QED
        BY <1>4, <2>3, <2>5, <2>6, Zenon DEF HandlerEnds
<1> QED
    BY <1>2, <1>3, <1>4, Zenon DEF key_on_main_screen, ui_vars

(* A key while a window is open.                                           *)
LEMMA ViewWindowKey ==
    ASSUME NEW code, View(ui, screen, backing), ui.open # NONE, key_in_window(code)
    PROVE  View(ui', screen', backing') /\ HandlerEnds
<1>1. CASE request_cancel(ui) /\ UNCHANGED backing /\ UNCHANGED tick
    BY <1>1, ViewRequest DEF HandlerEnds
<1>2. CASE close_window /\ UNCHANGED tick
    BY <1>2, ViewClose DEF HandlerEnds
<1>3. CASE terminal_execute_command /\ UNCHANGED backing
    BY <1>3, ViewExecute, Zenon DEF HandlerEnds
<1>4. CASE /\ ui' = [ui EXCEPT !.input = SubSeq(@, 1, Len(@) - 1)]
           /\ screen' = draw_terminal_input_only(screen, ui')
           /\ UNCHANGED <<backing, tick>>
    <2> DEFINE v == [ui EXCEPT !.input = SubSeq(@, 1, Len(@) - 1)]
    <2>1. View(v, draw_terminal_input_only(screen, v), backing)
        BY ViewInput, Zenon
    <2>2. ui' = v
        BY <1>4, Zenon
    <2> HIDE DEF v
    <2> QED
        BY <1>4, <2>1, <2>2, Zenon DEF HandlerEnds
<1>5. CASE UNCHANGED <<ui, screen, backing, tick>>
    BY <1>5, Zenon DEF HandlerEnds
<1>6. CASE handle_terminal_char(Head(key_code_to_ascii(code)))
    BY <1>6, ViewChar
<1> QED
    BY <1>1, <1>2, <1>3, <1>4, <1>5, <1>6, Zenon
       DEF key_in_window, handle_terminal_input, ui_vars

(* Any event.                                                              *)
LEMMA ViewHandled ==
    ASSUME NEW e, View(ui, screen, backing), handle_main_screen_input(e)
    PROVE  View(ui', screen', backing') /\ HandlerEnds
<1>1. CASE UNCHANGED <<ui_vars, tick>>
    BY <1>1, Zenon DEF ui_vars, HandlerEnds
<1>2. CASE char_typed(e)
    <2>1. CASE ui.open = TERMINAL
        <3>1. handle_terminal_char(e.code)
            BY <1>2, <2>1, Zenon DEF char_typed
        <3> QED
            BY <3>1, ViewChar
    <2>2. CASE ui.open # TERMINAL
        BY <1>1, <1>2, <2>2, Zenon DEF char_typed
    <2> QED
        BY <2>1, <2>2, Zenon
<1>3. CASE touch_pressed(e)
    BY <1>3, ViewMainClicked, ViewWindowClicked, Zenon DEF touch_pressed
<1>4. CASE key_pressed(e)
    <2>1. CASE ui.open = NONE
        <3>1. key_on_main_screen(e.code)
            BY <1>4, <2>1, Zenon DEF key_pressed
        <3> QED
            BY <2>1, <3>1, ViewMainKey
    <2>2. CASE ui.open # NONE
        <3>1. key_in_window(e.code)
            BY <1>4, <2>2, Zenon DEF key_pressed
        <3> QED
            BY <2>2, <3>1, ViewWindowKey
    <2> QED
        BY <2>1, <2>2, Zenon
<1> QED
    BY <1>1, <1>2, <1>3, <1>4, Zenon
       DEF handle_main_screen_input, pointer_moved, nothing_to_do

----------------------------------------------------------------------------
(* Windows: every step *)

Booted == tick \notin {"boot", "setup"}
ViewInv ==
    /\ UiShape(ui) /\ ScreenShape(screen) /\ BackShape(backing)
    /\ Booted => View(ui, screen, backing)
    /\ ~Booted => ui.open = NONE

(* The end of a command, from whichever place it is noticed.               *)
LEMMA ViewEnded ==
    ASSUME NEW u, NEW x, View(u, screen, backing), Complete(u, screen, x), UNCHANGED backing
    PROVE  View(ui', screen', backing')
<1> DEFINE v == [u EXCEPT !.output = x, !.running = FALSE]
<1>1. View(v, draw_terminal_button_only(draw_terminal_output_only(screen, v), v), backing)
    BY ViewComplete, Zenon
<1>2. ui' = v
    BY Zenon DEF Complete
<1>3. screen' = draw_terminal_button_only(draw_terminal_output_only(screen, ui'), ui')
    BY Zenon DEF Complete
<1> HIDE DEF v
<1> QED
    BY <1>1, <1>2, <1>3, Zenon

(* The cleared screen.                                                     *)
LEMMA Black ==
    LET t == Plain("black", [highlight |-> NONE, spoiled |-> TRUE])
    IN  ScreenShape(t) /\ t.spoiled = TRUE
<1> DEFINE h == [highlight |-> NONE, spoiled |-> TRUE]
           t == Plain("black", h)
<1>1. h.highlight = NONE /\ h.spoiled = TRUE
    OBVIOUS
<1> HIDE DEF h
<1>2. t = [area |-> "black", input |-> Blank, output |-> Blank, button |-> "blank",
           highlight |-> h.highlight, spoiled |-> h.spoiled]
    BY Zenon DEF Plain
<1>3. /\ t.area = "black" /\ t.input = Blank /\ t.output = Blank /\ t.button = "blank"
      /\ t.highlight = h.highlight /\ t.spoiled = h.spoiled
    BY <1>2
<1> HIDE DEF t
<1>4. t.spoiled \in BOOLEAN
    BY <1>1, <1>3, Zenon
<1> QED
    BY <1>1, <1>2, <1>3, <1>4, Zenon DEF ScreenShape, t, h

(* The main screen drawn by setup_main_screen.                             *)
LEMMA Drawn ==
    ASSUME ViewInv, ui.open = NONE, UNCHANGED backing,
           ui' = [ui EXCEPT !.selected = NETWORK],
           screen' = draw_main_screen_content(NETWORK)
    PROVE  View(ui', screen', backing')
<1> DEFINE h == [highlight |-> NETWORK, spoiled |-> FALSE]
           t == Plain("main", h)
<1>1. h.highlight = NETWORK /\ h.spoiled = FALSE
    OBVIOUS
<1> HIDE DEF h
<1>2. t = [area |-> "main", input |-> Blank, output |-> Blank, button |-> "blank",
           highlight |-> h.highlight, spoiled |-> h.spoiled]
    BY Zenon DEF Plain
<1>3. /\ t.area = "main" /\ t.input = Blank /\ t.output = Blank /\ t.button = "blank"
      /\ t.highlight = h.highlight /\ t.spoiled = h.spoiled
    BY <1>2
<1> HIDE DEF t
<1>4. ScreenShape(t)
    <2>1. t.spoiled \in BOOLEAN
        BY <1>1, <1>3, Zenon
    <2> QED
        BY <1>2, <1>3, <2>1, Zenon DEF ScreenShape
<1>5. screen' = t
    BY Zenon DEF draw_main_screen_content, t, h
<1>6. UiShape(ui) /\ BackShape(backing)
    BY Zenon DEF ViewInv
<1>7. ui' = [open |-> ui.open, selected |-> NETWORK, input |-> ui.input,
             output |-> ui.output, running |-> ui.running, cancel |-> ui.cancel,
             clicked |-> ui.clicked]
    BY <1>6 DEF UiShape
<1> DEFINE v == ui'
<1> HIDE DEF v
<1>8. v = [open |-> ui.open, selected |-> NETWORK, input |-> ui.input,
           output |-> ui.output, running |-> ui.running, cancel |-> ui.cancel,
           clicked |-> ui.clicked]
    BY <1>7, Zenon DEF v
<1>9. /\ v.open = ui.open /\ v.selected = NETWORK /\ v.input = ui.input
      /\ v.output = ui.output /\ v.running = ui.running /\ v.cancel = ui.cancel
      /\ v.clicked = ui.clicked
    BY <1>8
<1>10. UiShape(v)
    BY <1>6, <1>8, <1>9 DEF UiShape
<1>11. ShownIn(v, t, backing)
    BY <1>1, <1>3, <1>9 DEF ShownIn, MainIn, NONE, NETWORK, TERMINAL
<1> QED
    BY <1>4, <1>5, <1>6, <1>10, <1>11, Zenon DEF View, v

(* The numbers on the main screen.                                         *)
LEMMA Refreshed ==
    ASSUME View(ui, screen, backing), UNCHANGED <<ui, backing>>,
           \/ UNCHANGED screen
           \/ ui.open = NONE /\ screen' = draw_stats(screen)
    PROVE  View(ui', screen', backing')
<1>1. CASE UNCHANGED screen
    BY <1>1, Zenon
<1>2. CASE ui.open = NONE /\ screen.area = "main" /\ screen' = draw_stats(screen)
    BY <1>2, Zenon DEF draw_stats
<1>3. CASE ui.open = NONE /\ screen.area # "main" /\ screen' = draw_stats(screen)
    <2>1. /\ UiShape(ui) /\ ScreenShape(screen) /\ BackShape(backing)
          /\ ~screen.spoiled => ShownIn(ui, screen, backing)
        BY Zenon DEF View
    <2>2. screen.spoiled
        BY <1>3, <2>1, Zenon DEF ShownIn, MainIn
    <2> DEFINE t == [screen EXCEPT !.area = "stats"]
    <2>3. t = [area |-> "stats", input |-> screen.input, output |-> screen.output,
               button |-> screen.button, highlight |-> screen.highlight,
               spoiled |-> screen.spoiled]
        BY <2>1 DEF ScreenShape
    <2>4. /\ t.area = "stats" /\ t.input = screen.input /\ t.output = screen.output
          /\ t.button = screen.button /\ t.highlight = screen.highlight
          /\ t.spoiled = screen.spoiled
        BY <2>3
    <2>5. screen' = t
        BY <1>3, Zenon DEF draw_stats
    <2> HIDE DEF t
    <2>6. ScreenShape(t)
        BY <2>1, <2>3, <2>4, Zenon DEF ScreenShape
    <2>7. t.spoiled
        BY <2>2, <2>4, Zenon
    <2> QED
        BY <2>1, <2>5, <2>6, <2>7, Zenon DEF View
<1> QED
    BY <1>1, <1>2, <1>3, Zenon

(* Once booted, a step that keeps the view keeps the invariant.            *)
LEMMA ViewKept ==
    ASSUME Booted', View(ui', screen', backing')
    PROVE  ViewInv'
BY Zenon DEF ViewInv, View, Booted

(* The screen shows the open window whatever step is taken.                *)
LEMMA ViewStep ==
    ASSUME ViewInv, [Next]_vars
    PROVE  ViewInv'
<1>1. ASSUME UNCHANGED <<ui, screen, backing, tick>> PROVE ViewInv'
    BY <1>1, Zenon DEF ViewInv, Booted
<1>2. ASSUME UNCHANGED <<ui, screen, backing>>, Booted, Booted' PROVE ViewInv'
    <2>1. View(ui, screen, backing)
        BY <1>2, Zenon DEF ViewInv
    <2>2. View(ui', screen', backing')
        BY <1>2, <2>1, Zenon
    <2> QED
        BY <1>2, <2>2, ViewKept, Zenon
<1>3. CASE User
    BY <1>1, <1>3, Zenon DEF User, user_acts, user_lifts, ui_vars
<1>4. CASE handle_late_request
    <2>1. UNCHANGED <<ui, backing, tick>>
        BY <1>4, Zenon DEF handle_late_request
    <2>2. CASE UNCHANGED screen
        BY <1>1, <2>1, <2>2, Zenon
    <2>3. CASE clear_display
        <3> DEFINE t == Plain("black", [highlight |-> NONE, spoiled |-> TRUE])
        <3>1. ScreenShape(t) /\ t.spoiled = TRUE
            BY Black, Zenon
        <3>2. screen' = t
            BY <2>3, Zenon DEF clear_display
        <3> HIDE DEF t
        <3>3. UiShape(ui) /\ BackShape(backing) /\ (~Booted => ui.open = NONE)
            BY Zenon DEF ViewInv
        <3>4. UiShape(ui') /\ BackShape(backing') /\ ScreenShape(screen') /\ screen'.spoiled
            BY <2>1, <3>1, <3>2, <3>3, Zenon
        <3>5. View(ui', screen', backing') /\ (~Booted' => ui'.open = NONE)
            BY <2>1, <3>3, <3>4, Zenon DEF View, Booted
        <3> QED
            BY <3>4, <3>5, Zenon DEF ViewInv
    <2> QED
        BY <1>4, <2>2, <2>3, Zenon DEF handle_late_request
<1>5. CASE boot_clears
    <2>1. tick = "boot" /\ tick' = "setup" /\ UNCHANGED <<ui, backing>>
        BY <1>5, Zenon DEF boot_clears
    <2>2. UiShape(ui) /\ BackShape(backing) /\ ui.open = NONE /\ ScreenShape(screen)
        BY <2>1, Zenon DEF ViewInv, Booted
    <2>3. ScreenShape(screen')
        <3>1. CASE UNCHANGED screen
            BY <2>2, <3>1, Zenon
        <3>2. CASE clear_display
            BY <3>2, Black, Zenon DEF clear_display
        <3> QED
            BY <1>5, <3>1, <3>2, Zenon DEF boot_clears, proxy_clear_display
    <2>4. UiShape(ui') /\ BackShape(backing') /\ ui'.open = NONE
        BY <2>1, <2>2, Zenon
    <2>5. ~Booted'
        BY <2>1, Zenon DEF Booted
    <2> QED
        BY <2>3, <2>4, <2>5, Zenon DEF ViewInv
<1>6. CASE setup_main_screen
    <2>1. /\ tick = "setup" /\ tick' = "flush" /\ UNCHANGED backing
          /\ ui' = [ui EXCEPT !.selected = NETWORK]
          /\ screen' = draw_main_screen_content(NETWORK)
        BY <1>6, Zenon DEF setup_main_screen
    <2>2. ui.open = NONE
        BY <2>1, Zenon DEF ViewInv, Booted
    <2>3. View(ui', screen', backing')
        BY <2>1, <2>2, Drawn, Zenon
    <2>4. Booted'
        BY <2>1 DEF Booted
    <2> QED
        BY <2>3, <2>4, ViewKept, Zenon
<1>7. CASE tick_starts
    <2>1. UNCHANGED <<ui, screen, backing>> /\ tick \in {"idle", "requeued"} /\ tick' = "events"
        BY <1>7, Zenon DEF tick_starts, Ready, ui_vars
    <2>2. Booted /\ Booted'
        BY <2>1 DEF Booted
    <2> QED
        BY <1>2, <2>1, <2>2, Zenon
<1>8. CASE tick_handles_event \/ wasm_handles_event
    <2>1. tick \in {"events", "wasm"} /\ handle_main_screen_input(Head(touch.events))
        BY <1>8, Zenon DEF tick_handles_event, wasm_handles_event
    <2>2. Booted
        BY <2>1 DEF Booted
    <2>3. View(ui, screen, backing)
        BY <2>2, Zenon DEF ViewInv
    <2>4. View(ui', screen', backing') /\ HandlerEnds
        BY <2>1, <2>3, ViewHandled
    <2>5. Booted'
        BY <2>1, <2>4 DEF HandlerEnds, Booted
    <2> QED
        BY <2>4, <2>5, ViewKept, Zenon
<1>9. CASE tick_drained
    <2>1. /\ tick = "events" /\ tick' = "stats" /\ UNCHANGED backing
          /\ check_gui_command_completion
        BY <1>9, Zenon DEF tick_drained
    <2>2. Booted /\ Booted'
        BY <2>1 DEF Booted
    <2>3. View(ui, screen, backing)
        BY <2>2, Zenon DEF ViewInv
    <2>4. CASE UNCHANGED <<ui, screen>>
        BY <1>2, <2>1, <2>2, <2>4, Zenon
    <2>5. CASE Complete(ui, screen, Head(cmd.result))
        <3>1. View(ui', screen', backing')
            BY <2>1, <2>3, <2>5, ViewEnded
        <3> QED
            BY <2>2, <3>1, ViewKept, Zenon
    <2> QED
        BY <2>1, <2>4, <2>5, Zenon DEF check_gui_command_completion
<1>10. CASE update_main_screen_hardware_stats
    <2>1. /\ tick = "stats" /\ tick' = "flush" /\ UNCHANGED <<ui, backing>>
          /\ screen' = IF ~had_input /\ ui.open = NONE THEN draw_stats(screen) ELSE screen
        BY <1>10, Zenon DEF update_main_screen_hardware_stats
    <2>2. Booted /\ Booted'
        BY <2>1 DEF Booted
    <2>3. View(ui, screen, backing)
        BY <2>2, Zenon DEF ViewInv
    <2>4. View(ui', screen', backing')
        BY <2>1, <2>3, Refreshed, Zenon
    <2> QED
        BY <2>2, <2>4, ViewKept, Zenon
<1>11. CASE tick_flushes
    <2>1. UNCHANGED <<ui, screen, backing>> /\ tick = "flush" /\ tick' = "idle"
        BY <1>11, Zenon DEF tick_flushes
    <2>2. Booted /\ Booted'
        BY <2>1 DEF Booted
    <2> QED
        BY <1>2, <2>1, <2>2, Zenon
<1>12. CASE program_prints \/ wasm_polls
    BY <1>1, <1>12, Zenon DEF program_prints, wasm_polls, ui_vars
<1>13. CASE elf_exits
    <2>1. /\ tick = "elf" /\ tick' = "requeued" /\ UNCHANGED <<screen, backing>>
          /\ ui' = ui \/ ui' = [ui EXCEPT !.cancel = FALSE]
        BY <1>13, Zenon DEF elf_exits, sys_should_cancel, should_cancel
    <2>2. Booted /\ Booted'
        BY <2>1 DEF Booted
    <2>3. View(ui, screen, backing)
        BY <2>2, Zenon DEF ViewInv
    <2>4. View(ui', screen', backing')
        BY <2>1, <2>3, ViewSeen, Zenon
    <2> QED
        BY <2>2, <2>4, ViewKept, Zenon
<1>14. CASE wasm_returns
    <2>1. tick = "wasm" /\ tick' = "events" /\ UNCHANGED backing
        BY <1>14, Zenon DEF wasm_returns
    <2>2. Booted /\ Booted'
        BY <2>1 DEF Booted
    <2>3. View(ui, screen, backing)
        BY <2>2, Zenon DEF ViewInv
    <2>4. PICK u \in {ui, [ui EXCEPT !.cancel = FALSE]} : Complete(u, screen, cmd.captured)
        BY <1>14, Zenon DEF wasm_returns, wasm_should_cancel, should_cancel
    <2>5. View(u, screen, backing)
        <3>1. View([ui EXCEPT !.cancel = FALSE], screen, backing)
            BY <2>3, ViewSeen, Zenon
        <3> DEFINE v == [ui EXCEPT !.cancel = FALSE]
        <3>2. u = ui \/ u = v
            BY <2>4
        <3> HIDE DEF v
        <3> QED
            BY <2>3, <3>1, <3>2, Zenon DEF v
    <2>6. View(ui', screen', backing')
        BY <2>1, <2>4, <2>5, ViewEnded
    <2> QED
        BY <2>2, <2>6, ViewKept, Zenon
<1>15. CASE wasm_sees_q
    <2>1. tick = "wasm" /\ UNCHANGED <<backing, tick>> /\ request_cancel(ui)
        BY <1>15, Zenon DEF wasm_sees_q
    <2>2. Booted /\ Booted'
        BY <2>1 DEF Booted
    <2>3. View(ui, screen, backing)
        BY <2>2, Zenon DEF ViewInv
    <2>4. View(ui', screen', backing')
        BY <2>1, <2>3, ViewRequest
    <2> QED
        BY <2>2, <2>4, ViewKept, Zenon
<1>16. CASE refresh_terminal_output
    <2> DEFINE v == [ui EXCEPT !.output = cmd.captured]
    <2>1. /\ tick = "wasm" /\ UNCHANGED <<backing, tick>> /\ ui' = v
          /\ screen' = draw_terminal_output_only(screen, ui')
        BY <1>16, Zenon DEF refresh_terminal_output
    <2>2. Booted /\ Booted'
        BY <2>1 DEF Booted
    <2>3. View(ui, screen, backing)
        BY <2>2, Zenon DEF ViewInv
    <2>4. View(v, draw_terminal_output_only(screen, v), backing)
        BY <2>3, ViewOutput, Zenon
    <2> HIDE DEF v
    <2>5. View(ui', screen', backing')
        BY <2>1, <2>4, Zenon
    <2> QED
        BY <2>2, <2>5, ViewKept, Zenon
<1>17. CASE UNCHANGED vars
    BY <1>1, <1>17, Zenon DEF vars, ui_vars
<1> QED
    BY <1>3, <1>4, <1>5, <1>6, <1>7, <1>8, <1>9, <1>10, <1>11, <1>12, <1>13, <1>14, <1>15,
       <1>16, <1>17, Zenon DEF Next, Gpuid, Programs

(* At the start no window is open.                                         *)
LEMMA ViewInit ==
    ASSUME Init
    PROVE  ViewInv
<1>1. /\ ui = [open |-> NONE, selected |-> NETWORK, input |-> <<>>, output |-> <<>>,
               running |-> FALSE, cancel |-> FALSE, clicked |-> FALSE]
      /\ screen = Plain("console", [highlight |-> NONE, spoiled |-> FALSE])
      /\ backing = [valid |-> FALSE, content |-> screen]
      /\ tick = "boot"
    BY Zenon DEF Init
<1>2. /\ ui.open = NONE /\ ui.selected = NETWORK /\ ui.input = <<>> /\ ui.output = <<>>
      /\ ui.running = FALSE /\ ui.cancel = FALSE /\ ui.clicked = FALSE
    BY <1>1
<1>3. UiShape(ui)
    <2>1. ui.running \in BOOLEAN /\ ui.clicked \in BOOLEAN
        BY <1>2, Zenon
    <2> QED
        BY <1>1, <1>2, <2>1, Zenon DEF UiShape
<1>4. ScreenShape(screen)
    <2> DEFINE h == [highlight |-> NONE, spoiled |-> FALSE]
    <2>1. h.highlight = NONE /\ h.spoiled = FALSE
        OBVIOUS
    <2>2. screen = Plain("console", h)
        BY <1>1
    <2> HIDE DEF h
    <2>3. screen = [area |-> "console", input |-> Blank, output |-> Blank,
                    button |-> "blank", highlight |-> h.highlight, spoiled |-> h.spoiled]
        BY <2>2, Zenon DEF Plain
    <2>4. /\ screen.area = "console" /\ screen.input = Blank /\ screen.output = Blank
          /\ screen.button = "blank" /\ screen.highlight = h.highlight
          /\ screen.spoiled = h.spoiled
        BY <2>3
    <2>5. screen.spoiled \in BOOLEAN
        BY <2>1, <2>4, Zenon
    <2> QED
        BY <2>3, <2>4, <2>5, Zenon DEF ScreenShape
<1>5. BackShape(backing)
    <2>1. backing.valid = FALSE /\ backing.content = screen
        BY <1>1
    <2>2. backing.valid \in BOOLEAN
        BY <2>1, Zenon
    <2> QED
        BY <1>1, <1>4, <2>1, <2>2, Zenon DEF BackShape
<1>6. ~Booted
    BY <1>1, Zenon DEF Booted
<1> QED
    BY <1>2, <1>3, <1>4, <1>5, <1>6, Zenon DEF ViewInv

----------------------------------------------------------------------------
(* The front buffer: between two ticks it is up to date, or a flush that   *)
(* gpuid gave up is still to come.                                         *)

Requests == {"TouchPoll", "TouchNextEvent", "DisplayFlush", "DisplayClear"}
Flushing(q) == \E i \in 1 .. Len(q) : q[i] = "DisplayFlush"
FlushInv ==
    /\ late \in Seq(Requests)
    /\ tick = "idle" => front = screen \/ Flushing(late)

(* A request given up is handled after the ones before it.                 *)
LEMMA Behind ==
    ASSUME NEW q \in Seq(Requests), NEW op \in Requests
    PROVE  /\ Append(q, op) \in Seq(Requests)
           /\ op = "DisplayFlush" => Flushing(Append(q, op))
<1>1. Append(q, op) \in Seq(Requests) /\ Len(q) \in Nat
    OBVIOUS
<1>2. Len(Append(q, op)) = Len(q) + 1 /\ Append(q, op)[Len(q) + 1] = op
    OBVIOUS
<1>3. Len(q) + 1 \in 1 .. Len(q) + 1
    BY <1>1
<1> QED
    BY <1>1, <1>2, <1>3, Zenon DEF Flushing

(* Handling a request leaves the others.                                   *)
LEMMA Handled ==
    ASSUME NEW q \in Seq(Requests), q # <<>>
    PROVE  /\ Tail(q) \in Seq(Requests) /\ Head(q) \in Requests
           /\ Flushing(q) => Head(q) = "DisplayFlush" \/ Flushing(Tail(q))
<1>1. /\ Tail(q) \in Seq(Requests) /\ Head(q) \in Requests /\ Len(q) \in Nat
      /\ Len(q) >= 1 /\ Len(Tail(q)) = Len(q) - 1 /\ Head(q) = q[1]
      /\ \A i \in 1 .. Len(Tail(q)) : Tail(q)[i] = q[i + 1]
    OBVIOUS
<1>2. ASSUME NEW i \in 1 .. Len(q), q[i] = "DisplayFlush", Head(q) # "DisplayFlush"
      PROVE  Flushing(Tail(q))
    <2>1. i # 1
        BY <1>1, <1>2
    <2>2. i - 1 \in 1 .. Len(Tail(q)) /\ (i - 1) + 1 = i
        BY <1>1, <2>1
    <2>3. Tail(q)[i - 1] = "DisplayFlush"
        BY <1>1, <1>2, <2>2
    <2> QED
        BY <2>2, <2>3, Zenon DEF Flushing
<1> QED
    BY <1>1, <1>2, Zenon DEF Flushing

(* The requests of gpuid are given up in order.                            *)
LEMMA GivenUpKeeps ==
    ASSUME FlushInv, NEW op \in Requests, GivenUp(op)
    PROVE  /\ late' \in Seq(Requests)
           /\ op = "DisplayFlush" => Flushing(late')
BY Behind, Zenon DEF FlushInv, GivenUp

(* The front buffer is up to date, or will be, whatever step is taken.     *)
LEMMA FlushStep ==
    ASSUME ViewInv, FlushInv, [Next]_vars
    PROVE  FlushInv'
<1>1. late \in Seq(Requests) /\ (tick = "idle" => front = screen \/ Flushing(late))
    BY Zenon DEF FlushInv
<1>2. ASSUME late' \in Seq(Requests), tick' # "idle" PROVE FlushInv'
    BY <1>2, Zenon DEF FlushInv
<1>3. ASSUME NEW op \in Requests, GivenUp(op)
      PROVE  /\ late' \in Seq(Requests)
             /\ op = "DisplayFlush" => Flushing(late')
    BY <1>3, GivenUpKeeps
<1>4. CASE UNCHANGED <<front, screen, late, tick>>
    BY <1>1, <1>4, Zenon DEF FlushInv
<1>5. CASE User \/ UNCHANGED vars
    BY <1>4, <1>5, Zenon DEF User, user_acts, user_lifts, vars, ui_vars
<1>6. CASE handle_late_request
    <2>1. late # <<>> /\ late' = Tail(late) /\ tick' = tick
        BY <1>6, Zenon DEF handle_late_request
    <2>2. /\ late' \in Seq(Requests)
          /\ Flushing(late) => Head(late) = "DisplayFlush" \/ Flushing(late')
        BY <1>1, <2>1, Handled, Zenon
    <2>3. CASE front' = screen'
        BY <2>2, <2>3, Zenon DEF FlushInv
    <2>4. CASE Head(late) # "DisplayFlush" /\ UNCHANGED <<front, screen>>
        BY <1>1, <2>1, <2>2, <2>4, Zenon DEF FlushInv
    <2>5. \/ Head(late) # "DisplayFlush" /\ UNCHANGED <<front, screen>>
          \/ front' = screen'
        BY <1>6 DEF handle_late_request, flush, clear_display
    <2> QED
        BY <2>3, <2>4, <2>5, Zenon
<1>7. CASE boot_clears
    <2>1. tick' = "setup" /\ ((late' = late) \/ GivenUp("DisplayClear"))
        BY <1>7, Zenon DEF boot_clears, proxy_clear_display, Served
    <2>2. "DisplayClear" \in Requests
        BY DEF Requests
    <2>3. late' \in Seq(Requests)
        BY <1>1, <1>3, <2>1, <2>2, Zenon
    <2> QED
        BY <1>2, <2>1, <2>3
<1>8. CASE setup_main_screen
    BY <1>1, <1>2, <1>8 DEF setup_main_screen
<1>9. CASE tick_starts
    <2>1. tick' = "events" /\ ((late' = late) \/ GivenUp("TouchPoll"))
        BY <1>9, Zenon DEF tick_starts, touch_poll, Served
    <2>2. "TouchPoll" \in Requests
        BY DEF Requests
    <2>3. late' \in Seq(Requests)
        BY <1>1, <1>3, <2>1, <2>2, Zenon
    <2> QED
        BY <1>2, <2>1, <2>3
<1>10. CASE tick_handles_event \/ wasm_handles_event
    <2>1. /\ tick \in {"events", "wasm"} /\ late' = late
          /\ handle_main_screen_input(Head(touch.events))
        BY <1>10, Zenon DEF tick_handles_event, wasm_handles_event, SomeEvent, Served
    <2>2. View(ui, screen, backing)
        <3>1. Booted
            BY <2>1 DEF Booted
        <3> QED
            BY <3>1, Zenon DEF ViewInv
    <2>3. HandlerEnds
        BY <2>1, <2>2, ViewHandled
    <2>4. tick' # "idle"
        BY <2>1, <2>3 DEF HandlerEnds
    <2> QED
        BY <1>1, <1>2, <2>1, <2>4, Zenon
<1>11. CASE tick_drained
    <2>1. tick' = "stats" /\ ((late' = late) \/ GivenUp("TouchNextEvent"))
        BY <1>11, Zenon DEF tick_drained, NoEvent, Served
    <2>2. "TouchNextEvent" \in Requests
        BY DEF Requests
    <2>3. late' \in Seq(Requests)
        BY <1>1, <1>3, <2>1, <2>2, Zenon
    <2> QED
        BY <1>2, <2>1, <2>3
<1>12. CASE update_main_screen_hardware_stats
    BY <1>1, <1>2, <1>12 DEF update_main_screen_hardware_stats
<1>13. CASE tick_flushes
    <2>1. screen' = screen
        BY <1>13, Zenon DEF tick_flushes
    <2>2. CASE front' = screen /\ late' = late
        BY <1>1, <2>1, <2>2, Zenon DEF FlushInv
    <2>3. CASE GivenUp("DisplayFlush")
        <3>1. "DisplayFlush" \in Requests
            BY DEF Requests
        <3>2. late' \in Seq(Requests) /\ Flushing(late')
            BY <1>3, <2>3, <3>1, Zenon
        <3> QED
            BY <3>2, Zenon DEF FlushInv
    <2> QED
        BY <1>13, <2>2, <2>3, Zenon DEF tick_flushes, proxy_flush, Served, flush
<1>14. CASE program_prints \/ wasm_polls
    BY <1>4, <1>14, Zenon DEF program_prints, wasm_polls, ui_vars
<1>15. CASE elf_exits
    BY <1>1, <1>2, <1>15 DEF elf_exits
<1>16. CASE wasm_returns
    BY <1>1, <1>2, <1>16 DEF wasm_returns
<1>17. CASE wasm_sees_q \/ refresh_terminal_output
    <2>1. tick = "wasm" /\ tick' = tick /\ late' = late
        BY <1>17, Zenon DEF wasm_sees_q, refresh_terminal_output
    <2> QED
        BY <1>1, <1>2, <2>1
<1> QED
    BY <1>5, <1>6, <1>7, <1>8, <1>9, <1>10, <1>11, <1>12, <1>13, <1>14, <1>15, <1>16, <1>17,
       Zenon DEF Next, Gpuid, Programs

(* The window area shows what is open, and between two ticks the display   *)
(* shows the window area: each window is saved and restored around the     *)
(* main screen, and each part of the terminal is redrawn where it changes  *)
(* (main_screen.rs, gpuid.rs), in every interleaving with the programs and *)
(* the requests that hart 0 handles late (display_proxy.rs).               *)
THEOREM DesktopWindow == Spec => []WindowIsShown
<1>1. Init => ViewInv /\ FlushInv
    <2>1. ASSUME Init PROVE FlushInv
        <3>1. late = <<>> /\ tick = "boot"
            BY <2>1, Zenon DEF Init
        <3>2. late \in Seq(Requests)
            BY <3>1
        <3> QED
            BY <3>1, <3>2 DEF FlushInv
    <2> QED
        BY <2>1, ViewInit
<1>2. ViewInv /\ FlushInv /\ [Next]_vars => (ViewInv /\ FlushInv)'
    BY ViewStep, FlushStep
<1>3. ViewInv /\ FlushInv => WindowIsShown
    <2> SUFFICES ASSUME ViewInv, FlushInv PROVE WindowIsShown
        OBVIOUS
    <2>1. ASSUME tick \notin {"boot", "setup"}, ~screen.spoiled PROVE Shown
        <3>1. UiShape(ui) /\ ShownIn(ui, screen, backing)
            BY <2>1, Zenon DEF ViewInv, Booted, View
        <3>2. CASE ui.open = NONE
            BY <3>1, <3>2 DEF Shown, ShownIn, MainIn, NONE, NETWORK, TERMINAL
        <3>3. CASE ui.open = NETWORK
            BY <3>1, <3>3 DEF Shown, ShownIn, NONE, NETWORK, TERMINAL
        <3>4. CASE ui.open = TERMINAL
            BY <3>1, <3>4 DEF Shown, ShownIn, TerminalIn, NONE, NETWORK, TERMINAL
        <3> QED
            BY <3>1, <3>2, <3>3, <3>4, Zenon DEF UiShape
    <2>2. ASSUME tick = "idle", late = <<>> PROVE front = screen
        <3>1. ~Flushing(late)
            BY <2>2 DEF Flushing
        <3> QED
            BY <2>2, <3>1, Zenon DEF FlushInv
    <2> QED
        BY <2>1, <2>2, Zenon DEF WindowIsShown
<1> QED
    BY <1>1, <1>2, <1>3, PTL DEF Spec

============================================================================
