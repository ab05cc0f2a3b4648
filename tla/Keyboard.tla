------------------------------ MODULE Keyboard ------------------------------
(***************************************************************************)
(* devices/kbd.c: from the bytes of the keyboard controller to characters. *)
(* held is the environment's part: the keys that are down.                 *)
(***************************************************************************)
EXTENDS Naturals, Sequences, FiniteSetsExt

CONSTANT KeyCodes   \* the codes of the ordinary keys that get pressed

VARIABLES held,     \* physically down
          mods,     \* left_shift ... right_ctrl: the shift keys thought to be down
          caps_lock, input, rebooted

vars == <<held, mods, caps_lock, input, rebooted>>

(* The keymaps: rows of characters for contiguous scancodes. *)
invariant_keymap ==
  { [first |-> 1, chars |-> <<27>>], [first |-> 14, chars |-> <<8>>],
    [first |-> 15, chars |-> <<9, 81, 87, 69, 82, 84, 89, 85, 73, 79, 80>>],
    [first |-> 28, chars |-> <<13>>],
    [first |-> 30, chars |-> <<65, 83, 68, 70, 71, 72, 74, 75, 76>>],
    [first |-> 44, chars |-> <<90, 88, 67, 86, 66, 78, 77>>],
    [first |-> 55, chars |-> <<42>>], [first |-> 57, chars |-> <<32>>],
    [first |-> 83, chars |-> <<127>>] }

unshifted_keymap ==
  { [first |-> 2, chars |-> <<49, 50, 51, 52, 53, 54, 55, 56, 57, 48, 45, 61>>],
    [first |-> 26, chars |-> <<91, 93>>], [first |-> 39, chars |-> <<59, 39, 96>>],
    [first |-> 43, chars |-> <<92>>], [first |-> 51, chars |-> <<44, 46, 47>>] }

shifted_keymap ==
  { [first |-> 2, chars |-> <<33, 64, 35, 36, 37, 94, 38, 42, 40, 41, 95, 43>>],
    [first |-> 26, chars |-> <<123, 125>>], [first |-> 39, chars |-> <<58, 34, 126>>],
    [first |-> 43, chars |-> <<124>>], [first |-> 51, chars |-> <<60, 62, 63>>] }

(* The characters map_key finds for a scancode: one or none. *)
map_key(k, scancode) ==
  {row.chars[scancode - row.first + 1] :
     row \in {r \in k : scancode >= r.first /\ scancode < r.first + Len(r.chars)}}

(* shift_keys; the codes with a prefix are 0xe038 and 0xe01d. *)
shift_keys == [left_shift |-> 42, right_shift |-> 54, left_alt |-> 56,
               right_alt |-> 57400, left_ctrl |-> 29, right_ctrl |-> 57373]

CapsLock == 58
Prefix == 224
Modifiers == DOMAIN shift_keys
Physical == KeyCodes \cup {42, 54, 56, 57400, 29, 57373} \cup {CapsLock}

(* What the controller sends for a key. *)
Wire(code, release) ==
  LET low == (code % 256) + IF release THEN 128 ELSE 0
  IN  IF code >= 256 THEN <<Prefix, low>> ELSE <<low>>

Init ==
  /\ held = {} /\ mods = {} /\ caps_lock = FALSE
  /\ input = <<>> /\ rebooted = FALSE

tolower(c) == IF c \in 65 .. 90 THEN c + 32 ELSE c

shift == {"left_shift", "right_shift"} \cap mods # {}
alt == {"left_alt", "right_alt"} \cap mods # {}
ctrl == {"left_ctrl", "right_ctrl"} \cap mods # {}

(* A variant in which Shift overrides Ctrl. *)
Character_shift_first(c) ==
  LET base == IF shift = caps_lock THEN tolower(c)
              ELSE IF ctrl /\ c >= 64 /\ c < 96 THEN c - 64 ELSE c
  IN  IF alt THEN base + 128 ELSE base

(* The character that goes into the input buffer for table entry c. *)
Character(c) ==
  LET base == IF ctrl /\ c >= 64 /\ c < 96 THEN c - 64
              ELSE IF shift = caps_lock THEN tolower(c) ELSE c
  IN  IF alt THEN base + 128 ELSE base

keyboard_interrupt(bytes) ==
  LET wire == IF bytes[1] = Prefix THEN Prefix * 256 + bytes[2] ELSE bytes[1]
      release == (wire \div 128) % 2 = 1
      code == IF release THEN wire - 128 ELSE wire
      fixed == map_key(invariant_keymap, code)
      found == IF fixed # {} THEN fixed
               ELSE map_key(IF shift THEN shifted_keymap ELSE unshifted_keymap, code)
  IN  CASE code = CapsLock ->
             /\ caps_lock' = IF release THEN caps_lock ELSE ~ caps_lock
             /\ UNCHANGED <<mods, input, rebooted>>
        [] code # CapsLock /\ found # {} ->
             /\ UNCHANGED <<mods, caps_lock>>
             /\ IF release THEN UNCHANGED <<input, rebooted>>
                ELSE IF found = {127} /\ ctrl /\ alt
                     THEN rebooted' = TRUE /\ UNCHANGED input
                     ELSE /\ \E c \in found : input' = <<Character(c)>>
                          /\ UNCHANGED rebooted
        [] OTHER ->
             /\ mods' = LET hit == {m \in Modifiers : shift_keys[m] = code}
                        IN  IF release THEN mods \ hit ELSE mods \cup hit
             /\ UNCHANGED <<caps_lock, input, rebooted>>

Press(k) ==
  /\ ~ rebooted /\ k \notin held
  /\ Cardinality(held \cap KeyCodes) = 0 \/ k \notin KeyCodes
  /\ held' = held \cup {k}
  /\ keyboard_interrupt(Wire(k, FALSE))

Release(k) ==
  /\ ~ rebooted /\ k \in held
  /\ held' = held \ {k}
  /\ keyboard_interrupt(Wire(k, TRUE))

Next == \E k \in Physical : Press(k) \/ Release(k)

Spec == Init /\ [][Next]_vars
-----------------------------------------------------------------------------
(* kbd.c's idea of the shift keys is what is really held down, however     *)
(* left, right and prefixed keys are pressed and released.                 *)
ModifiersMatchKeys ==
  /\ "left_shift" \in mods <=> 42 \in held
  /\ "right_shift" \in mods <=> 54 \in held
  /\ "left_alt" \in mods <=> 56 \in held
  /\ "right_alt" \in mods <=> 57400 \in held
  /\ "left_ctrl" \in mods <=> 29 \in held
  /\ "right_ctrl" \in mods <=> 57373 \in held

Shift == held \cap {42, 54} # {}
Alt == held \cap {56, 57400} # {}
Ctrl == held \cap {29, 57373} # {}

(* A letter comes out in upper case when exactly one of Shift and Caps     *)
(* Lock is on, as a control character with Ctrl, with the high bit set     *)
(* with Alt; other keys give what is printed on them; releasing a key      *)
(* types nothing.                                                          *)
TypedAsMeant ==
  /\ \A k \in KeyCodes : k \in held' \ held /\ ~ rebooted' =>
       LET low == input'[1] % 128
           letters == map_key(invariant_keymap, k) \cap 65 .. 90
       IN  /\ input'[1] >= 128 <=> Alt
           /\ letters # {} => \A c \in letters :
                low = IF Ctrl THEN c - 64
                      ELSE IF Shift # caps_lock THEN c ELSE c + 32
           /\ letters = {} /\ ~ Ctrl =>
                low \in map_key(invariant_keymap
                                \cup IF Shift THEN shifted_keymap
                                     ELSE unshifted_keymap, k)
  /\ held' \subseteq held => input' = input

(* Only Ctrl+Alt+Del reboots. *)
RebootOnlyOnRequest ==
  rebooted => {83} \subseteq held /\ Ctrl /\ Alt
=============================================================================
