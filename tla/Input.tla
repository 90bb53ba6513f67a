--------------------------------- MODULE Input ---------------------------------
(***************************************************************************)
(* From bytes to key events: the serial port's escape sequences, and the   *)
(* PS/2 keyboard, from its initialisation to the scan codes of its keys.   *)
(* The keyboard and its controller are hardware: the device acts in steps  *)
(* of its own, bytes with a parity error are dropped.                      *)
(***************************************************************************)
EXTENDS Naturals, Sequences, FiniteSets

CONSTANTS MaxSerial, \* bytes on the serial line
          MaxStrokes, MaxLost, \* key presses and releases, and bytes lost
          Attempts, MaxPolls   \* of keyboard_command

VARIABLES source,     \* "serial", "init" or "keys": the part that moves
          history, escape_state, escape_key, events,
          wire,       \* what the keyboard has sent and the interrupt has not read
          held, caps, \* the keys: held down, and the number of presses of caps lock
          strokes, lost,
          gap,        \* the byte dropped last, until the next one is read
          spoiled,    \* modifiers whose last byte was lost or came right after a lost one
          left_shift, right_shift, caps_lock, extended_scancode,
          init        \* ps2_init and the device

inputVars == <<source, history, escape_state, escape_key, events, wire, held, caps, strokes, lost,
               gap, spoiled, left_shift, right_shift, caps_lock, extended_scancode, init>>
serialVars == <<history, escape_state, escape_key>>
keyVars == <<wire, held, caps, strokes, lost, gap, spoiled,
             left_shift, right_shift, caps_lock, extended_scancode>>

--------------------------------------------------------------------------------
SerialBytes == {"esc", "[", "5", "6", "A", "~"}
PageKey(b) == IF b = "5" THEN <<"page up">> ELSE <<"page down">>

(* serial_handle_input: the state after a byte, and the event it makes, if any *)
Decoded(state, b) ==
  CASE state = 1 -> [state |-> IF b = "[" THEN 2 ELSE 0, event |-> <<>>]
    [] state = 2 -> [state |-> IF b \in {"5", "6"} THEN 3 ELSE 0,
                     event |-> IF b = "A" THEN <<"up">> ELSE <<>>]
    [] state = 3 -> [state |-> 0, event |-> IF b = "~" THEN PageKey(escape_key) ELSE <<>>]
    [] OTHER -> [state |-> IF b = "esc" THEN 1 ELSE 0, event |-> IF b = "esc" THEN <<>> ELSE <<b>>]

serial_handle_input(b) ==
  /\ source = "serial" /\ Len(history) < MaxSerial
  /\ history' = Append(history, b)
  /\ escape_state' = Decoded(escape_state, b).state
  /\ escape_key' = IF escape_state = 2 /\ b \in {"5", "6"} THEN b ELSE escape_key
  /\ events' = events \o Decoded(escape_state, b).event
  /\ UNCHANGED <<source, init>> /\ UNCHANGED keyVars

--------------------------------------------------------------------------------
(* The device answers a command with an acknowledgement or asks to resend   *)
(* it; the driver polls a bounded number of times, then sends it again.     *)
Silent == [cmd |-> "none", pending |-> <<>>, answers |-> <<>>, attempt |-> 0, polls |-> 0,
           obeyed |-> {}, result |-> "running", timeouts |-> 0]

Sent(i, cmd) == [i EXCEPT !.cmd = cmd, !.pending = Append(@, cmd), !.attempt = @ + 1, !.polls = 0]

InitStep(i) == source = "init" /\ init' = i /\ UNCHANGED <<source, events>> /\ UNCHANGED serialVars
               /\ UNCHANGED keyVars

ps2_init == init = Silent /\ InitStep(Sent(init, "F5"))

DeviceAnswers(ok) ==
  /\ init.pending # <<>>
  /\ InitStep([init EXCEPT !.pending = Tail(@),
                           !.answers = Append(@, IF ok THEN "FA" ELSE "FE"),
                           !.obeyed = IF ok THEN @ \cup {Head(init.pending)} ELSE @])

(* Another attempt, or the driver gives up. *)
Again(i) == IF i.attempt < Attempts THEN Sent(i, i.cmd) ELSE [i EXCEPT !.result = "timed out"]

keyboard_command_reads ==
  /\ init.result = "running" /\ init.answers # <<>>
  /\ LET i == [init EXCEPT !.answers = Tail(@)] IN
     InitStep(IF Head(init.answers) = "FE" THEN Again(i)
              ELSE IF init.cmd = "F5" THEN Sent([i EXCEPT !.attempt = 0], "F4")
              ELSE [i EXCEPT !.result = "ok"])

keyboard_command_polls ==
  /\ init.result = "running" /\ init.cmd # "none" /\ init.answers = <<>>
  /\ InitStep(IF init.polls + 1 < MaxPolls THEN [init EXCEPT !.polls = @ + 1]
              ELSE Again([init EXCEPT !.timeouts = @ + 1]))

--------------------------------------------------------------------------------
Buttons == {"lshift", "rshift", "caps", "letter", "up"}
Codes(key) == CASE key = "lshift" -> <<"2A">> [] key = "rshift" -> <<"36">> [] key = "caps" -> <<"3A">>
                [] key = "letter" -> <<"1E">> [] OTHER -> <<"E0", "48">>

(* A key goes down, or up; the bytes carry which, and the key they are of. *)
Stroke(key) ==
  /\ source = "keys" /\ strokes < MaxStrokes /\ strokes' = strokes + 1
  /\ held' = IF key \in held THEN held \ {key} ELSE held \cup {key}
  /\ caps' = IF key = "caps" /\ key \notin held THEN caps + 1 ELSE caps
  /\ wire' = wire \o [k \in 1 .. Len(Codes(key)) |->
                        [code |-> Codes(key)[k], released |-> key \in held, key |-> key]]
  /\ UNCHANGED <<source, events, init, lost, gap, spoiled, left_shift, right_shift, caps_lock,
                 extended_scancode>> /\ UNCHANGED serialVars

translate_scancode(code, extended) ==
  IF extended THEN (IF code = "48" THEN "up" ELSE "none")
  ELSE CASE code = "2A" -> "lshift" [] code = "36" -> "rshift" [] code = "3A" -> "caps"
         [] code = "1E" -> "letter" [] OTHER -> "none"

keymap_translate_ascii(key) ==
  IF key = "letter" THEN (IF (left_shift \/ right_shift) # caps_lock THEN "A" ELSE "a") ELSE key

\* Mutant of Handled: the prefix is forgotten only after a key it belongs to.
HandledSticky(b) ==
  \/ /\ b.code = "E0" /\ extended_scancode' = TRUE
     /\ UNCHANGED <<left_shift, right_shift, caps_lock, events>>
  \/ LET key == translate_scancode(b.code, extended_scancode) IN
     /\ b.code # "E0"
     /\ extended_scancode' = (extended_scancode /\ key = "none")
     /\ left_shift' = IF key = "lshift" THEN ~b.released ELSE left_shift
     /\ right_shift' = IF key = "rshift" THEN ~b.released ELSE right_shift
     /\ caps_lock' = IF key = "caps" /\ ~b.released THEN ~caps_lock ELSE caps_lock
     /\ events' = IF key \in {"letter", "up"} /\ ~b.released
                  THEN Append(events, keymap_translate_ascii(key)) ELSE events

(* ps2_irq_handler and keyboard_handle_scancode for the byte b *)
Handled(b) ==
  \/ /\ b.code = "E0" /\ extended_scancode' = TRUE
     /\ UNCHANGED <<left_shift, right_shift, caps_lock, events>>
  \/ LET key == translate_scancode(b.code, extended_scancode) IN
     /\ b.code # "E0"
     /\ extended_scancode' = FALSE
     /\ left_shift' = IF key = "lshift" THEN ~b.released ELSE left_shift
     /\ right_shift' = IF key = "rshift" THEN ~b.released ELSE right_shift
     /\ caps_lock' = IF key = "caps" /\ ~b.released THEN ~caps_lock ELSE caps_lock
     /\ events' = IF key \in {"letter", "up"} /\ ~b.released
                  THEN Append(events, keymap_translate_ascii(key)) ELSE events

Scancode ==
  /\ source = "keys" /\ wire # <<>>
  /\ Handled(Head(wire))
  /\ spoiled' = IF gap = "48" /\ Head(wire).code # "E0"
                THEN spoiled \cup {Head(wire).key} ELSE spoiled \ ({Head(wire).key} \ {"caps"})
  /\ wire' = Tail(wire) /\ gap' = "none"
  /\ UNCHANGED <<source, held, caps, strokes, lost, init>> /\ UNCHANGED serialVars

(* A byte with a parity or timeout error is read and dropped. *)
DropByte ==
  /\ source = "keys" /\ wire # <<>> /\ lost < MaxLost
  /\ lost' = lost + 1 /\ wire' = Tail(wire) /\ gap' = Head(wire).code
  /\ spoiled' = spoiled \cup {Head(wire).key}
  /\ UNCHANGED <<source, events, held, caps, strokes, init, left_shift, right_shift, caps_lock,
                 extended_scancode>> /\ UNCHANGED serialVars

InputInit ==
  /\ source \in {"serial", "init", "keys"}
  /\ history = <<>> /\ escape_state = 0 /\ escape_key = "0" /\ events = <<>>
  /\ wire = <<>> /\ held = {} /\ caps = 0 /\ strokes = 0 /\ lost = 0 /\ gap = "none" /\ spoiled = {}
  /\ left_shift = FALSE /\ right_shift = FALSE /\ caps_lock = FALSE /\ extended_scancode = FALSE
  /\ init = Silent

InputNext ==
  \/ \E b \in SerialBytes : serial_handle_input(b)
  \/ ps2_init \/ DeviceAnswers(TRUE) \/ DeviceAnswers(FALSE)
  \/ keyboard_command_reads \/ keyboard_command_polls
  \/ \E k \in Buttons : Stroke(k)
  \/ Scancode \/ DropByte

InputSpec == InputInit /\ [][InputNext]_inputVars

--------------------------------------------------------------------------------
(* The events of a byte string: sequences are recognised greedily, an       *)
(* escape that begins none swallows the bytes up to where it failed.        *)
At(h, i) == IF i <= Len(h) THEN h[i] ELSE "end"
TokenEnd(h, i) == IF h[i] # "esc" THEN i ELSE IF At(h, i + 1) # "[" THEN i + 1
                  ELSE IF At(h, i + 2) \notin {"5", "6"} THEN i + 2 ELSE i + 3
TokenOf(h, i) == IF h[i] # "esc" THEN <<h[i]>>
                 ELSE IF At(h, i + 1) = "[" /\ At(h, i + 2) = "A" THEN <<"up">>
                 ELSE IF At(h, i + 1) = "[" /\ At(h, i + 2) \in {"5", "6"} /\ At(h, i + 3) = "~"
                      THEN PageKey(h[i + 2])
                 ELSE <<>>
Tokens(h) ==
  LET from[i \in 1 .. Len(h) + 4] ==
        IF i > Len(h) THEN <<>> ELSE TokenOf(h, i) \o from[TokenEnd(h, i) + 1]
  IN from[1]

(* The serial decoder delivers exactly the events of the bytes received, so *)
(* a broken sequence never changes the meaning of a later one.              *)
SerialEventsExact == source = "serial" => events = Tokens(history)

(* With every byte read, a modifier agrees with the keyboard unless its own *)
(* last byte was dropped, or came right after a dropped byte that a prefix  *)
(* had announced: a lost byte never leaves the decoder out of step for good.*)
ModifiersAgree ==
  wire = <<>> => /\ "lshift" \notin spoiled => (left_shift <=> "lshift" \in held)
                 /\ "rshift" \notin spoiled => (right_shift <=> "rshift" \in held)
                 /\ "caps" \notin spoiled => (caps_lock <=> caps % 2 = 1)
                 /\ lost = 0 => ~extended_scancode

(* The driver reports a keyboard that has obeyed both commands, as long as  *)
(* no answer came after its time: an acknowledgement of a repeated command  *)
(* may be taken for that of the next one.                                   *)
InitOkMeansObeyed ==
  init.result = "ok" /\ init.timeouts = 0 => {"F5", "F4"} \subseteq init.obeyed

(* The input drivers report what was meant: events of the serial bytes,     *)
(* modifiers as held, and a keyboard that was really set up.                *)
InputFaithful == SerialEventsExact /\ ModifiersAgree /\ InitOkMeansObeyed
================================================================================
