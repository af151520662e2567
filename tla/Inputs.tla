--------------------------------- MODULE Inputs --------------------------------
(***************************************************************************)
(* The inputs of iotsaInput.cpp: buttons that are debounced and repeat      *)
(* while they are held, the two inputs that are made of them - a pair of up *)
(* and down buttons that may double as on and off, and one button that      *)
(* switches when it is pressed shortly and cycles a level when it is held - *)
(* and the rotary encoder, whose turns the ESP32Encoder library counts.     *)
(* A pin may change at any moment, glitches included, and loop() looks at   *)
(* it now and then; each loop() of a button is one step.                    *)
(*                                                                          *)
(* Time is counted in ticks from the two moments that a button keeps,       *)
(* debounceTime and nextRepeat; that millis() wraps around is left out, and *)
(* so are the touchpad's threshold and an encoder without the library.  The *)
(* callbacks of the application do not touch the state here.                *)
(***************************************************************************)
EXTENDS Integers

CONSTANTS
  DebounceDelay,              \* DEBOUNCE_DELAY
  FirstRepeat, MinRepeat,     \* of setRepeat()
  IntMin, IntMax, IntStep,    \* of bindVar()
  MaxTurns                    \* bound: clicks that an encoder turns between two loop()s

ASSUME InputAssumption ==
  /\ DebounceDelay \in Nat
  /\ FirstRepeat \in Nat \ {0} /\ MinRepeat \in Nat
  /\ IntMin \in Int /\ IntMax \in Int /\ IntMin <= IntMax /\ IntStep \in Nat \ {0}
  /\ MaxTurns \in Nat

Pins == {"up", "down"}        \* a CyclingButton has the first only
InputKinds == {"UpDownButtons", "UpDownSwitches", "CyclingButton", "RotaryEncoder"}
ButtonsOf(k) ==
  CASE k = "CyclingButton" -> {"up"} [] k = "RotaryEncoder" -> {} [] OTHER -> Pins

VARIABLES
  inputKind,        \* an UpDownSwitches is an UpDownButtons with useState
  low,              \* of a pin: its button is pressed down, or touched by noise
  debounceState, pressed,
  quiet,            \* of a pin: time since debounceTime, up to what matters
  curRepeat,
  untilRepeat,      \* of a pin: time to nextRepeat, or NoRepeat
  repeated,         \* of a pin: repeatCount > 0
  switchState,      \* state
  level,            \* *intVar
  direction,
  turned,           \* getCount() - oldCount: what the encoder turned since loop() looked
  stepped           \* ghost, of a pin: its latest press has changed the level

buttonVars == <<debounceState, pressed, quiet, curRepeat, untilRepeat, repeated>>
valueVars == <<switchState, level, direction>>
inputVars == <<inputKind, low, buttonVars, valueVars, turned, stepped>>

NoRepeat == -1

--------------------------------------------------------------------------------
(* ValueInput::_changeValue() *)

Clamped(n) == IF n < IntMin THEN IntMin ELSE IF n > IntMax THEN IntMax ELSE n

ReachedLimit(steps) == level + steps * IntStep \notin IntMin .. IntMax

ChangeLevel(steps) == level' = Clamped(level + steps * IntStep)

ChangeValue(b, steps) ==
  /\ ChangeLevel(steps)
  /\ stepped' = [stepped EXCEPT ![b] = TRUE]

\* A new press has not changed the level yet.
NoStep(b) ==
  stepped' = [stepped EXCEPT ![b] = stepped[b] /\ (pressed[b] \/ ~pressed'[b])]

Switch(b, on) == switchState' = on /\ UNCHANGED <<level, direction>> /\ NoStep(b)
NoEffect(b) == UNCHANGED valueVars /\ NoStep(b)

(* The callbacks, for a button whose state and repeatCount are the new ones. *)

UpPressedCallback(b) ==
  \/ ~pressed'[b] /\ NoEffect(b)
  \/ pressed'[b] /\ inputKind = "UpDownSwitches" /\ ~repeated'[b] /\ Switch(b, TRUE)
  \/ /\ pressed'[b] /\ (inputKind = "UpDownButtons" \/ repeated'[b])
     /\ ChangeValue(b, 1) /\ UNCHANGED <<switchState, direction>>

\* Off, or less, is decided when the button is released.
DownPressedCallback(b) ==
  \/ /\ inputKind = "UpDownSwitches" /\ ~repeated'[b]
     /\ IF pressed'[b] THEN NoEffect(b) ELSE Switch(b, FALSE)
  \/ /\ inputKind = "UpDownButtons" \/ repeated'[b]
     /\ IF pressed'[b] THEN ChangeValue(b, -1) /\ UNCHANGED <<switchState, direction>>
        ELSE NoEffect(b)

\* Variant: the direction stays at a limit.
CyclingStepOneWay(b) ==
  switchState' = TRUE /\ ChangeValue(b, direction) /\ UNCHANGED direction

CyclingStep(b) ==
  /\ switchState' = TRUE
  /\ ChangeValue(b, direction)
  /\ direction' = IF ReachedLimit(direction) THEN -direction ELSE direction

\* Variant: every release switches.
CyclingPressedCallbackSwitches(b) ==
  \/ pressed'[b] /\ ~repeated'[b] /\ NoEffect(b)
  \/ pressed'[b] /\ repeated'[b] /\ CyclingStep(b)
  \/ ~pressed'[b] /\ Switch(b, ~switchState)

\* Held, the button switches on and cycles; released after a short press, it switches.
CyclingPressedCallback(b) ==
  \/ pressed'[b] /\ ~repeated'[b] /\ NoEffect(b)
  \/ pressed'[b] /\ repeated'[b] /\ CyclingStep(b)
  \/ ~pressed'[b] /\ ~repeated'[b] /\ Switch(b, ~switchState)
  \/ ~pressed'[b] /\ repeated'[b] /\ NoEffect(b)

ActivationCallback(b) ==
  \/ inputKind = "CyclingButton" /\ CyclingPressedCallback(b)
  \/ inputKind # "CyclingButton" /\ b = "up" /\ UpPressedCallback(b)
  \/ inputKind # "CyclingButton" /\ b = "down" /\ DownPressedCallback(b)

--------------------------------------------------------------------------------
(* Button::loop() *)

\* Variant: a pin is compared with the state of the button.
QuietNowOfButton(b) == IF low[b] = pressed[b] THEN quiet[b] ELSE 0

\* The time since the latest change that loop() saw, once it has looked at the pin.
QuietNow(b) == IF low[b] = debounceState[b] THEN quiet[b] ELSE 0

IsAccepted(b) == QuietNow(b) > DebounceDelay /\ low[b] # pressed[b]

SeesPin(b) ==
  /\ debounceState' = [debounceState EXCEPT ![b] = low[b]]
  /\ quiet' = [quiet EXCEPT ![b] = QuietNow(b)]

\* A pin that has been steady for long enough changes the button, and starts or stops
\* its repeats.
ButtonChanges(b) ==
  /\ IsAccepted(b)
  /\ SeesPin(b)
  /\ pressed' = [pressed EXCEPT ![b] = low[b]]
  /\ repeated' = [repeated EXCEPT ![b] = repeated[b] /\ ~low[b]]
  /\ curRepeat' = [curRepeat EXCEPT ![b] = IF low[b] THEN FirstRepeat ELSE @]
  /\ untilRepeat' = [untilRepeat EXCEPT ![b] = IF low[b] THEN FirstRepeat + 1 ELSE NoRepeat]
  /\ ActivationCallback(b)

\* Repeats come faster, down to MinRepeat.
NextCurRepeat(b) ==
  IF curRepeat[b] <= MinRepeat THEN curRepeat[b]
  ELSE IF curRepeat[b] < 2 * MinRepeat THEN MinRepeat
  ELSE curRepeat[b] - MinRepeat

\* The interval has passed when a tick more than it has (millis() > nextRepeat); the
\* button may already be on its way up.
ButtonRepeats(b) ==
  /\ ~IsAccepted(b) /\ untilRepeat[b] = 0
  /\ SeesPin(b)
  /\ curRepeat' = [curRepeat EXCEPT ![b] = NextCurRepeat(b)]
  /\ untilRepeat' = [untilRepeat EXCEPT ![b] = NextCurRepeat(b) + 1]
  /\ repeated' = [repeated EXCEPT ![b] = TRUE]
  /\ UNCHANGED pressed
  /\ ActivationCallback(b)

ButtonWaits(b) ==
  /\ ~IsAccepted(b) /\ untilRepeat[b] # 0
  /\ SeesPin(b)
  /\ UNCHANGED <<pressed, curRepeat, untilRepeat, repeated, valueVars, stepped>>

ButtonLoop(b) ==
  /\ ButtonChanges(b) \/ ButtonRepeats(b) \/ ButtonWaits(b)
  /\ UNCHANGED <<inputKind, low, turned>>

PinChanges(b) ==
  /\ low' = [low EXCEPT ![b] = ~low[b]]
  /\ UNCHANGED <<inputKind, buttonVars, valueVars, turned, stepped>>

InputTick ==
  /\ quiet' = [b \in Pins |-> IF quiet[b] > DebounceDelay THEN quiet[b] ELSE quiet[b] + 1]
  /\ untilRepeat' = [b \in Pins |-> IF untilRepeat[b] > 0 THEN untilRepeat[b] - 1
                                    ELSE untilRepeat[b]]
  /\ UNCHANGED <<inputKind, low, debounceState, pressed, curRepeat, repeated, valueVars,
                 turned, stepped>>

--------------------------------------------------------------------------------
(* RotaryEncoder::loop(), with the library *)

EncoderTurns ==
  /\ inputKind = "RotaryEncoder"
  /\ turned' \in {turned - 1, turned + 1} \cap (-MaxTurns .. MaxTurns)
  /\ UNCHANGED <<inputKind, low, buttonVars, valueVars, stepped>>

\* All that was turned since the latest loop() is one change of the level.
EncoderLoop ==
  /\ inputKind = "RotaryEncoder" /\ turned # 0
  /\ ChangeLevel(turned) /\ turned' = 0
  /\ UNCHANGED <<inputKind, low, buttonVars, switchState, direction, stepped>>

--------------------------------------------------------------------------------

ButtonInit ==
  /\ low = [b \in Pins |-> FALSE]
  /\ debounceState = low /\ pressed = low /\ repeated = low
  /\ quiet = [b \in Pins |-> DebounceDelay + 1]
  /\ curRepeat = [b \in Pins |-> 0] /\ untilRepeat = [b \in Pins |-> NoRepeat]

ValueInit == switchState = FALSE /\ level = IntMin /\ direction = 1

EncoderInit == turned = 0

InputInit ==
  /\ inputKind \in InputKinds
  /\ ButtonInit /\ ValueInit /\ EncoderInit
  /\ stepped = low

InputNext ==
  \/ \E b \in ButtonsOf(inputKind) : ButtonLoop(b) \/ PinChanges(b)
  \/ EncoderTurns \/ EncoderLoop
  \/ InputTick

InputSpec == InputInit /\ [][InputNext]_inputVars

\* loop() is called again and again, and time passes.
InputFairness ==
  /\ \A b \in Pins : WF_inputVars(b \in ButtonsOf(inputKind) /\ ButtonLoop(b))
  /\ WF_inputVars(EncoderLoop)
  /\ WF_inputVars(InputTick)

InputFairSpec == InputSpec /\ InputFairness

--------------------------------------------------------------------------------
(* Correctness. *)

InputTypeOK ==
  /\ inputKind \in InputKinds
  /\ {low, debounceState, pressed, repeated, stepped} \subseteq [Pins -> BOOLEAN]
  /\ quiet \in [Pins -> 0 .. DebounceDelay + 1]
  /\ curRepeat \in [Pins -> Nat]
  /\ untilRepeat \in [Pins -> Nat \cup {NoRepeat}]
  /\ switchState \in BOOLEAN /\ level \in IntMin .. IntMax /\ direction \in {-1, 1}
  /\ turned \in -MaxTurns .. MaxTurns

\* A pin that stays as it is, after whatever bounces, is the state of its button in the
\* end, although loop() sees only some of the changes.
StablePinIsSeen ==
  \A b \in Pins :
    b \in ButtonsOf(inputKind) =>
      /\ <>[]low[b] => <>[]pressed[b]
      /\ <>[]~low[b] => <>[]~pressed[b]

Released(b) == pressed[b] /\ ~pressed'[b]

\* What a release does depends on the whole press: after one that changed the level it
\* does nothing, after any other it switches, the cycling button over and the down
\* button off - also when the press was so long that a repeat fell between the moment
\* the button came up and the moment it was believed.
ShortPressSwitches ==
  [][\A b \in Pins : Released(b) =>
       switchState' = IF stepped[b] THEN switchState
                      ELSE IF inputKind = "CyclingButton" THEN ~switchState
                      ELSE switchState /\ ~(inputKind = "UpDownSwitches" /\ b = "down")]_inputVars

\* A cycling button that is held reaches the highest and the lowest level again and
\* again.
CyclesThrough ==
  inputKind = "CyclingButton" /\ <>[]low["up"] => []<>(level = IntMax) /\ []<>(level = IntMin)
================================================================================
