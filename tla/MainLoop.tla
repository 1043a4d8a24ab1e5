------------------------------ MODULE MainLoop ------------------------------
(***************************************************************************)
(* Input: the loop of main.c, which lets the emulated program run for a    *)
(* frame and then handles the events that have gathered; press_key() and   *)
(* release_key() of gb.c; the P1 register of memory.c.  The keyboard and   *)
(* SDL's event queue are the environment.                                  *)
(***************************************************************************)
EXTENDS Naturals, Sequences, Interrupts

CONSTANTS
  Keys,        \* the keys the player uses
  MaxEvents    \* bound: events the player causes

gb_key == {"GB_KEY_UP", "GB_KEY_DOWN", "GB_KEY_LEFT", "GB_KEY_RIGHT",
           "GB_KEY_A", "GB_KEY_B", "GB_KEY_START", "GB_KEY_SELECT"}

ASSUME KeysAssumption == Keys \subseteq gb_key /\ MaxEvents \in Nat

VARIABLES
  phase,        \* "frame" in run_frame, "events" in the polling loop, "over"
  running,
  keys,         \* gb.keys: the keys taken to be pressed
  selected, low,   \* joypad_reg: bits 4..5, and which of bits 0..3 are 0
  int_flag,
  held, queue,  \* the keys really held down, the events not yet handled
  events,       \* events so far
  presses,      \* history: times a key went down
  requests,     \* history: calls of joypad_interrupt
  polled,       \* history: the keys held down when the loop last found no event
  basis         \* history: polled as it was when P1 was last written

console  == <<keys, selected, low, int_flag>>
keyboard == <<held, queue, events, presses>>
past     == <<requests, polled, basis>>
mvars    == <<phase, running, console, keyboard, past>>

Init ==
  /\ phase = "frame" /\ running = TRUE
  /\ keys = {} /\ selected = 3 /\ low = {} /\ int_flag = {}
  /\ held = {} /\ queue = <<>> /\ events = 0 /\ presses = 0
  /\ requests = 0 /\ polled = {} /\ basis = {}
-----------------------------------------------------------------------------
(* The player.  A key that is held down goes on sending key-down events.   *)

Send(event) ==
  /\ events < MaxEvents
  /\ events' = events + 1 /\ queue' = Append(queue, event)

Player ==
  /\ \/ \E k \in Keys \ held :
          /\ Send(<<"down", k>>)
          /\ held' = held \cup {k} /\ presses' = presses + 1
     \/ \E k \in held :
          /\ Send(<<"down", k>>)
          /\ UNCHANGED <<held, presses>>
     \/ \E k \in held :
          /\ Send(<<"up", k>>)
          /\ held' = held \ {k} /\ UNCHANGED presses
     \/ Send(<<"quit">>) /\ UNCHANGED <<held, presses>>
  /\ UNCHANGED <<phase, running, console, past>>
-----------------------------------------------------------------------------
(* The emulated program, within a frame. *)

\* The tests of P1's two groups: a key and the bit its mask clears.
Buttons ==
  {<<"GB_KEY_START", 3>>, <<"GB_KEY_SELECT", 2>>, <<"GB_KEY_B", 1>>, <<"GB_KEY_A", 0>>}
Directions ==
  {<<"GB_KEY_DOWN", 3>>, <<"GB_KEY_UP", 2>>, <<"GB_KEY_LEFT", 1>>, <<"GB_KEY_RIGHT", 0>>}

TestsSwapped(selection) ==
  CASE selection = 2 -> Buttons
    [] selection = 1 -> Directions
    [] OTHER         -> {}

\* A 0 in bit 5 selects the buttons, one in bit 4 the directions, both nothing.
Tests(selection) ==
  CASE selection = 1 -> Buttons
    [] selection = 2 -> Directions
    [] OTHER         -> {}

PullLow(selection) == low' = {t[2] : t \in {u \in Tests(selection) : u[1] \in keys}}

\* The keys are looked at when P1 is written, not when it is read.
WriteP1 ==
  /\ phase = "frame"
  /\ \E s \in 0 .. 3 : selected' = s /\ PullLow(s)
  /\ basis' = polled
  /\ UNCHANGED <<phase, running, keys, int_flag, keyboard, requests, polled>>

Acknowledge ==
  /\ phase = "frame"
  /\ int_flag' = int_flag \ {GB_INT_JOYPAD}
  /\ UNCHANGED <<phase, running, keys, selected, low, keyboard, past>>
-----------------------------------------------------------------------------
(* The loop. *)

EndFrame ==
  /\ phase = "frame"
  /\ phase' = "events"
  /\ UNCHANGED <<running, console, keyboard, past>>

press_key_always(k) ==
  /\ int_flag' = joypad_interrupt(int_flag) /\ requests' = requests + 1
  /\ keys' = keys \cup {k}

\* Only going from released to pressed requests the interrupt.
press_key(k) ==
  /\ IF k \in keys
       THEN UNCHANGED <<int_flag, requests>>
       ELSE int_flag' = joypad_interrupt(int_flag) /\ requests' = requests + 1
  /\ keys' = keys \cup {k}

release_all(k) == keys' = {} /\ UNCHANGED <<int_flag, requests>>

release_key(k) == keys' = keys \ {k} /\ UNCHANGED <<int_flag, requests>>

RunningUnless(event) == running' = (event[1] # "quit")

StopOn(event) == running' = (running /\ event[1] # "quit")

Handle(event) ==
  /\ StopOn(event)
  /\ \/ event[1] = "quit" /\ UNCHANGED <<keys, int_flag, requests>>
     \/ event[1] = "down" /\ press_key(event[2])
     \/ event[1] = "up" /\ release_key(event[2])

PollEvent ==
  /\ phase = "events" /\ queue # <<>>
  /\ Handle(Head(queue))
  /\ queue' = Tail(queue)
  /\ UNCHANGED <<phase, selected, low, held, events, presses, polled, basis>>

GoOn ==
  /\ phase' = IF running THEN "frame" ELSE "over"
  /\ polled' = held
  /\ UNCHANGED <<running, console, keyboard, requests, basis>>

ResumeEarly == phase = "events" /\ GoOn

Resume == phase = "events" /\ queue = <<>> /\ GoOn

Loop == EndFrame \/ PollEvent \/ Resume

Next == Player \/ WriteP1 \/ Acknowledge \/ Loop

\* run_frame returns, and the loop around it goes on by itself.
Spec == Init /\ [][Next]_mvars /\ WF_mvars(Loop)
-----------------------------------------------------------------------------
(* Ranges; a lit interrupt flag always stands for a request that was made. *)
TypeOK ==
  /\ phase \in {"frame", "events", "over"} /\ running \in BOOLEAN
  /\ keys \subseteq Keys /\ held \subseteq Keys
  /\ selected \in 0 .. 3 /\ low \subseteq 0 .. 3
  /\ int_flag \subseteq {GB_INT_JOYPAD}
  /\ int_flag # {} => requests > 0
  /\ polled \subseteq Keys /\ basis \subseteq Keys
  /\ events \in 0 .. MaxEvents /\ Len(queue) <= events

(* Whenever all events are handled, gb.keys is what the player holds down: *)
(* no key sticks or is dropped, in whatever order presses, releases and    *)
(* repeats queued up while a frame was running.                            *)
KeysFollowKeyboard == queue = <<>> => keys = held

(* "The joypad interrupt is only requested when a key goes from released   *)
(* to pressed" (gb.c), and then always: key repeat adds no requests and    *)
(* none is lost, also for a key pressed and released within one frame.     *)
OneRequestPerPress == queue = <<>> => requests = presses

\* The key matrix behind P1: the keys of a group on the lines from bit 0 up.
Matrix ==
  << <<"GB_KEY_A", "GB_KEY_B", "GB_KEY_SELECT", "GB_KEY_START">>,
     <<"GB_KEY_RIGHT", "GB_KEY_LEFT", "GB_KEY_UP", "GB_KEY_DOWN">> >>

(* P1 is the key matrix of the hardware, seen late: whenever the program   *)
(* reads it, a line is at 0 exactly if the player held down the key that   *)
(* lies there in the selected group, when the loop had last handled all    *)
(* events before the program wrote P1.  Nothing else, no event still       *)
(* queued and no key from before that write or of the other group, shows.  *)
P1ShowsHeldKeys ==
  \A line \in 0 .. 3 :
    line \in low <=> selected \in {1, 2} /\ Matrix[selected][line + 1] \in basis

(* Closing the window ends the program, whatever is queued behind it.      *)
WindowCloses == (\E i \in DOMAIN queue : queue[i] = <<"quit">>) ~> phase = "over"
=============================================================================
