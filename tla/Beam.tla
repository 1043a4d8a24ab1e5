-------------------------------- MODULE Beam --------------------------------
(***************************************************************************)
(* What the PPU promises about time.  A beam runs over the FrameTicks      *)
(* positions of a frame, one per clock cycle; when it leaves the last      *)
(* visible position the buffers are exchanged and V-Blank is requested.    *)
(* Turning the LCD off shows the other buffer and puts the beam back to    *)
(* the start, from where its first line is FirstSkip ticks short.          *)
(***************************************************************************)
EXTENDS Integers

CONSTANTS Height, Lines, LineTicks, BugTicks, FirstSkip

VARIABLES
  on,      \* the beam is running
  pos,     \* its position in the frame
  warm,    \* it has just been turned on and has not left the OAM search
  front,   \* the buffer on display
  vblank   \* the V-Blank request

bvars == <<on, pos, warm, front, vblank>>

FrameTicks == Lines * LineTicks

Init == on = FALSE /\ pos = 0 /\ warm = FALSE /\ front = 1 /\ vblank = FALSE

Flip == front' = 1 - front

Skips == warm /\ pos = BugTicks - 1

Advance ==
  /\ on' = TRUE
  /\ pos' = (pos + 1 + (IF Skips THEN FirstSkip ELSE 0)) % FrameTicks
  /\ warm' = (warm /\ ~Skips)
  /\ IF pos' = Height * LineTicks THEN Flip /\ vblank' = TRUE
                                  ELSE UNCHANGED <<front, vblank>>

Off ==
  /\ on /\ on' = FALSE
  /\ pos' = 0 /\ warm' = TRUE
  /\ Flip
  /\ UNCHANGED vblank

\* IF is shared: anyone may set or clear the request at any time.
Outside == vblank' \in BOOLEAN /\ UNCHANGED <<on, pos, warm, front>>

Next == Advance \/ Off \/ Outside

Spec == Init /\ [][Next]_bvars
=============================================================================
