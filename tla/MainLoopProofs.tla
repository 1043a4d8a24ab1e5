--------------------------- MODULE MainLoopProofs ---------------------------
(***************************************************************************)
(* Input, for any keys and any number of events.  While events are queued, *)
(* gb.keys lags behind the keyboard: the inductive invariant says that     *)
(* handling the queue, event by event, leads from the keys and requests of *)
(* the console to the keys held and the presses made by the player.  It    *)
(* also says that the console's keys stay what the loop left behind while  *)
(* a frame runs, which is when the program writes P1.                      *)
(***************************************************************************)
EXTENDS MainLoop, TLAPS

Events == {<<"quit">>} \cup ({"down", "up"} \X Keys)

After(event, pressed) ==
  IF event[1] = "down" THEN pressed \cup {event[2]}
  ELSE IF event[1] = "up" THEN pressed \ {event[2]} ELSE pressed

Requested(event, pressed) ==
  IF event[1] = "down" /\ event[2] \notin pressed THEN 1 ELSE 0

\* K[i] and R[i] are the keys and the requests when i events are handled.
Replays(K, R) ==
  /\ K \in [0 .. Len(queue) -> SUBSET Keys] /\ R \in [0 .. Len(queue) -> Nat]
  /\ K[0] = keys /\ R[0] = requests
  /\ \A i \in 1 .. Len(queue) :
       /\ K[i] = After(queue[i], K[i - 1])
       /\ R[i] = R[i - 1] + Requested(queue[i], K[i - 1])
  /\ K[Len(queue)] = held /\ R[Len(queue)] = presses

\* While a frame runs the keys are those of the last time the queue was empty.
Still == phase = "frame" => keys = polled

IInv ==
  /\ TypeOK /\ P1ShowsHeldKeys /\ Still
  /\ queue \in Seq(Events) /\ requests \in Nat
  /\ \E K, R : Replays(K, R)

LEMMA InitInv == Init => IInv
<1> SUFFICES ASSUME Init PROVE IInv
  OBVIOUS
<1>1. TypeOK /\ P1ShowsHeldKeys /\ Still
  <2>1. Len(queue) = 0 /\ 0 \in 0 .. MaxEvents
    BY KeysAssumption DEF Init
  <2>2. events \in 0 .. MaxEvents /\ Len(queue) <= events
    BY <2>1 DEF Init
  <2>3. running \in BOOLEAN /\ P1ShowsHeldKeys /\ Still
    BY DEF Init, P1ShowsHeldKeys, Still
  <2>4. /\ phase \in {"frame", "events", "over"} /\ selected \in 0 .. 3
        /\ keys \subseteq Keys /\ held \subseteq Keys /\ low \subseteq 0 .. 3
        /\ polled \subseteq Keys /\ basis \subseteq Keys
        /\ int_flag \subseteq {GB_INT_JOYPAD} /\ (int_flag # {} => requests > 0)
    BY DEF Init
  <2> QED BY <2>2, <2>3, <2>4 DEF TypeOK
<1>2. queue \in Seq(Events) /\ requests \in Nat /\ Len(queue) = 0
  BY DEF Init
<1>3. Replays([i \in 0 .. 0 |-> {}], [i \in 0 .. 0 |-> 0])
  BY <1>2 DEF Init, Replays
<1> QED
  BY <1>1, <1>2, <1>3 DEF IInv

\* A step that touches neither the queue nor what it leads from or to.
LEMMA SameReplay ==
  ASSUME IInv, UNCHANGED <<keys, queue, held, presses, requests>>, TypeOK', P1ShowsHeldKeys', Still'
  PROVE  IInv'
BY DEF IInv, Replays

LEMMA Shapes ==
  ASSUME NEW e \in Events
  PROVE  \/ e = <<"quit">> /\ e[1] = "quit"
         \/ e[1] = "down" /\ e[2] \in Keys
         \/ e[1] = "up" /\ e[2] \in Keys
BY DEF Events

LEMMA AfterKeys ==
  ASSUME NEW e \in Events, NEW pressed \in SUBSET Keys
  PROVE  After(e, pressed) \in SUBSET Keys /\ Requested(e, pressed) \in Nat
BY Shapes DEF After, Requested

(* The player adds an event to the end of the queue. *)
LEMMA Sent ==
  ASSUME IInv, NEW e \in Events, queue' = Append(queue, e), UNCHANGED <<keys, requests>>,
         held' = After(e, held), presses' = presses + Requested(e, held),
         TypeOK', P1ShowsHeldKeys', Still'
  PROVE  IInv'
<1>1. PICK K, R : Replays(K, R)
  BY DEF IInv
<1>2. PICK n \in Nat : n = Len(queue) /\ Len(queue') = n + 1
  BY DEF IInv
<1>3. /\ queue \in Seq(Events) /\ queue' \in Seq(Events) /\ queue'[n + 1] = e
      /\ \A i \in 1 .. n : queue'[i] = queue[i]
  BY <1>2 DEF IInv
<1>4. held \in SUBSET Keys /\ held' \in SUBSET Keys /\ presses \in Nat /\ presses' \in Nat
  <2>1. held \in SUBSET Keys /\ presses \in Nat
    BY <1>1, <1>2 DEF Replays
  <2> QED BY <2>1, AfterKeys
<1>5. PICK K2 : K2 = [i \in 0 .. n + 1 |-> IF i = n + 1 THEN held' ELSE K[i]]
  OBVIOUS
<1>6. PICK R2 : R2 = [i \in 0 .. n + 1 |-> IF i = n + 1 THEN presses' ELSE R[i]]
  OBVIOUS
<1>7. K2 \in [0 .. n + 1 -> SUBSET Keys] /\ R2 \in [0 .. n + 1 -> Nat]
  BY <1>1, <1>2, <1>4, <1>5, <1>6 DEF Replays
<1>8. K2[0] = keys' /\ R2[0] = requests' /\ K2[n + 1] = held' /\ R2[n + 1] = presses'
  BY <1>1, <1>5, <1>6 DEF Replays
<1>9. ASSUME NEW i \in 1 .. n + 1
      PROVE  /\ K2[i] = After(queue'[i], K2[i - 1])
             /\ R2[i] = R2[i - 1] + Requested(queue'[i], K2[i - 1])
  <2>0. K2[i - 1] = K[i - 1] /\ R2[i - 1] = R[i - 1]
    BY <1>5, <1>6
  <2>1. CASE i = n + 1
    <3>1. K[n] = held /\ R[n] = presses /\ i - 1 = n
      BY <1>1, <1>2, <2>1 DEF Replays
    <3> QED BY <1>3, <1>8, <2>0, <2>1, <3>1
  <2>2. CASE i \in 1 .. n
    <3>1. K2[i] = K[i] /\ R2[i] = R[i]
      BY <1>5, <1>6, <2>2
    <3> QED BY <1>1, <1>2, <1>3, <2>0, <2>2, <3>1 DEF Replays
  <2>3. i = n + 1 \/ i \in 1 .. n
    OBVIOUS
  <2> QED BY <2>1, <2>2, <2>3
<1>10. Replays(K2, R2)'
  BY <1>2, <1>7, <1>8, <1>9 DEF Replays
<1> QED BY <1>3, <1>10 DEF IInv

(* The loop handles the event at the head of the queue. *)
LEMMA Handled ==
  ASSUME IInv, queue # <<>>, queue' = Tail(queue), UNCHANGED <<held, presses>>,
         keys' = After(Head(queue), keys),
         requests' = requests + Requested(Head(queue), keys),
         TypeOK', P1ShowsHeldKeys', Still'
  PROVE  IInv'
<1>1. PICK K, R : Replays(K, R)
  BY DEF IInv
<1>2. PICK n \in Nat : n + 1 = Len(queue) /\ Len(queue') = n
  BY DEF IInv
<1>3. /\ queue \in Seq(Events) /\ queue' \in Seq(Events) /\ Head(queue) = queue[1]
      /\ \A i \in 1 .. n : queue'[i] = queue[i + 1]
  BY <1>2 DEF IInv
<1>4. requests' \in Nat
  <2>1. queue[1] \in Events /\ keys \in SUBSET Keys
    BY <1>2, <1>3 DEF IInv, TypeOK
  <2> QED BY <1>3, <2>1, AfterKeys DEF IInv
<1>5. PICK K2 : K2 = [i \in 0 .. n |-> K[i + 1]]
  OBVIOUS
<1>6. PICK R2 : R2 = [i \in 0 .. n |-> R[i + 1]]
  OBVIOUS
<1>7. K2 \in [0 .. n -> SUBSET Keys] /\ R2 \in [0 .. n -> Nat]
  <2>1. \A i \in 0 .. n : K[i + 1] \in SUBSET Keys /\ R[i + 1] \in Nat
    <3>1. \A i \in 0 .. n : i + 1 \in 0 .. Len(queue)
      BY <1>2
    <3> QED BY <1>1, <3>1 DEF Replays
  <2> QED BY <1>5, <1>6, <2>1
<1>8. K2[0] = keys' /\ R2[0] = requests' /\ K2[n] = held' /\ R2[n] = presses'
  <2>1. /\ 1 \in 1 .. Len(queue) /\ 1 - 1 = 0 /\ 0 \in 0 .. n /\ n \in 0 .. n
    BY <1>2
  <2>2. K[1] = After(queue[1], K[0]) /\ R[1] = R[0] + Requested(queue[1], K[0])
    BY <1>1, <2>1 DEF Replays
  <2>3. K2[0] = K[1] /\ R2[0] = R[1] /\ K2[n] = K[n + 1] /\ R2[n] = R[n + 1]
    BY <1>5, <1>6, <2>1
  <2> QED BY <1>1, <1>2, <1>3, <2>2, <2>3 DEF Replays
<1>9. ASSUME NEW i \in 1 .. n
      PROVE  /\ K2[i] = After(queue'[i], K2[i - 1])
             /\ R2[i] = R2[i - 1] + Requested(queue'[i], K2[i - 1])
  <2>1. K2[i - 1] = K[i] /\ R2[i - 1] = R[i] /\ K2[i] = K[i + 1] /\ R2[i] = R[i + 1]
    BY <1>5, <1>6
  <2>2. i + 1 \in 1 .. Len(queue) /\ (i + 1) - 1 = i
    BY <1>2
  <2>3. /\ K[i + 1] = After(queue[i + 1], K[i])
        /\ R[i + 1] = R[i] + Requested(queue[i + 1], K[i])
    BY <1>1, <2>2 DEF Replays
  <2> QED BY <1>3, <2>1, <2>3
<1>10. Replays(K2, R2)'
  BY <1>2, <1>7, <1>8, <1>9 DEF Replays
<1> QED BY <1>3, <1>4, <1>10 DEF IInv
-----------------------------------------------------------------------------
LEMMA FourLines ==
  ASSUME NEW k0, NEW k1, NEW k2, NEW k3, NEW pressed, NEW line \in 0 .. 3
  PROVE  LET tests == {<<k3, 3>>, <<k2, 2>>, <<k1, 1>>, <<k0, 0>>}
         IN  line \in {t[2] : t \in {u \in tests : u[1] \in pressed}}
               <=> << k0, k1, k2, k3 >>[line + 1] \in pressed
<1> DEFINE tests == {<<k3, 3>>, <<k2, 2>>, <<k1, 1>>, <<k0, 0>>}
           lines == {t[2] : t \in {u \in tests : u[1] \in pressed}}
<1>1. line \in lines <=> \E u \in tests : u[1] \in pressed /\ u[2] = line
  BY Zenon
<1>2. \A u \in tests : \/ u[1] = k3 /\ u[2] = 3
                       \/ u[1] = k2 /\ u[2] = 2
                       \/ u[1] = k1 /\ u[2] = 1
                       \/ u[1] = k0 /\ u[2] = 0
  OBVIOUS
<1>3. /\ \E u \in tests : u[1] = k3 /\ u[2] = 3
      /\ \E u \in tests : u[1] = k2 /\ u[2] = 2
      /\ \E u \in tests : u[1] = k1 /\ u[2] = 1
      /\ \E u \in tests : u[1] = k0 /\ u[2] = 0
  OBVIOUS
<1> HIDE DEF tests
<1>4. line \in lines <=> (\/ k3 \in pressed /\ line = 3
                          \/ k2 \in pressed /\ line = 2
                          \/ k1 \in pressed /\ line = 1
                          \/ k0 \in pressed /\ line = 0)
  <2> HIDE DEF lines
  <2> QED BY <1>1, <1>2, <1>3
<1>5. line = 0 \/ line = 1 \/ line = 2 \/ line = 3
  OBVIOUS
<1>6. /\ << k0, k1, k2, k3 >>[0 + 1] = k0 /\ << k0, k1, k2, k3 >>[1 + 1] = k1
      /\ << k0, k1, k2, k3 >>[2 + 1] = k2 /\ << k0, k1, k2, k3 >>[3 + 1] = k3
  OBVIOUS
<1>7. line \in lines <=> << k0, k1, k2, k3 >>[line + 1] \in pressed
  <2> HIDE DEF lines
  <2> QED BY <1>4, <1>5, <1>6
<1> QED BY <1>7 DEF tests

\* What a write to P1 pulls low is what the key matrix says, for every selection.
LEMMA Shows ==
  ASSUME NEW s \in 0 .. 3, NEW pressed, NEW line \in 0 .. 3
  PROVE  line \in {t[2] : t \in {u \in Tests(s) : u[1] \in pressed}}
           <=> s \in {1, 2} /\ Matrix[s][line + 1] \in pressed
<1>1. CASE s = 1
  <2>1. /\ Tests(s) = Buttons
        /\ Matrix[s] = <<"GB_KEY_A", "GB_KEY_B", "GB_KEY_SELECT", "GB_KEY_START">>
    BY <1>1 DEF Tests, Matrix
  <2>2. line \in {t[2] : t \in {u \in Buttons : u[1] \in pressed}}
          <=> <<"GB_KEY_A", "GB_KEY_B", "GB_KEY_SELECT", "GB_KEY_START">>[line + 1] \in pressed
    BY ONLY FourLines, line \in 0 .. 3, Zenon DEF Buttons
  <2> QED BY ONLY <1>1, <2>1, <2>2
<1>2. CASE s = 2
  <2>1. /\ Tests(s) = Directions
        /\ Matrix[s] = <<"GB_KEY_RIGHT", "GB_KEY_LEFT", "GB_KEY_UP", "GB_KEY_DOWN">>
    BY <1>2 DEF Tests, Matrix
  <2>2. line \in {t[2] : t \in {u \in Directions : u[1] \in pressed}}
          <=> <<"GB_KEY_RIGHT", "GB_KEY_LEFT", "GB_KEY_UP", "GB_KEY_DOWN">>[line + 1] \in pressed
    BY ONLY FourLines, line \in 0 .. 3, Zenon DEF Directions
  <2> QED BY ONLY <1>2, <2>1, <2>2
<1>3. CASE s = 0 \/ s = 3
  <2>1. Tests(s) = {}
    BY <1>3 DEF Tests
  <2> QED BY <1>3, <2>1
<1> QED BY <1>1, <1>2, <1>3

\* Used where an event is sent: TypeOK in parts.
LEMMA Bounds ==
  ASSUME TypeOK, queue \in Seq(Events), NEW e \in Events, Send(e)
  PROVE  events' \in 0 .. MaxEvents /\ Len(queue') <= events' /\ queue' = Append(queue, e)
BY KeysAssumption DEF TypeOK, Send

LEMMA Plays == ASSUME IInv, Player PROVE IInv'
<1>1. PICK e \in Events :
        /\ Send(e) /\ held' = After(e, held) /\ presses' = presses + Requested(e, held)
        /\ held' \subseteq Keys
  <2>0. /\ held \subseteq Keys /\ presses \in Nat
    <3>1. PICK K, R : Replays(K, R)
      BY DEF IInv
    <3>2. Len(queue) \in 0 .. Len(queue)
      BY DEF IInv
    <3> QED BY <3>1, <3>2 DEF IInv, TypeOK, Replays
  <2>1. CASE \E k \in Keys \ held :
               Send(<<"down", k>>) /\ held' = held \cup {k} /\ presses' = presses + 1
    <3>1. PICK k \in Keys \ held :
            Send(<<"down", k>>) /\ held' = held \cup {k} /\ presses' = presses + 1
      BY <2>1
    <3>2. PICK e : e = <<"down", k>>
      OBVIOUS
    <3>3. e \in Events /\ After(e, held) = held \cup {k} /\ Requested(e, held) = 1
      BY <3>1, <3>2 DEF Events, After, Requested
    <3> QED BY <2>0, <3>1, <3>2, <3>3
  <2>2. CASE \E k \in held : Send(<<"down", k>>) /\ UNCHANGED <<held, presses>>
    <3>1. PICK k \in held : Send(<<"down", k>>) /\ UNCHANGED <<held, presses>>
      BY <2>2
    <3>2. PICK e : e = <<"down", k>>
      OBVIOUS
    <3>3. e \in Events /\ After(e, held) = held /\ Requested(e, held) = 0
      BY <2>0, <3>1, <3>2 DEF Events, After, Requested
    <3> QED BY <2>0, <3>1, <3>2, <3>3
  <2>3. CASE \E k \in held : Send(<<"up", k>>) /\ held' = held \ {k} /\ UNCHANGED presses
    <3>1. PICK k \in held : Send(<<"up", k>>) /\ held' = held \ {k} /\ UNCHANGED presses
      BY <2>3
    <3>2. PICK e : e = <<"up", k>>
      OBVIOUS
    <3>3. e \in Events /\ After(e, held) = held \ {k} /\ Requested(e, held) = 0
      BY <2>0, <3>1, <3>2 DEF Events, After, Requested
    <3> QED BY <2>0, <3>1, <3>2, <3>3
  <2>4. CASE Send(<<"quit">>) /\ UNCHANGED <<held, presses>>
    <3>1. PICK e : e = <<"quit">>
      OBVIOUS
    <3>2. e \in Events /\ After(e, held) = held /\ Requested(e, held) = 0
      BY <3>1 DEF Events, After, Requested
    <3> QED BY <2>0, <2>4, <3>1, <3>2
  <2> QED BY <2>1, <2>2, <2>3, <2>4 DEF Player
<1>2. /\ UNCHANGED <<phase, running, keys, selected, low, int_flag, requests, polled, basis>>
  BY DEF Player, console, past
<1>3. events' \in 0 .. MaxEvents /\ Len(queue') <= events' /\ queue' = Append(queue, e)
  BY <1>1, Bounds DEF IInv
<1>4. TypeOK' /\ P1ShowsHeldKeys' /\ Still'
  BY <1>1, <1>2, <1>3 DEF IInv, TypeOK, P1ShowsHeldKeys, Still
<1> QED BY <1>1, <1>2, <1>3, <1>4, Sent

LEMMA Writes == ASSUME IInv, WriteP1 \/ Acknowledge PROVE IInv'
<1>1. CASE WriteP1
  <2>1. /\ UNCHANGED <<phase, running, keys, int_flag, held, queue, events, presses,
                       requests, polled>>
        /\ phase = "frame" /\ basis' = polled
    BY <1>1 DEF WriteP1, keyboard
  <2>2. PICK s \in 0 .. 3 :
          selected' = s /\ low' = {t[2] : t \in {u \in Tests(s) : u[1] \in keys}}
    BY <1>1 DEF WriteP1, PullLow
  <2>3. low' \subseteq 0 .. 3
    BY <2>2 DEF Tests, Buttons, Directions
  <2>4. keys = basis'
    BY <2>1 DEF IInv, Still
  <2>5. P1ShowsHeldKeys'
    <3>1. \A line \in 0 .. 3 :
            line \in low' <=> s \in {1, 2} /\ Matrix[s][line + 1] \in keys
      BY <2>2, Shows
    <3> QED BY <2>2, <2>4, <3>1 DEF P1ShowsHeldKeys, Matrix
  <2>6. TypeOK' /\ Still'
    BY <2>1, <2>2, <2>3 DEF IInv, TypeOK, Still
  <2> QED BY <2>1, <2>5, <2>6, SameReplay
<1>2. CASE Acknowledge
  <2>1. /\ UNCHANGED <<phase, running, keys, selected, low, held, queue, events, presses,
                       requests, polled, basis>>
        /\ int_flag' \subseteq int_flag
    BY <1>2 DEF Acknowledge, keyboard, past
  <2>2. TypeOK' /\ P1ShowsHeldKeys' /\ Still'
    BY <2>1 DEF IInv, TypeOK, P1ShowsHeldKeys, Still
  <2> QED BY <2>1, <2>2, SameReplay
<1> QED BY <1>1, <1>2

LEMMA Settled == IInv => KeysFollowKeyboard /\ OneRequestPerPress
<1> SUFFICES ASSUME IInv, queue = <<>> PROVE keys = held /\ requests = presses
  BY DEF KeysFollowKeyboard, OneRequestPerPress
<1>1. Len(queue) = 0
  OBVIOUS
<1> QED BY <1>1 DEF IInv, Replays

LEMMA Turns == ASSUME IInv, EndFrame \/ Resume PROVE IInv'
<1>1. /\ UNCHANGED <<running, keys, selected, low, int_flag, held, queue, events, presses,
                     requests, basis>>
      /\ phase' \in {"frame", "events", "over"}
  BY DEF IInv, TypeOK, EndFrame, Resume, GoOn, console, keyboard, past
<1>2. polled' \subseteq Keys /\ Still'
  <2>1. CASE EndFrame
    BY <2>1 DEF EndFrame, past, Still, IInv, TypeOK
  <2>2. CASE Resume
    <3>1. keys = held
      BY <2>2, Settled DEF Resume, KeysFollowKeyboard
    <3> QED BY <1>1, <2>2, <3>1 DEF Resume, GoOn, Still, IInv, TypeOK
  <2> QED BY <2>1, <2>2
<1>3. TypeOK' /\ P1ShowsHeldKeys'
  BY <1>1, <1>2 DEF IInv, TypeOK, P1ShowsHeldKeys
<1> QED BY <1>1, <1>2, <1>3, SameReplay

LEMMA Polls == ASSUME IInv, PollEvent PROVE IInv'
<1> DEFINE e == Head(queue)
<1>1. /\ queue # <<>> /\ queue' = Tail(queue) /\ phase = "events" /\ phase' = "events"
      /\ UNCHANGED <<selected, low, held, events, presses, polled, basis>>
      /\ Handle(e)
  BY DEF PollEvent
<1>2. e \in Events /\ Len(queue') <= events' /\ requests \in Nat
  BY <1>1, KeysAssumption DEF IInv, TypeOK
<1>3. /\ keys' = After(e, keys) /\ requests' = requests + Requested(e, keys)
      /\ running' \in BOOLEAN
      /\ int_flag' \subseteq int_flag \cup {GB_INT_JOYPAD}
      /\ int_flag' = int_flag \/ requests' = requests + 1
  <2>1. CASE e[1] = "quit"
    BY <1>1, <1>2, <2>1 DEF Handle, StopOn, After, Requested
  <2>2. CASE e[1] = "down"
    BY <1>1, <1>2, <2>2 DEF Handle, StopOn, press_key, joypad_interrupt, After, Requested
  <2>3. CASE e[1] = "up"
    BY <1>1, <1>2, <2>3 DEF Handle, StopOn, release_key, After, Requested
  <2> QED BY <1>2, <2>1, <2>2, <2>3, Shapes
<1>4. keys' \subseteq Keys
  BY <1>2, <1>3, AfterKeys DEF IInv, TypeOK
<1>6. int_flag' # {} => requests' > 0
  <2>1. Requested(e, keys) \in Nat
    BY <1>2, AfterKeys DEF IInv, TypeOK
  <2> QED BY <1>2, <1>3, <2>1 DEF IInv, TypeOK
<1>7. int_flag' \subseteq {GB_INT_JOYPAD}
  BY <1>3 DEF IInv, TypeOK
<1>8. P1ShowsHeldKeys' /\ Still'
  BY <1>1 DEF IInv, P1ShowsHeldKeys, Still
<1>9. /\ held' \subseteq Keys /\ selected' \in 0 .. 3 /\ low' \subseteq 0 .. 3
      /\ polled' \subseteq Keys /\ basis' \subseteq Keys
      /\ events' \in 0 .. MaxEvents
  BY <1>1 DEF IInv, TypeOK
<1>5. TypeOK'
  BY <1>1, <1>2, <1>3, <1>4, <1>6, <1>7, <1>8, <1>9 DEF TypeOK
<1> QED BY <1>1, <1>3, <1>5, <1>8, Handled

LEMMA StepInv == IInv /\ [Next]_mvars => IInv'
<1> SUFFICES ASSUME IInv, [Next]_mvars PROVE IInv'
  OBVIOUS
<1>1. CASE UNCHANGED mvars
  BY <1>1, SameReplay DEF mvars, console, keyboard, past, IInv, TypeOK, P1ShowsHeldKeys, Still
<1>2. CASE Next
  BY <1>2, Plays, Writes, Turns, Polls DEF Next, Loop
<1> QED BY <1>1, <1>2

LEMMA Inductive == Spec => []IInv
BY InitInv, StepInv, PTL DEF Spec

-----------------------------------------------------------------------------
(* Ranges, and no joypad request without a call of joypad_interrupt.       *)
THEOREM TypeCorrect == Spec => []TypeOK
<1>1. IInv => TypeOK
  BY DEF IInv
<1> QED BY <1>1, Inductive, PTL

(* Whatever the player does while a frame runs, gb.keys is what is held    *)
(* down as soon as the events that queued up have been handled.            *)
THEOREM KeysFollow == Spec => []KeysFollowKeyboard
BY Inductive, Settled, PTL

(* By then every press has requested exactly one interrupt.                *)
THEOREM OneRequest == Spec => []OneRequestPerPress
BY Inductive, Settled, PTL

(* What the program reads from P1, in whatever moment, are the keys of the *)
(* group it selected that the player held down when the loop had last      *)
(* caught up with the keyboard before P1 was written.                      *)
THEOREM HeldKeysShow == Spec => []P1ShowsHeldKeys
<1>1. IInv => P1ShowsHeldKeys
  BY DEF IInv
<1> QED BY <1>1, Inductive, PTL
=============================================================================
