------------------------------ MODULE BoardLink ------------------------------
(***************************************************************************)
(* How the two boards register with the server and stay in touch with it:  *)
(* setup(), the heartbeat and the Wi-Fi check of loop() on the boards      *)
(* (controller.ino, camera.ino), and the server's record of each board     *)
(* (board_manager.py, models.py).  A scan starts only when the server      *)
(* finds both records alive, and every request between server and board    *)
(* carries the token of the registration.                                  *)
(*                                                                         *)
(* Time goes by in ticks.  It does not go by while a board posts: a        *)
(* request that is not answered promptly is one of the faults, and what    *)
(* prompt requests take is part of LOOP.                                   *)
(***************************************************************************)
EXTENDS Naturals

CONSTANTS
    Token,      \* what generate_token may return
    NoToken,    \* no record, or the empty auth_token
    INTERVAL,   \* HEARTBEAT_INTERVAL, in ticks
    LOOP,       \* bound on an iteration of loop(), in ticks
    LEASE,      \* is_alive's thirty seconds, in ticks
    MaxFaults   \* bound on the faults of a behaviour

ASSUME TokenAssumption == NoToken \notin Token
ASSUME TicksAssumption == INTERVAL \in Nat /\ LOOP \in Nat /\ LEASE \in Nat
ASSUME LeaseAssumption == INTERVAL + LOOP < LEASE
ASSUME MaxFaultsAssumption == MaxFaults \in Nat

Board == {"camera", "controller"}

VARIABLES
    \* the server
    token,          \* the token of its record of a board
    age,            \* ticks since the record's last_seen, LEASE at most
    \* the boards
    pc,             \* booting, in loop(), or in a post: of setup's
                    \* registerWithServer, of sendHeartbeat, or of the
                    \* registerWithServer "again" that sendHeartbeat calls
    auth,           \* auth_token
    is_registered,
    due,            \* ticks since last_heartbeat, INTERVAL + LOOP at most
    radio,          \* associated ("up"), trying to be ("down"), or "off"
    \* the posts
    answer,         \* what came of a board's post: "ok" is status 200
    given,          \* the token in the answer to its registration
    late,           \* requests that nobody waits for but that may be served
    \* the environment
    faults,         \* faults so far
    garbled         \* boards that got an answer they could not parse

serverVars == <<token, age>>
boardVars == <<pc, auth, is_registered, due, radio>>
postVars == <<answer, given, late>>
faultVars == <<faults, garbled>>
vars == <<serverVars, boardVars, postVars, faultVars>>

Posting == {"setup", "beat", "again"}
Registering == {"setup", "again"}

\* Types, and that a board is registered in loop() and during a heartbeat only:
\* sendHeartbeat takes it back before it registers anew.
TypeOK ==
    /\ token \in [Board -> Token \cup {NoToken}]
    /\ age \in [Board -> 0 .. LEASE]
    /\ pc \in [Board -> {"boot", "loop"} \cup Posting]
    /\ auth \in [Board -> Token \cup {NoToken}]
    /\ is_registered \in [Board -> BOOLEAN]
    /\ \A b \in Board : is_registered[b] => pc[b] \in {"loop", "beat"}
    /\ due \in [Board -> 0 .. INTERVAL + LOOP]
    /\ radio \in [Board -> {"up", "down", "off"}]
    /\ answer \in [Board -> {"none", "ok", "no", "garbled"}]
    /\ given \in [Board -> Token \cup {NoToken}]
    /\ late \subseteq [board : Board, token : Token \cup {NoToken}]
    /\ faults \in 0 .. MaxFaults
    /\ garbled \subseteq Board

Init ==
    /\ token = [b \in Board |-> NoToken]
    /\ age = [b \in Board |-> LEASE]
    /\ pc = [b \in Board |-> "boot"]
    /\ auth = [b \in Board |-> NoToken]
    /\ is_registered = [b \in Board |-> FALSE]
    /\ due = [b \in Board |-> 0]
    /\ radio = [b \in Board |-> "off"]
    /\ answer = [b \in Board |-> "none"]
    /\ given = [b \in Board |-> NoToken]
    /\ late = {}
    /\ faults = 0
    /\ garbled = {}

\* Mutant: a lease as long as the heartbeat's interval.
Alive_ShortLease(b) == token[b] # NoToken /\ age[b] < INTERVAL

\* is_alive, of a record that exists.
Alive(b) == token[b] # NoToken /\ age[b] < LEASE

-----------------------------------------------------------------------------
(* The server.                                                             *)

\* A board's post still waits for its answer, and what it asked: a heartbeat
\* carries a token, a registration none.
Unanswered(b) == pc[b] \in Posting /\ answer[b] = "none"

Asked(b) ==
    [board |-> b, token |-> IF pc[b] = "beat" THEN auth[b] ELSE NoToken]

\* Secrets are drawn so that none comes twice; which, does not matter.
Uses(b, t) ==
    t \in {token[b], auth[b], given[b]} \/ [board |-> b, token |-> t] \in late
Fresh == {t \in Token : \A b \in Board : ~Uses(b, t)}
GeneratedToken == CHOOSE t \in Fresh : TRUE

\* Mutant: a new record counts as heard from.
RegisterBoard_Alive(b) ==
    /\ Fresh # {}
    /\ token' = [token EXCEPT ![b] = GeneratedToken]
    /\ age' = [age EXCEPT ![b] = 0]

\* register_board: a record with a new token replaces the board's last one; it
\* was never heard from, so the "System Ready" that follows goes to no LCD.
RegisterBoard(b) ==
    /\ Fresh # {}
    /\ token' = [token EXCEPT ![b] = GeneratedToken]
    /\ age' = [age EXCEPT ![b] = LEASE]

\* update_heartbeat finds the record by its token.
Known(t) == \E b \in Board : token[b] = t

UpdateHeartbeat(t) ==
    /\ age' = [b \in Board |-> IF token[b] = t THEN 0 ELSE age[b]]
    /\ UNCHANGED token

Answered(b, what, t) ==
    /\ answer' = [answer EXCEPT ![b] = what]
    /\ given' = [given EXCEPT ![b] = t]
    /\ UNCHANGED late

ServeRegister(b) ==
    /\ Unanswered(b)
    /\ pc[b] \in Registering
    /\ radio[b] = "up"
    /\ RegisterBoard(b)
    /\ Answered(b, "ok", GeneratedToken)
    /\ UNCHANGED <<boardVars, faultVars>>

\* 401 if the server does not know the token.
ServeHeartbeat(b) ==
    /\ Unanswered(b)
    /\ pc[b] = "beat"
    /\ radio[b] = "up"
    /\ UpdateHeartbeat(auth[b])
    /\ Answered(b, IF Known(auth[b]) THEN "ok" ELSE "no", NoToken)
    /\ UNCHANGED <<boardVars, faultVars>>

\* The server gets round to a request whose sender has given up.
ServeLate(request) ==
    /\ request \in late
    /\ late' = late \ {request}
    /\ \/ /\ request.token = NoToken
          /\ RegisterBoard(request.board)
       \/ /\ request.token # NoToken
          /\ UpdateHeartbeat(request.token)
    /\ UNCHANGED <<boardVars, answer, given, faultVars>>

\* Without Wi-Fi the post fails at once.
Unreachable(b) ==
    /\ Unanswered(b)
    /\ radio[b] # "up"
    /\ Answered(b, "no", NoToken)
    /\ UNCHANGED <<serverVars, boardVars, faultVars>>

-----------------------------------------------------------------------------
(* The boards.                                                             *)

MovesOn(b, place) ==
    /\ pc' = [pc EXCEPT ![b] = place]
    /\ answer' = [answer EXCEPT ![b] = "none"]
    /\ given' = [given EXCEPT ![b] = NoToken]

\* setup: Wi-Fi comes up (the board restarts until it does), and
\* registerWithServer posts.
Setup(b) ==
    /\ pc[b] = "boot"
    /\ MovesOn(b, "setup")
    /\ radio' = [radio EXCEPT ![b] = "up"]
    /\ UNCHANGED <<serverVars, auth, is_registered, due, late, faultVars>>

\* last_heartbeat = millis() follows sendHeartbeat; setup leaves it 0.
HeartbeatOver(b) ==
    due' = IF pc[b] = "setup" THEN due ELSE [due EXCEPT ![b] = 0]

\* registerWithServer: a token, and the board is registered.
Registered(b) ==
    /\ pc[b] \in Registering
    /\ answer[b] = "ok"
    /\ auth' = [auth EXCEPT ![b] = given[b]]
    /\ is_registered' = [is_registered EXCEPT ![b] = TRUE]
    /\ HeartbeatOver(b)
    /\ MovesOn(b, "loop")
    /\ UNCHANGED <<serverVars, radio, late, faultVars>>

\* A 200 that cannot be parsed: it is not, and nothing will try again.
NotRegistered(b) ==
    /\ pc[b] \in Registering
    /\ answer[b] = "garbled"
    /\ HeartbeatOver(b)
    /\ MovesOn(b, "loop")
    /\ UNCHANGED <<serverVars, auth, is_registered, radio, late, faultVars>>

\* ESP.restart, or the power goes and comes back.
Restart(b) ==
    /\ MovesOn(b, "boot")
    /\ auth' = [auth EXCEPT ![b] = NoToken]
    /\ is_registered' = [is_registered EXCEPT ![b] = FALSE]
    /\ due' = [due EXCEPT ![b] = 0]
    /\ radio' = [radio EXCEPT ![b] = "off"]

\* Mutant: the board does not start over.
RegistrationFailed_GoesOn(b) ==
    /\ pc[b] \in Registering
    /\ answer[b] = "no"
    /\ HeartbeatOver(b)
    /\ MovesOn(b, "loop")
    /\ UNCHANGED <<serverVars, auth, is_registered, radio, late, faultVars>>

\* Any other answer, or none.
RegistrationFailed(b) ==
    /\ pc[b] \in Registering
    /\ answer[b] = "no"
    /\ Restart(b)
    /\ UNCHANGED <<serverVars, late, faultVars>>

\* loop: more than HEARTBEAT_INTERVAL has gone by (in the course of the tick
\* that makes INTERVAL full), and sendHeartbeat posts.
SendHeartbeat(b) ==
    /\ pc[b] = "loop"
    /\ is_registered[b]
    /\ due[b] >= INTERVAL
    /\ MovesOn(b, "beat")
    /\ UNCHANGED <<serverVars, auth, is_registered, due, radio, late, faultVars>>

HeartbeatSent(b) ==
    /\ pc[b] = "beat"
    /\ answer[b] = "ok"
    /\ HeartbeatOver(b)
    /\ MovesOn(b, "loop")
    /\ UNCHANGED <<serverVars, auth, is_registered, radio, late, faultVars>>

\* Mutant: is_registered is not reset.
HeartbeatFailed_StaysRegistered(b) ==
    /\ pc[b] = "beat"
    /\ answer[b] = "no"
    /\ MovesOn(b, "again")
    /\ UNCHANGED <<serverVars, auth, is_registered, due, radio, late, faultVars>>

\* Any other answer, or none: sendHeartbeat registers anew.
HeartbeatFailed(b) ==
    /\ pc[b] = "beat"
    /\ answer[b] = "no"
    /\ is_registered' = [is_registered EXCEPT ![b] = FALSE]
    /\ MovesOn(b, "again")
    /\ UNCHANGED <<serverVars, auth, due, radio, late, faultVars>>

\* loop's Wi-Fi check: the camera begins anew; the controller does not.
CheckWifi(b) ==
    /\ pc[b] = "loop"
    /\ radio[b] # "up"
    /\ radio' = [radio EXCEPT ![b] = IF b = "camera" THEN "down" ELSE "off"]
    /\ UNCHANGED <<serverVars, pc, auth, is_registered, due, postVars, faultVars>>

\* The Wi-Fi library associates again by itself.
Rejoin(b) ==
    /\ radio[b] = "down"
    /\ radio' = [radio EXCEPT ![b] = "up"]
    /\ UNCHANGED <<serverVars, pc, auth, is_registered, due, postVars, faultVars>>

-----------------------------------------------------------------------------
(* Time, and what goes wrong.                                              *)

Overdue(b) ==
    pc[b] = "loop" /\ is_registered[b] /\ due[b] = INTERVAL + LOOP

UpTo(bound, n) == IF n < bound THEN n + 1 ELSE n

Tick ==
    /\ \A b \in Board : pc[b] \notin Posting /\ ~Overdue(b)
    /\ age' = [b \in Board |-> UpTo(LEASE, age[b])]
    /\ due' = [b \in Board |-> UpTo(INTERVAL + LOOP, due[b])]
    /\ UNCHANGED <<token, pc, auth, is_registered, radio, postVars, faultVars>>

Fault == faults < MaxFaults /\ faults' = faults + 1

WifiDrops(b) ==
    /\ Fault
    /\ radio[b] = "up"
    /\ radio' = [radio EXCEPT ![b] = "down"]
    /\ UNCHANGED <<serverVars, pc, auth, is_registered, due, postVars, garbled>>

\* The server cannot be reached, or fails (500).
PostFails(b) ==
    /\ Fault
    /\ Unanswered(b)
    /\ Answered(b, "no", NoToken)
    /\ UNCHANGED <<serverVars, boardVars, garbled>>

\* The answer does not come in time, and the request may still be served.
PostTimesOut(b) ==
    /\ Fault
    /\ Unanswered(b)
    /\ answer' = [answer EXCEPT ![b] = "no"]
    /\ late' = late \cup {Asked(b)}
    /\ UNCHANGED <<serverVars, boardVars, given, garbled>>

\* The answer to a registration arrives mutilated.
AnswerGarbled(b) ==
    /\ Fault
    /\ pc[b] \in Registering
    /\ answer[b] = "ok"
    /\ Answered(b, "garbled", NoToken)
    /\ garbled' = garbled \cup {b}
    /\ UNCHANGED <<serverVars, boardVars>>

PowerCycle(b) ==
    /\ Fault
    /\ Restart(b)
    /\ \/ UNCHANGED late
       \/ Unanswered(b) /\ late' = late \cup {Asked(b)}
    /\ UNCHANGED <<serverVars, garbled>>

\* The records are kept in memory, and connections end with the process.
ServerRestarts ==
    /\ Fault
    /\ token' = [b \in Board |-> NoToken]
    /\ age' = [b \in Board |-> LEASE]
    /\ late' = {}
    /\ \E cut \in SUBSET {b \in Board : Unanswered(b)} :
           answer' = [b \in Board |-> IF b \in cut THEN "no" ELSE answer[b]]
    /\ UNCHANGED <<boardVars, given, garbled>>

-----------------------------------------------------------------------------
BoardMoves(b) ==
    \/ Setup(b)
    \/ Registered(b)
    \/ NotRegistered(b)
    \/ RegistrationFailed(b)
    \/ SendHeartbeat(b)
    \/ HeartbeatSent(b)
    \/ HeartbeatFailed(b)

PostMoves(b) == ServeRegister(b) \/ ServeHeartbeat(b) \/ Unreachable(b)

FaultStrikes(b) ==
    \/ WifiDrops(b)
    \/ PostFails(b)
    \/ PostTimesOut(b)
    \/ AnswerGarbled(b)
    \/ PowerCycle(b)

Next ==
    \/ \E b \in Board : \/ BoardMoves(b)
                        \/ PostMoves(b)
                        \/ CheckWifi(b)
                        \/ Rejoin(b)
                        \/ FaultStrikes(b)
    \/ \E request \in late : ServeLate(request)
    \/ Tick
    \/ ServerRestarts

Spec == Init /\ [][Next]_vars

\* The boards' loops go round, posts are answered and time passes.  No fault
\* need happen, a late request need not be served, and the Wi-Fi need not come
\* back but to a board that starts.
FairSpec ==
    /\ Spec
    /\ \A b \in Board : WF_vars(BoardMoves(b)) /\ WF_vars(PostMoves(b))
    /\ WF_vars(Tick)

-----------------------------------------------------------------------------
InTouch(b) == Alive(b) /\ is_registered[b]

\* What the server takes for a live board speaks its token: a start, a capture
\* or an abort that passes is_alive is not turned down (401) by a board that
\* is registered, however late registrations and heartbeats are served.
LiveBoardsAgree ==
    \A b \in Board : Alive(b) /\ is_registered[b] => auth[b] = token[b]

\* As long as nothing goes wrong no board is ever taken for dead, although
\* loop() looks at the clock only between scan steps.
QuietBoardsStayAlive ==
    [][\A b \in Board : Alive(b) /\ ~Alive(b)' => faults' # 0]_vars

\* Whatever happened, in the end both boards are registered and alive again
\* and stay so, by themselves; except that one whose registration was answered
\* with a mutilated 200 may stay off for ever.
BoardsComeBack ==
    \A b \in Board : <>[](InTouch(b) \/ b \in garbled)
=============================================================================
