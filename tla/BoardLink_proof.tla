--------------------------- MODULE BoardLink_proof ---------------------------
(***************************************************************************)
(* What BoardLink promises, for any lease, interval and number of tokens   *)
(* and of faults.                                                          *)
(***************************************************************************)
EXTENDS BoardLink, TLAPS

USE DEF Board, Posting, Registering, serverVars, boardVars, postVars,
        faultVars, vars

-----------------------------------------------------------------------------
(* Types.                                                                  *)

LEMMA InitTypeOK == Init => TypeOK
  BY TicksAssumption, MaxFaultsAssumption
  DEF Init, TypeOK, TicksAssumption, MaxFaultsAssumption

\* A token that is drawn is a token nobody uses.
LEMMA GeneratedTokenIsFresh ==
  Fresh # {} => /\ GeneratedToken \in Token
                /\ \A b \in Board : ~Uses(b, GeneratedToken)
  <1>1. Fresh # {} => GeneratedToken \in Fresh
    BY DEF GeneratedToken
  <1>2. QED
    BY <1>1 DEF Fresh

LEMMA RequestsAreTyped ==
  ASSUME TypeOK, NEW b \in Board
  PROVE  Asked(b) \in [board : Board, token : Token \cup {NoToken}]
  BY DEF TypeOK, Asked

LEMMA BoardMovesTypeOK ==
  ASSUME TypeOK, NEW b \in Board, BoardMoves(b)
  PROVE  TypeOK'
  <1>0. 0 \in 0 .. INTERVAL + LOOP
    BY TicksAssumption DEF TicksAssumption
  <1>1. CASE Setup(b)
    BY <1>1 DEF TypeOK, Setup, MovesOn
  <1>2. CASE Registered(b)
    BY <1>0, <1>2 DEF TypeOK, Registered, MovesOn, HeartbeatOver
  <1>3. CASE NotRegistered(b)
    BY <1>0, <1>3 DEF TypeOK, NotRegistered, MovesOn, HeartbeatOver
  <1>4. CASE RegistrationFailed(b)
    BY <1>0, <1>4 DEF TypeOK, RegistrationFailed, Restart, MovesOn
  <1>5. CASE SendHeartbeat(b)
    BY <1>5 DEF TypeOK, SendHeartbeat, MovesOn
  <1>6. CASE HeartbeatSent(b)
    BY <1>0, <1>6 DEF TypeOK, HeartbeatSent, MovesOn, HeartbeatOver
  <1>7. CASE HeartbeatFailed(b)
    BY <1>7 DEF TypeOK, HeartbeatFailed, MovesOn
  <1>8. QED
    BY <1>1, <1>2, <1>3, <1>4, <1>5, <1>6, <1>7 DEF BoardMoves

LEMMA PostMovesTypeOK ==
  ASSUME TypeOK, NEW b \in Board, PostMoves(b)
  PROVE  TypeOK'
  <1>0. 0 \in 0 .. LEASE /\ LEASE \in 0 .. LEASE
    BY TicksAssumption DEF TicksAssumption
  <1>1. CASE ServeRegister(b)
    BY <1>0, <1>1, GeneratedTokenIsFresh
    DEF TypeOK, ServeRegister, RegisterBoard, Answered, Unanswered
  <1>2. CASE ServeHeartbeat(b)
    BY <1>0, <1>2
    DEF TypeOK, ServeHeartbeat, UpdateHeartbeat, Answered, Unanswered
  <1>3. CASE Unreachable(b)
    BY <1>3 DEF TypeOK, Unreachable, Answered, Unanswered
  <1>4. QED
    BY <1>1, <1>2, <1>3 DEF PostMoves

LEMMA RadioMovesTypeOK ==
  ASSUME TypeOK, NEW b \in Board, CheckWifi(b) \/ Rejoin(b)
  PROVE  TypeOK'
  BY DEF TypeOK, CheckWifi, Rejoin

LEMMA LateMovesTypeOK ==
  ASSUME TypeOK, NEW request \in late, ServeLate(request)
  PROVE  TypeOK'
  <1>0. 0 \in 0 .. LEASE /\ LEASE \in 0 .. LEASE
    BY TicksAssumption DEF TicksAssumption
  <1>1. request.board \in Board
    BY DEF TypeOK
  <1>2. QED
    BY <1>0, <1>1, GeneratedTokenIsFresh
    DEF TypeOK, ServeLate, RegisterBoard, UpdateHeartbeat

LEMMA TickTypeOK ==
  ASSUME TypeOK, Tick
  PROVE  TypeOK'
  <1>1. \A bound \in Nat : \A n \in 0 .. bound : UpTo(bound, n) \in 0 .. bound
    BY DEF UpTo
  <1>2. LEASE \in Nat /\ INTERVAL + LOOP \in Nat
    BY TicksAssumption DEF TicksAssumption
  <1>3. age' \in [Board -> 0 .. LEASE]
    BY <1>1, <1>2 DEF TypeOK, Tick
  <1>4. due' \in [Board -> 0 .. INTERVAL + LOOP]
    BY <1>1, <1>2 DEF TypeOK, Tick
  <1>5. QED
    BY <1>3, <1>4 DEF TypeOK, Tick

LEMMA FaultsTypeOK ==
  ASSUME TypeOK, NEW b \in Board, FaultStrikes(b)
  PROVE  TypeOK'
  <1>0. 0 \in 0 .. INTERVAL + LOOP
    BY TicksAssumption DEF TicksAssumption
  <1>1. CASE WifiDrops(b)
    BY <1>1, MaxFaultsAssumption
    DEF TypeOK, WifiDrops, Fault, MaxFaultsAssumption
  <1>2. CASE PostFails(b)
    BY <1>2, MaxFaultsAssumption
    DEF TypeOK, PostFails, Fault, Answered, MaxFaultsAssumption
  <1>3. CASE PostTimesOut(b)
    BY <1>3, MaxFaultsAssumption, RequestsAreTyped
    DEF TypeOK, PostTimesOut, Fault, MaxFaultsAssumption
  <1>4. CASE AnswerGarbled(b)
    BY <1>4, MaxFaultsAssumption
    DEF TypeOK, AnswerGarbled, Fault, Answered, MaxFaultsAssumption
  <1>5. CASE PowerCycle(b)
    BY <1>0, <1>5, MaxFaultsAssumption, RequestsAreTyped
    DEF TypeOK, PowerCycle, Restart, MovesOn, Fault, MaxFaultsAssumption
  <1>6. QED
    BY <1>1, <1>2, <1>3, <1>4, <1>5 DEF FaultStrikes

LEMMA ServerRestartsTypeOK ==
  ASSUME TypeOK, ServerRestarts
  PROVE  TypeOK'
  <1>0. LEASE \in 0 .. LEASE
    BY TicksAssumption DEF TicksAssumption
  <1>1. QED
    BY <1>0, MaxFaultsAssumption
    DEF TypeOK, ServerRestarts, Fault, MaxFaultsAssumption

LEMMA NextTypeOK == TypeOK /\ [Next]_vars => TypeOK'
  <1>. SUFFICES ASSUME TypeOK, [Next]_vars
                PROVE  TypeOK'
    OBVIOUS
  <1>1. CASE UNCHANGED vars
    BY <1>1 DEF TypeOK
  <1>2. CASE Next
    BY <1>2, BoardMovesTypeOK, PostMovesTypeOK, RadioMovesTypeOK,
       LateMovesTypeOK, TickTypeOK, FaultsTypeOK, ServerRestartsTypeOK
    DEF Next
  <1>3. QED
    BY <1>1, <1>2

\* Every state of a behaviour is well-typed, and a board that registers anew
\* has ceased to be registered (controller.ino:344).
THEOREM LinkTypesAreCorrect == Spec => []TypeOK
  BY InitTypeOK, NextTypeOK, PTL DEF Spec

-----------------------------------------------------------------------------
(* Agreement on the tokens.                                                *)

\* No token is in the records, the memory or the requests of both boards.
OfOneBoard == \A b, c \in Board : \A t \in Token : Uses(b, t) /\ Uses(c, t) => b = c

\* What a board is at agrees with what it knows.
StageAgrees(b) ==
    /\ pc[b] = "beat" => is_registered[b]
    /\ is_registered[b] => auth[b] # NoToken
    /\ given[b] # NoToken => pc[b] \in Registering
    /\ pc[b] \in Registering /\ answer[b] = "ok" => given[b] # NoToken

\* A heartbeat of the board may be served late and refresh its record.
MayBeHeard(b) == [board |-> b, token |-> token[b]] \in late

\* While a board is being told its token, nobody can refresh its record.
UnheardWhenGiven(b) ==
    given[b] # NoToken /\ token[b] # NoToken =>
        age[b] = LEASE /\ auth[b] # token[b] /\ ~MayBeHeard(b)

\* Nobody but itself can refresh a registered board's record.
HeardByItself(b) ==
    is_registered[b] /\ token[b] # NoToken =>
        \/ auth[b] = token[b]
        \/ age[b] = LEASE /\ ~MayBeHeard(b)

LinkInv ==
    /\ TypeOK
    /\ OfOneBoard
    /\ \A b \in Board :
           StageAgrees(b) /\ UnheardWhenGiven(b) /\ HeardByItself(b)

LEMMA InitLinkInv == Init => LinkInv
  BY InitTypeOK, TokenAssumption
  DEF Init, LinkInv, OfOneBoard, StageAgrees, UnheardWhenGiven, HeardByItself,
      Uses, TokenAssumption

\* Boards that get no token they have not used.
LEMMA OfOneBoardKept ==
  ASSUME OfOneBoard,
         \A b \in Board : \A t \in Token : Uses(b, t)' => Uses(b, t)
  PROVE  OfOneBoard'
  BY DEF OfOneBoard

LEMMA BoardMovesLinkInv ==
  ASSUME LinkInv, NEW b \in Board, BoardMoves(b)
  PROVE  LinkInv'
  <1>1. TypeOK'
    BY BoardMovesTypeOK DEF LinkInv
  <1>2. OfOneBoard'
    <2>1. \A c \in Board : \A t \in Token : Uses(c, t)' => Uses(c, t)
      BY TokenAssumption
      DEF LinkInv, TypeOK, BoardMoves, Setup, Registered, NotRegistered,
          RegistrationFailed, Restart, SendHeartbeat, HeartbeatSent,
          HeartbeatFailed, MovesOn, Uses, TokenAssumption
    <2>2. QED
      BY <2>1, OfOneBoardKept DEF LinkInv
  <1>3. ASSUME NEW c \in Board
        PROVE  (StageAgrees(c) /\ UnheardWhenGiven(c) /\ HeardByItself(c))'
    <2>1. CASE Registered(b)
      BY <2>1, <1>1 DEF LinkInv, TypeOK, Registered, MovesOn, StageAgrees,
         UnheardWhenGiven, HeardByItself, MayBeHeard
    <2>2. CASE Setup(b) \/ NotRegistered(b) \/ RegistrationFailed(b)
      BY <2>2 DEF LinkInv, TypeOK, Setup, NotRegistered, RegistrationFailed,
         Restart, MovesOn, StageAgrees, UnheardWhenGiven, HeardByItself,
         MayBeHeard
    <2>3. CASE SendHeartbeat(b) \/ HeartbeatSent(b) \/ HeartbeatFailed(b)
      BY <2>3 DEF LinkInv, TypeOK, SendHeartbeat, HeartbeatSent,
         HeartbeatFailed, MovesOn, StageAgrees, UnheardWhenGiven,
         HeardByItself, MayBeHeard
    <2>4. QED
      BY <2>1, <2>2, <2>3 DEF BoardMoves
  <1>4. QED
    BY <1>1, <1>2, <1>3 DEF LinkInv

\* A record with a token that has just been drawn.
LEMMA NewRecord ==
  ASSUME LinkInv, NEW b \in Board, RegisterBoard(b),
         UNCHANGED auth, late' \subseteq late,
         given' = given \/ given' = [given EXCEPT ![b] = GeneratedToken]
  PROVE  /\ OfOneBoard'
         /\ \A c \in Board \ {b} : token'[c] = token[c] /\ age'[c] = age[c]
         /\ age'[b] = LEASE
         /\ auth'[b] # token'[b]
         /\ ~MayBeHeard(b)'
  <1>1. /\ GeneratedToken \in Token
        /\ \A c \in Board : ~Uses(c, GeneratedToken)
    BY GeneratedTokenIsFresh DEF RegisterBoard
  <1>2. token'[b] = GeneratedToken /\ age'[b] = LEASE
    BY DEF RegisterBoard, LinkInv, TypeOK
  <1>3. \A c \in Board \ {b} : token'[c] = token[c] /\ age'[c] = age[c]
    BY DEF RegisterBoard, LinkInv, TypeOK
  <1>4. \A c \in Board : \A t \in Token :
            Uses(c, t)' => Uses(c, t) \/ (c = b /\ t = GeneratedToken)
    BY <1>2, <1>3 DEF Uses, LinkInv, TypeOK
  <1>5. OfOneBoard'
    BY <1>1, <1>4 DEF OfOneBoard, LinkInv
  <1>6. auth'[b] # token'[b] /\ ~MayBeHeard(b)'
    BY <1>1, <1>2 DEF Uses, MayBeHeard
  <1>7. QED
    BY <1>2, <1>3, <1>5, <1>6

\* A heartbeat whose token its sender uses refreshes the sender's record, if any.
LEMMA SenderIsHeard ==
  ASSUME LinkInv, NEW b \in Board, NEW t \in Token, Uses(b, t),
         UpdateHeartbeat(t)
  PROVE  /\ UNCHANGED token
         /\ \A c \in Board : token[c] # t \/ c # b => age'[c] = age[c]
  <1>1. \A c \in Board : token[c] = t => Uses(c, t)
    BY DEF Uses
  <1>2. QED
    BY <1>1 DEF UpdateHeartbeat, LinkInv, OfOneBoard, TypeOK

LEMMA PostMovesLinkInv ==
  ASSUME LinkInv, NEW b \in Board, PostMoves(b)
  PROVE  LinkInv'
  <1>1. TypeOK'
    BY PostMovesTypeOK DEF LinkInv
  <1>2. CASE ServeRegister(b)
    <2>1. /\ RegisterBoard(b) /\ UNCHANGED <<boardVars, late>>
          /\ given' = [given EXCEPT ![b] = GeneratedToken]
          /\ answer' = [answer EXCEPT ![b] = "ok"]
          /\ pc[b] \in Registering
      BY <1>2 DEF ServeRegister, Answered
    <2>2. GeneratedToken # NoToken
      BY <2>1, GeneratedTokenIsFresh, TokenAssumption
      DEF RegisterBoard, TokenAssumption
    <2>3. ~is_registered[b]
      BY <2>1 DEF LinkInv, TypeOK
    <2>4. /\ OfOneBoard'
          /\ \A c \in Board \ {b} : token'[c] = token[c] /\ age'[c] = age[c]
          /\ age'[b] = LEASE
          /\ auth'[b] # token'[b]
          /\ ~MayBeHeard(b)'
      BY <2>1, NewRecord
    <2>5. ASSUME NEW c \in Board
          PROVE  (StageAgrees(c) /\ UnheardWhenGiven(c) /\ HeardByItself(c))'
      <3>1. CASE c = b
        BY <2>1, <2>2, <2>3, <2>4, <3>1
        DEF StageAgrees, UnheardWhenGiven, HeardByItself, LinkInv, TypeOK
      <3>2. CASE c # b
        BY <2>1, <2>4, <3>2
        DEF StageAgrees, UnheardWhenGiven, HeardByItself, MayBeHeard, LinkInv,
            TypeOK
      <3>3. QED
        BY <3>1, <3>2
    <2>6. QED
      BY <1>1, <2>4, <2>5 DEF LinkInv
  <1>3. CASE ServeHeartbeat(b)
    <2>1. /\ UpdateHeartbeat(auth[b]) /\ UNCHANGED <<boardVars, late>>
          /\ given' = [given EXCEPT ![b] = NoToken]
          /\ \E what \in {"ok", "no"} : answer' = [answer EXCEPT ![b] = what]
          /\ pc[b] = "beat"
      BY <1>3 DEF ServeHeartbeat, Answered
    <2>2. auth[b] \in Token /\ Uses(b, auth[b]) /\ given[b] = NoToken
      BY <2>1 DEF LinkInv, TypeOK, StageAgrees, Uses
    <2>3. /\ UNCHANGED token
          /\ \A c \in Board : token[c] # auth[b] \/ c # b => age'[c] = age[c]
      BY <2>1, <2>2, SenderIsHeard
    <2>4. given' = given
      BY <2>1, <2>2 DEF LinkInv, TypeOK
    <2>5. OfOneBoard'
      BY <2>1, <2>3, <2>4 DEF LinkInv, OfOneBoard, Uses
    <2>6. ASSUME NEW c \in Board
          PROVE  (StageAgrees(c) /\ UnheardWhenGiven(c) /\ HeardByItself(c))'
      BY <2>1, <2>2, <2>3, <2>4
      DEF StageAgrees, UnheardWhenGiven, HeardByItself, MayBeHeard, LinkInv,
          TypeOK
    <2>7. QED
      BY <1>1, <2>5, <2>6 DEF LinkInv
  <1>4. CASE Unreachable(b)
    <2>1. \A c \in Board : \A t \in Token : Uses(c, t)' => Uses(c, t)
      BY <1>4, TokenAssumption
      DEF LinkInv, TypeOK, Unreachable, Answered, Uses, TokenAssumption
    <2>2. OfOneBoard'
      BY <2>1, OfOneBoardKept DEF LinkInv
    <2>3. ASSUME NEW c \in Board
          PROVE  (StageAgrees(c) /\ UnheardWhenGiven(c) /\ HeardByItself(c))'
      BY <1>4 DEF Unreachable, Answered, Unanswered, StageAgrees,
         UnheardWhenGiven, HeardByItself, MayBeHeard, LinkInv, TypeOK
    <2>4. QED
      BY <1>1, <2>2, <2>3 DEF LinkInv
  <1>5. QED
    BY <1>2, <1>3, <1>4 DEF PostMoves

LEMMA RadioMovesLinkInv ==
  ASSUME LinkInv, NEW b \in Board, CheckWifi(b) \/ Rejoin(b)
  PROVE  LinkInv'
  BY RadioMovesTypeOK
  DEF LinkInv, OfOneBoard, Uses, StageAgrees, UnheardWhenGiven, HeardByItself,
      MayBeHeard, CheckWifi, Rejoin

LEMMA LateMovesLinkInv ==
  ASSUME LinkInv, NEW request \in late, ServeLate(request)
  PROVE  LinkInv'
  <1>1. TypeOK'
    BY LateMovesTypeOK DEF LinkInv
  <1>2. PICK b \in Board, t \in Token \cup {NoToken} :
            request = [board |-> b, token |-> t]
    BY DEF LinkInv, TypeOK
  <1>3. late' \subseteq late /\ UNCHANGED <<boardVars, answer, given>>
    BY DEF ServeLate
  <1>4. CASE t = NoToken
    <2>1. RegisterBoard(b)
      BY <1>2, <1>4 DEF ServeLate
    <2>2. /\ OfOneBoard'
          /\ \A c \in Board \ {b} : token'[c] = token[c] /\ age'[c] = age[c]
          /\ age'[b] = LEASE
          /\ auth'[b] # token'[b]
          /\ ~MayBeHeard(b)'
      BY <1>3, <2>1, NewRecord
    <2>3. ASSUME NEW c \in Board
          PROVE  (StageAgrees(c) /\ UnheardWhenGiven(c) /\ HeardByItself(c))'
      <3>1. CASE c = b
        BY <1>3, <2>2, <3>1
        DEF StageAgrees, UnheardWhenGiven, HeardByItself, LinkInv, TypeOK
      <3>2. CASE c # b
        BY <1>3, <2>2, <3>2
        DEF StageAgrees, UnheardWhenGiven, HeardByItself, MayBeHeard, LinkInv,
            TypeOK
      <3>3. QED
        BY <3>1, <3>2
    <2>4. QED
      BY <1>1, <2>2, <2>3 DEF LinkInv
  <1>5. CASE t # NoToken
    <2>1. UpdateHeartbeat(t) /\ t \in Token
      BY <1>2, <1>5 DEF ServeLate
    <2>2. Uses(b, t)
      BY <1>2 DEF Uses
    <2>3. /\ UNCHANGED token
          /\ \A c \in Board : token[c] # t \/ c # b => age'[c] = age[c]
      BY <2>1, <2>2, SenderIsHeard
    <2>4. OfOneBoard'
      BY <1>3, <2>3 DEF LinkInv, OfOneBoard, Uses
    <2>5. ASSUME NEW c \in Board
          PROVE  (StageAgrees(c) /\ UnheardWhenGiven(c) /\ HeardByItself(c))'
      <3>1. token[c] = t /\ c = b => MayBeHeard(c)
        BY <1>2 DEF MayBeHeard
      <3>2. QED
        BY <1>3, <2>3, <3>1
        DEF StageAgrees, UnheardWhenGiven, HeardByItself, MayBeHeard, LinkInv,
            TypeOK
    <2>6. QED
      BY <1>1, <2>4, <2>5 DEF LinkInv
  <1>6. QED
    BY <1>4, <1>5

LEMMA TickLinkInv ==
  ASSUME LinkInv, Tick
  PROVE  LinkInv'
  <1>1. \A b \in Board : age[b] = LEASE => age'[b] = LEASE
    BY TicksAssumption DEF LinkInv, TypeOK, Tick, UpTo, TicksAssumption
  <1>2. QED
    BY <1>1, TickTypeOK
    DEF LinkInv, OfOneBoard, Uses, StageAgrees, UnheardWhenGiven,
        HeardByItself, MayBeHeard, Tick

\* A request that its sender gives up: it asks for a token, or shows one that
\* its sender uses.
LEMMA LeftBehind ==
  ASSUME LinkInv, NEW b \in Board, Unanswered(b),
         late' = late \cup {Asked(b)}
  PROVE  \A c \in Board : \A t \in Token :
             [board |-> c, token |-> t] \in late' =>
                 \/ [board |-> c, token |-> t] \in late
                 \/ c = b /\ t = auth[b] /\ pc[b] = "beat"
  BY TokenAssumption DEF Asked, TokenAssumption

LEMMA FaultsLinkInv ==
  ASSUME LinkInv, NEW b \in Board, FaultStrikes(b)
  PROVE  LinkInv'
  <1>1. TypeOK'
    BY FaultsTypeOK DEF LinkInv
  <1>2. CASE WifiDrops(b)
    BY <1>1, <1>2
    DEF LinkInv, OfOneBoard, Uses, StageAgrees, UnheardWhenGiven,
        HeardByItself, MayBeHeard, WifiDrops
  <1>3. CASE PostFails(b) \/ AnswerGarbled(b)
    <2>1. \A c \in Board : \A t \in Token : Uses(c, t)' => Uses(c, t)
      BY <1>3, TokenAssumption
      DEF LinkInv, TypeOK, PostFails, AnswerGarbled, Answered, Uses,
          TokenAssumption
    <2>2. OfOneBoard'
      BY <2>1, OfOneBoardKept DEF LinkInv
    <2>3. ASSUME NEW c \in Board
          PROVE  (StageAgrees(c) /\ UnheardWhenGiven(c) /\ HeardByItself(c))'
      BY <1>3 DEF PostFails, AnswerGarbled, Answered, StageAgrees,
         UnheardWhenGiven, HeardByItself, MayBeHeard, LinkInv, TypeOK
    <2>4. QED
      BY <1>1, <2>2, <2>3 DEF LinkInv
  <1>4. CASE PostTimesOut(b)
    <2>1. \A c \in Board : \A t \in Token :
              [board |-> c, token |-> t] \in late' =>
                 \/ [board |-> c, token |-> t] \in late
                 \/ c = b /\ t = auth[b] /\ pc[b] = "beat"
      BY <1>4, LeftBehind DEF PostTimesOut
    <2>2. \A c \in Board : \A t \in Token : Uses(c, t)' => Uses(c, t)
      BY <1>4, <2>1 DEF PostTimesOut, Uses
    <2>3. OfOneBoard'
      BY <2>2, OfOneBoardKept DEF LinkInv
    <2>4. ASSUME NEW c \in Board
          PROVE  (StageAgrees(c) /\ UnheardWhenGiven(c) /\ HeardByItself(c))'
      BY <1>4, <2>1 DEF PostTimesOut, StageAgrees, UnheardWhenGiven,
         HeardByItself, MayBeHeard, LinkInv, TypeOK
    <2>5. QED
      BY <1>1, <2>3, <2>4 DEF LinkInv
  <1>5. CASE PowerCycle(b)
    <2>1. \A c \in Board : \A t \in Token :
              [board |-> c, token |-> t] \in late' =>
                 \/ [board |-> c, token |-> t] \in late
                 \/ c = b /\ t = auth[b] /\ pc[b] = "beat"
      BY <1>5, LeftBehind DEF PowerCycle
    <2>2. \A c \in Board : \A t \in Token : Uses(c, t)' => Uses(c, t)
      BY <1>5, <2>1, TokenAssumption
      DEF PowerCycle, Restart, MovesOn, Uses, LinkInv, TypeOK, TokenAssumption
    <2>3. OfOneBoard'
      BY <2>2, OfOneBoardKept DEF LinkInv
    <2>4. ASSUME NEW c \in Board
          PROVE  (StageAgrees(c) /\ UnheardWhenGiven(c) /\ HeardByItself(c))'
      BY <1>5, <2>1 DEF PowerCycle, Restart, MovesOn, StageAgrees,
         UnheardWhenGiven, HeardByItself, MayBeHeard, LinkInv, TypeOK
    <2>5. QED
      BY <1>1, <2>3, <2>4 DEF LinkInv
  <1>6. QED
    BY <1>2, <1>3, <1>4, <1>5 DEF FaultStrikes

LEMMA ServerRestartsLinkInv ==
  ASSUME LinkInv, ServerRestarts
  PROVE  LinkInv'
  <1>1. TypeOK'
    BY ServerRestartsTypeOK DEF LinkInv
  <1>2. \A c \in Board : \A t \in Token : Uses(c, t)' => Uses(c, t)
    BY TokenAssumption DEF ServerRestarts, Uses, TokenAssumption
  <1>3. OfOneBoard'
    BY <1>2, OfOneBoardKept DEF LinkInv
  <1>4. ASSUME NEW c \in Board
        PROVE  (StageAgrees(c) /\ UnheardWhenGiven(c) /\ HeardByItself(c))'
    BY DEF ServerRestarts, StageAgrees, UnheardWhenGiven, HeardByItself,
       LinkInv, TypeOK
  <1>5. QED
    BY <1>1, <1>3, <1>4 DEF LinkInv

LEMMA NextLinkInv == LinkInv /\ [Next]_vars => LinkInv'
  <1>. SUFFICES ASSUME LinkInv, [Next]_vars
                PROVE  LinkInv'
    OBVIOUS
  <1>1. CASE UNCHANGED vars
    BY <1>1, NextTypeOK
    DEF LinkInv, OfOneBoard, Uses, StageAgrees, UnheardWhenGiven,
        HeardByItself, MayBeHeard
  <1>2. CASE Next
    BY <1>2, BoardMovesLinkInv, PostMovesLinkInv, RadioMovesLinkInv,
       LateMovesLinkInv, TickLinkInv, FaultsLinkInv, ServerRestartsLinkInv
    DEF Next
  <1>3. QED
    BY <1>1, <1>2

LEMMA LinkInvImpliesAgreement == LinkInv => LiveBoardsAgree
  BY TicksAssumption
  DEF LinkInv, TypeOK, HeardByItself, LiveBoardsAgree, Alive, TicksAssumption

\* Whatever is lost, served late, garbled or restarted, a registered board
\* that the server takes for alive speaks the server's token
\* (board_manager.py:14-41, controller.ino:297-352, camera.ino:155-210).
THEOREM LiveBoardsAlwaysAgree == Spec => []LiveBoardsAgree
  BY InitLinkInv, NextLinkInv, LinkInvImpliesAgreement, PTL DEF Spec

-----------------------------------------------------------------------------
(* Boards that nothing goes wrong with.                                    *)

\* The record of a board is refreshed no earlier than last_heartbeat is set.
Quiet(b) ==
    /\ pc[b] # "boot" => radio[b] = "up"
    /\ pc[b] # "again"
    /\ answer[b] \in {"none", "ok"}
    /\ given[b] # NoToken => given[b] = token[b]
    /\ is_registered[b] => auth[b] = token[b]
    /\ Alive(b) => is_registered[b] /\ age[b] <= due[b]
    /\ pc[b] = "beat" /\ answer[b] = "ok" => age[b] = 0

QuietInv == faults = 0 => late = {} /\ \A b \in Board : Quiet(b)

LEMMA InitQuietInv == Init => QuietInv
  BY DEF Init, QuietInv, Quiet, Alive

LEMMA QuietBoardMoves ==
  ASSUME LinkInv, QuietInv, NEW b \in Board, BoardMoves(b)
  PROVE  QuietInv' /\ \A c \in Board : faults = 0 /\ Alive(c) => Alive(c)'
  <1>. SUFFICES ASSUME faults = 0, NEW c \in Board
                PROVE  late' = {} /\ Quiet(c)' /\ (Alive(c) => Alive(c)')
    BY DEF QuietInv, BoardMoves, Setup, Registered, NotRegistered,
       RegistrationFailed, SendHeartbeat, HeartbeatSent, HeartbeatFailed
  <1>1. Quiet(b) /\ Quiet(c) /\ late = {}
    BY DEF QuietInv
  <1>2. CASE Setup(b)
    BY <1>1, <1>2 DEF LinkInv, TypeOK, Setup, MovesOn, Quiet, Alive
  <1>3. CASE Registered(b)
    <2>1. given[b] # NoToken /\ token[b] = given[b] /\ age[b] = LEASE
      BY <1>1, <1>3
      DEF Registered, LinkInv, StageAgrees, UnheardWhenGiven, Quiet
    <2>2. ~Alive(b)
      BY <2>1, TicksAssumption DEF Alive, TicksAssumption
    <2>3. QED
      BY <1>1, <1>3, <2>1, <2>2
      DEF LinkInv, TypeOK, Registered, HeartbeatOver, MovesOn, Quiet, Alive
  <1>4. CASE NotRegistered(b) \/ RegistrationFailed(b) \/ HeartbeatFailed(b)
    BY <1>1, <1>4
    DEF Quiet, NotRegistered, RegistrationFailed, HeartbeatFailed
  <1>5. CASE SendHeartbeat(b)
    BY <1>1, <1>5 DEF LinkInv, TypeOK, SendHeartbeat, MovesOn, Quiet, Alive
  <1>6. CASE HeartbeatSent(b)
    BY <1>1, <1>6
    DEF LinkInv, TypeOK, HeartbeatSent, HeartbeatOver, MovesOn, Quiet, Alive
  <1>7. QED
    BY <1>2, <1>3, <1>4, <1>5, <1>6 DEF BoardMoves

LEMMA QuietPostMoves ==
  ASSUME LinkInv, QuietInv, NEW b \in Board, PostMoves(b)
  PROVE  QuietInv' /\ \A c \in Board : faults = 0 /\ Alive(c) => Alive(c)'
  <1>. SUFFICES ASSUME faults = 0, NEW c \in Board
                PROVE  late' = {} /\ Quiet(c)' /\ (Alive(c) => Alive(c)')
    BY DEF QuietInv, PostMoves, ServeRegister, ServeHeartbeat, Unreachable
  <1>1. Quiet(b) /\ Quiet(c) /\ late = {}
    BY DEF QuietInv
  <1>2. CASE ServeRegister(b)
    <2>1. ~is_registered[b] /\ ~Alive(b) /\ pc[b] = "setup"
      BY <1>1, <1>2 DEF ServeRegister, LinkInv, TypeOK, Quiet
    <2>2. GeneratedToken \in Token
      BY <1>2, GeneratedTokenIsFresh DEF ServeRegister, RegisterBoard
    <2>3. ~Alive(b)'
      BY <1>2, TicksAssumption
      DEF ServeRegister, RegisterBoard, Alive, LinkInv, TypeOK, TicksAssumption
    <2>4. CASE c = b
      BY <1>1, <1>2, <2>1, <2>2, <2>3, <2>4
      DEF ServeRegister, RegisterBoard, Answered, LinkInv, TypeOK, Quiet
    <2>5. CASE c # b
      BY <1>1, <1>2, <2>5
      DEF ServeRegister, RegisterBoard, Answered, LinkInv, TypeOK, Quiet, Alive
    <2>6. QED
      BY <2>4, <2>5
  <1>3. CASE ServeHeartbeat(b)
    <2>1. is_registered[b] /\ auth[b] = token[b] /\ auth[b] \in Token
      BY <1>1, <1>3 DEF ServeHeartbeat, LinkInv, TypeOK, StageAgrees, Quiet
    <2>2. Known(auth[b])
      BY <2>1 DEF Known
    <2>3. token[c] = auth[b] => c = b
      BY <2>1 DEF LinkInv, OfOneBoard, Uses
    <2>4. /\ age'[c] = IF c = b THEN 0 ELSE age[c]
          /\ token' = token
          /\ given' = [given EXCEPT ![b] = NoToken]
          /\ answer' = [answer EXCEPT ![b] = "ok"]
          /\ UNCHANGED <<boardVars, late>>
      BY <1>3, <2>1, <2>2, <2>3
      DEF ServeHeartbeat, UpdateHeartbeat, Answered
    <2>5. 0 <= due[c] /\ 0 < LEASE
      BY TicksAssumption, LeaseAssumption
      DEF LinkInv, TypeOK, TicksAssumption, LeaseAssumption
    <2>6. Alive(c) => Alive(c)'
      BY <2>4, <2>5 DEF Alive
    <2>7. QED
      BY <1>1, <2>1, <2>4, <2>5, <2>6 DEF LinkInv, TypeOK, Quiet, Alive
  <1>4. CASE Unreachable(b)
    BY <1>1, <1>4 DEF Unreachable, Unanswered, Quiet
  <1>5. QED
    BY <1>2, <1>3, <1>4 DEF PostMoves

LEMMA QuietTick ==
  ASSUME LinkInv, QuietInv, Tick
  PROVE  QuietInv' /\ \A c \in Board : faults = 0 /\ Alive(c) => Alive(c)'
  <1>. SUFFICES ASSUME faults = 0, NEW c \in Board
                PROVE  late' = {} /\ Quiet(c)' /\ (Alive(c) => Alive(c)')
    BY DEF QuietInv, Tick
  <1>1. Quiet(c) /\ late = {}
    BY DEF QuietInv
  <1>2. /\ age[c] \in Nat /\ age[c] <= LEASE /\ due[c] \in Nat
        /\ due[c] <= INTERVAL + LOOP /\ INTERVAL + LOOP < LEASE
        /\ LEASE \in Nat /\ INTERVAL + LOOP \in Nat
    BY TicksAssumption, LeaseAssumption
    DEF LinkInv, TypeOK, TicksAssumption, LeaseAssumption
  <1>3. /\ age'[c] = IF age[c] < LEASE THEN age[c] + 1 ELSE age[c]
        /\ due'[c] = IF due[c] < INTERVAL + LOOP THEN due[c] + 1 ELSE due[c]
        /\ UNCHANGED <<token, pc, auth, is_registered, radio, postVars>>
    BY DEF Tick, UpTo
  <1>4. Alive(c) => due[c] < INTERVAL + LOOP /\ age[c] <= due[c]
    <2>1. Alive(c) => is_registered[c] /\ age[c] <= due[c]
      BY <1>1 DEF Quiet
    <2>2. is_registered[c] => due[c] # INTERVAL + LOOP
      BY DEF Tick, Overdue, LinkInv, TypeOK
    <2>3. QED
      BY <1>2, <2>1, <2>2
  <1>5. (Alive(c)' => Alive(c)) /\ (Alive(c) => Alive(c)' /\ age'[c] <= due'[c])
    BY <1>2, <1>3, <1>4 DEF Alive
  <1>6. ~(pc[c] = "beat" /\ answer[c] = "ok")
    BY DEF Tick
  <1>7. QED
    BY <1>1, <1>3, <1>5, <1>6 DEF Quiet

LEMMA QuietNext ==
  ASSUME LinkInv, QuietInv, [Next]_vars
  PROVE  /\ QuietInv'
         /\ \A c \in Board : faults' = 0 /\ Alive(c) => Alive(c)'
  <1>1. CASE UNCHANGED vars
    BY <1>1 DEF QuietInv, Quiet, Alive
  <1>2. ASSUME NEW b \in Board, BoardMoves(b) \/ PostMoves(b)
        PROVE  /\ QuietInv'
               /\ \A c \in Board : faults' = 0 /\ Alive(c) => Alive(c)'
    <2>1. UNCHANGED faults
      BY <1>2 DEF BoardMoves, Setup, Registered, NotRegistered,
         RegistrationFailed, SendHeartbeat, HeartbeatSent, HeartbeatFailed,
         PostMoves, ServeRegister, ServeHeartbeat, Unreachable
    <2>2. QED
      BY <1>2, <2>1, QuietBoardMoves, QuietPostMoves
  <1>3. CASE Tick
    BY <1>3, QuietTick DEF Tick
  <1>4. ASSUME NEW b \in Board, CheckWifi(b) \/ Rejoin(b)
        PROVE  /\ QuietInv'
               /\ \A c \in Board : faults' = 0 /\ Alive(c) => Alive(c)'
    BY <1>4 DEF CheckWifi, Rejoin, QuietInv, Quiet, Alive, LinkInv, TypeOK
  <1>5. ASSUME NEW request \in late, ServeLate(request)
        PROVE  faults # 0 /\ UNCHANGED faults
    BY <1>5 DEF QuietInv, ServeLate
  <1>6. ASSUME NEW b \in Board, FaultStrikes(b)
        PROVE  faults' # 0
    BY <1>6 DEF FaultStrikes, WifiDrops, PostFails, PostTimesOut,
       AnswerGarbled, PowerCycle, Fault, LinkInv, TypeOK
  <1>7. ServerRestarts => faults' # 0
    BY DEF ServerRestarts, Fault, LinkInv, TypeOK
  <1>8. QED
    BY <1>1, <1>2, <1>3, <1>4, <1>5, <1>6, <1>7 DEF Next, QuietInv

\* No board that works as it should is ever taken for dead: the interval, a
\* whole iteration of loop() and the prompt answers in between are shorter
\* than the lease (models.py:12-13, controller.ino:215-218).
THEOREM QuietBoardsAreNeverLost == Spec => QuietBoardsStayAlive
  <1>1. LinkInv /\ QuietInv /\ [Next]_vars => (LinkInv /\ QuietInv)'
    BY NextLinkInv, QuietNext
  <1>2. LinkInv /\ QuietInv /\ [Next]_vars =>
            [\A b \in Board : Alive(b) /\ ~Alive(b)' => faults' # 0]_vars
    BY QuietNext
  <1>3. QED
    BY InitLinkInv, InitQuietInv, <1>1, <1>2, PTL
    DEF Spec, QuietBoardsStayAlive
=============================================================================
