--------------------------- MODULE PlayPageProofs ---------------------------
(***************************************************************************)
(* Proofs about the play page, for any number of seats, moves and awaits:  *)
(* what it shows is the match, and it does not lock the person out.        *)
(***************************************************************************)
EXTENDS PlayPage, SequenceTheorems, TLAPS

Phases == {"over", "outside", "bot", "place", "move"}
Asked == [cmd : Commands, on : Int]
Told == [cmd : Commands, error : BOOLEAN, phase : Phases, on : Int]

MessagesType ==
    /\ calls \in Seq(Asked) /\ answers \in Seq(Told)
    /\ questions \in Seq(Int) /\ decisions \in Seq(Int)
    /\ match.moves \in Nat /\ busy \in BOOLEAN

\* A message that call(), and not engine.call(), is waiting for.
Pending(q) == \E i \in 1 .. Len(q) : q[i].cmd # "snapshot"

\* busy belongs to some call(): the answer to a snapshot does not clear it.
BusyIsAwaited == busy => Pending(calls) \/ Pending(answers)

\* The latest answer under way that will set the page's state tells `phase`;
\* without one the state `now` does.
Tells(q, now, phase) ==
    /\ \A i \in 1 .. Len(q) :
          (\A j \in i + 1 .. Len(q) : q[j].cmd = "snapshot") => q[i].phase = phase
    /\ (\A i \in 1 .. Len(q) : q[i].cmd = "snapshot") => now = phase

LatestAnswerTells == Tells(answers, state, PhaseNow)

IInv == MessagesType /\ BusyIsAwaited /\ LatestAnswerTells

-----------------------------------------------------------------------------
(* Queues                                                                  *)

LEMMA PendingAppend ==
    ASSUME NEW S, NEW q \in Seq(S), NEW m \in S
    PROVE  /\ Append(q, m) \in Seq(S)
           /\ Pending(q) => Pending(Append(q, m))
           /\ m.cmd # "snapshot" => Pending(Append(q, m))
<1>1. /\ Append(q, m) \in Seq(S)
      /\ Len(Append(q, m)) = Len(q) + 1
      /\ \A i \in 1 .. Len(q) : Append(q, m)[i] = q[i]
      /\ Append(q, m)[Len(q) + 1] = m
  OBVIOUS
<1>2. Len(q) \in Nat
  OBVIOUS
<1> QED
  BY <1>1, <1>2 DEF Pending

LEMMA PendingTail ==
    ASSUME NEW S, NEW q \in Seq(S), q # <<>>
    PROVE  /\ Head(q) \in S /\ Tail(q) \in Seq(S)
           /\ Pending(q) => Pending(Tail(q)) \/ Head(q).cmd # "snapshot"
<1>1. /\ Head(q) \in S /\ Tail(q) \in Seq(S)
      /\ Len(q) \in Nat \ {0}
      /\ Head(q) = q[1]
      /\ Len(Tail(q)) = Len(q) - 1
      /\ \A i \in 1 .. Len(q) - 1 : Tail(q)[i] = q[i + 1]
  OBVIOUS
<1>2. SUFFICES ASSUME NEW i \in 1 .. Len(q), q[i].cmd # "snapshot", Head(q).cmd = "snapshot"
               PROVE  Pending(Tail(q))
  BY <1>1 DEF Pending
<1>3. i - 1 \in 1 .. Len(Tail(q)) /\ Tail(q)[i - 1] = q[i]
  BY <1>1, <1>2
<1> QED
  BY <1>2, <1>3 DEF Pending

LEMMA TellsAppend ==
    ASSUME NEW q \in Seq(Told), NEW m \in Told, NEW now, NEW before, NEW after,
           Tells(q, now, before), m.phase = after,
           m.cmd = "snapshot" => after = before
    PROVE  Tells(Append(q, m), now, after)
<1> DEFINE r == Append(q, m)
<1>1. /\ Len(q) \in Nat /\ Len(r) = Len(q) + 1
      /\ \A i \in 1 .. Len(q) : r[i] = q[i]
      /\ r[Len(r)] = m
  OBVIOUS
<1>2. ASSUME NEW i \in 1 .. Len(r), \A j \in i + 1 .. Len(r) : r[j].cmd = "snapshot"
      PROVE  r[i].phase = after
  <2>1. CASE i = Len(r)
    BY <2>1, <1>1
  <2>2. CASE i # Len(r)
    <3>1. i \in 1 .. Len(q) /\ Len(r) \in i + 1 .. Len(r)
      BY <2>2, <1>1
    <3>2. m.cmd = "snapshot"
      BY <3>1, <1>1, <1>2
    <3>3. \A j \in i + 1 .. Len(q) : q[j].cmd = "snapshot"
      BY <3>1, <1>1, <1>2
    <3> QED
      BY <3>1, <3>2, <3>3, <1>1 DEF Tells
  <2> QED
    BY <2>1, <2>2
<1>3. ASSUME \A i \in 1 .. Len(r) : r[i].cmd = "snapshot"
      PROVE  now = after
  <2>1. Len(r) \in 1 .. Len(r)
    BY <1>1
  <2>2. m.cmd = "snapshot"
    BY <2>1, <1>1, <1>3
  <2>3. \A i \in 1 .. Len(q) : q[i].cmd = "snapshot"
    BY <1>1, <1>3
  <2> QED
    BY <2>2, <2>3 DEF Tells
<1> HIDE DEF r
<1>4. Tells(r, now, after)
  BY <1>2, <1>3 DEF Tells
<1> QED
  BY <1>4 DEF r

\* Taking an answer: it sets the state, unless it is a snapshot's.
LEMMA TellsTail ==
    ASSUME NEW q \in Seq(Told), q # <<>>, NEW now, NEW phase, Tells(q, now, phase)
    PROVE  /\ Tells(Tail(q), Head(q).phase, phase)
           /\ Head(q).cmd = "snapshot" => Tells(Tail(q), now, phase)
<1> DEFINE r == Tail(q)
<1>1. /\ Len(q) \in Nat \ {0} /\ Len(r) = Len(q) - 1
      /\ \A i \in 1 .. Len(r) : i + 1 \in 1 .. Len(q) /\ r[i] = q[i + 1]
      /\ Head(q) = q[1]
  OBVIOUS
<1>2. \A j \in 2 .. Len(q) : j - 1 \in 1 .. Len(r) /\ q[j] = r[j - 1]
  BY <1>1
<1> HIDE DEF r
<1>3. ASSUME NEW i \in 1 .. Len(r), \A j \in i + 1 .. Len(r) : r[j].cmd = "snapshot"
      PROVE  r[i].phase = phase
  <2>1. \A j \in (i + 1) + 1 .. Len(q) : q[j].cmd = "snapshot"
    <3>1. TAKE j \in (i + 1) + 1 .. Len(q)
    <3>2. j \in 2 .. Len(q) /\ j - 1 \in i + 1 .. Len(r)
      BY <3>1, <1>1
    <3> QED
      BY <3>2, <1>2, <1>3
  <2> QED
    BY <2>1, <1>1 DEF Tells
<1>4. ASSUME \A i \in 1 .. Len(r) : r[i].cmd = "snapshot"
      PROVE  Head(q).phase = phase
  <2>1. \A j \in 1 + 1 .. Len(q) : q[j].cmd = "snapshot"
    BY <1>2, <1>4
  <2>2. 1 \in 1 .. Len(q)
    BY <1>1
  <2> QED
    BY <2>1, <2>2, <1>1 DEF Tells
<1>5. ASSUME \A i \in 1 .. Len(r) : r[i].cmd = "snapshot", Head(q).cmd = "snapshot"
      PROVE  now = phase
  <2>1. \A j \in 1 .. Len(q) : q[j].cmd = "snapshot"
    <3>1. TAKE j \in 1 .. Len(q)
    <3>2. CASE j = 1
      BY <3>2, <1>1, <1>5
    <3>3. CASE j \in 2 .. Len(q)
      BY <3>3, <1>2, <1>5
    <3> QED
      BY <3>2, <3>3, <1>1
  <2> QED
    BY <2>1 DEF Tells
<1>6. /\ Tells(r, Head(q).phase, phase)
      /\ Head(q).cmd = "snapshot" => Tells(r, now, phase)
  BY <1>3, <1>4, <1>5 DEF Tells
<1> QED
  BY <1>6 DEF r

-----------------------------------------------------------------------------
(* The engine                                                              *)

LEMMA PhaseType == ASSUME NEW t PROVE Phase(t) \in Phases
BY DEF Phase, Phases

LEMMA SnapshotEffects ==
    ASSUME NEW t PROVE Effects(t, "snapshot") = {[to |-> t, outcome |-> "idle"]}
BY DEF Effects

LEMMA OutcomesType ==
    ASSUME match.moves \in Nat, NEW call, NEW effect \in Outcomes(call)
    PROVE  /\ effect.to.moves \in Nat
           /\ effect.error \in BOOLEAN
           /\ call.cmd = "snapshot" => effect.to = match
<1>1. PICK e \in Effects(match.turn, call.cmd) :
        effect = [to |-> IF e.outcome = "played" THEN Played(e.to) ELSE match,
                  error |-> e.outcome = "refused"]
  BY DEF Outcomes
<1>2. Played(e.to).moves \in Nat
  BY DEF Played
<1>3. call.cmd = "snapshot" => e = [to |-> match.turn, outcome |-> "idle"]
  BY <1>1, SnapshotEffects
<1> QED
  BY <1>1, <1>2, <1>3

LEMMA EngineKeepsIInv == IInv /\ EngineAnswers => IInv'
<1> SUFFICES ASSUME IInv, EngineAnswers PROVE IInv'
  OBVIOUS
<1> USE DEF IInv, MessagesType
<1> DEFINE asked == Head(calls)
<1>1. PICK effect \in Outcomes(asked) :
        /\ match' = effect.to
        /\ answers' = Append(answers, [cmd |-> asked.cmd, error |-> effect.error,
                                       phase |-> Phase(effect.to.turn), on |-> effect.to.moves])
  BY DEF EngineAnswers
<1>2. /\ calls # <<>> /\ calls' = Tail(calls)
      /\ UNCHANGED <<busy, state, outside_seat, person, questions, decisions>>
  BY DEF EngineAnswers, settings
<1>3. asked \in Asked /\ Tail(calls) \in Seq(Asked)
  BY <1>2, PendingTail
<1> DEFINE answer == [cmd |-> asked.cmd, error |-> effect.error,
                      phase |-> Phase(effect.to.turn), on |-> effect.to.moves]
<1>4. answer \in Told
  BY <1>3, PhaseType, OutcomesType DEF Asked, Told
<1>5. answer.cmd = asked.cmd /\ answer.phase = Phase(effect.to.turn)
  OBVIOUS
<1>6. answers' = Append(answers, answer)
  BY <1>1
<1> HIDE DEF answer, asked
<1>7. MessagesType'
  BY <1>1, <1>2, <1>3, <1>4, <1>6, OutcomesType, PendingAppend
<1>8. BusyIsAwaited'
  <2>1. Pending(calls) => Pending(Tail(calls)) \/ asked.cmd # "snapshot"
    BY <1>2, PendingTail DEF asked
  <2> QED
    BY <2>1, <1>2, <1>4, <1>5, <1>6, PendingAppend DEF BusyIsAwaited
<1>9. LatestAnswerTells'
  <2>1. PhaseNow' = Phase(effect.to.turn)
    BY <1>1, <1>2 DEF PhaseNow, Phase
  <2>2. answer.cmd = "snapshot" => Phase(effect.to.turn) = PhaseNow
    BY <1>5, OutcomesType DEF PhaseNow
  <2>3. Tells(answers', state, PhaseNow')
    BY <2>1, <2>2, <1>4, <1>5, <1>6, TellsAppend DEF LatestAnswerTells
  <2> QED
    BY <2>3, <1>2 DEF LatestAnswerTells
<1> QED
  BY <1>7, <1>8, <1>9

-----------------------------------------------------------------------------
(* The page                                                                *)

\* What a continuation does to busy and to the calls: busy is set only together
\* with a call that clears it.
Continues(still) ==
    /\ calls' \in Seq(Asked)
    /\ Pending(calls) => Pending(calls')
    /\ busy' \in BOOLEAN
    /\ busy' => still \/ Pending(calls')

LEMMA RequestPends ==
    ASSUME calls \in Seq(Asked), NEW cmd \in Commands, NEW on \in Int, Request(cmd, on)
    PROVE  /\ calls' \in Seq(Asked)
           /\ Pending(calls) => Pending(calls')
           /\ cmd # "snapshot" => Pending(calls')
<1>1. [cmd |-> cmd, on |-> on] \in Asked
  BY DEF Asked
<1> QED
  BY <1>1, PendingAppend DEF Request

LEMMA LoopContinues ==
    ASSUME calls \in Seq(Asked), NEW phase, NEW still \in BOOLEAN, BotTurnLoop(phase, still)
    PROVE  Continues(still)
<1>1. "snapshot" \in Commands /\ "bot_step" \in Commands
  BY DEF Commands
<1>2. CASE phase = "outside"
  BY <1>1, <1>2, RequestPends DEF BotTurnLoop, Continues
<1>3. CASE phase # "outside" /\ phase = "bot"
  BY <1>1, <1>3, RequestPends DEF BotTurnLoop, Continues
<1>4. CASE phase # "outside" /\ phase # "bot"
  BY <1>4 DEF BotTurnLoop, Continues
<1> QED
  BY <1>2, <1>3, <1>4

LEMMA AfterMoveContinues ==
    ASSUME calls \in Seq(Asked), NEW phase, AfterMove(phase)
    PROVE  Continues(FALSE)
<1>1. CASE phase \in Bots
  BY <1>1, LoopContinues DEF AfterMove
<1>2. CASE phase \notin Bots
  BY <1>2 DEF AfterMove, Continues
<1> QED
  BY <1>1, <1>2

\* An answer of call() taken, and gone on from.
LEMMA TakeKeepsIInv ==
    ASSUME IInv, NEW cmd, Answered(cmd), TakeState, Continues(FALSE),
           UNCHANGED <<match, person, outside_seat, questions, decisions>>
    PROVE  IInv'
<1> USE DEF IInv, MessagesType
<1>1. answers # <<>> /\ answers' = Tail(answers) /\ state' = Head(answers).phase
  BY DEF Answered, TakeState
<1>2. MessagesType'
  BY <1>1, PendingTail DEF Continues
<1>3. BusyIsAwaited'
  BY DEF BusyIsAwaited, Continues
<1>4. PhaseNow' = PhaseNow
  BY DEF PhaseNow, Phase
<1>5. LatestAnswerTells'
  BY <1>1, <1>4, TellsTail DEF LatestAnswerTells
<1> QED
  BY <1>2, <1>3, <1>5

\* A step of the page that takes no answer.
LEMMA OtherKeepsIInv ==
    ASSUME IInv, Continues(busy),
           UNCHANGED <<match, state, answers, person, outside_seat>>,
           questions' \in Seq(Int), decisions' \in Seq(Int)
    PROVE  IInv'
<1> USE DEF IInv, MessagesType
<1>1. PhaseNow' = PhaseNow
  BY DEF PhaseNow, Phase
<1>2. LatestAnswerTells'
  BY <1>1 DEF LatestAnswerTells
<1>3. BusyIsAwaited'
  BY DEF BusyIsAwaited, Continues
<1> QED
  BY <1>2, <1>3 DEF Continues

-----------------------------------------------------------------------------
LEMMA InitIInv == Init => IInv
<1> SUFFICES ASSUME Init PROVE IInv
  OBVIOUS
<1>1. /\ answers = <<>> /\ questions = <<>> /\ decisions = <<>>
      /\ match.moves = 0 /\ state = PhaseNow
  BY DEF Init
<1>2. \/ calls = <<>> /\ busy = FALSE
      \/ \E cmd \in {"quick_setup", "snapshot", "bot_step"} :
            calls = << [cmd |-> cmd, on |-> 0] >> /\ busy = (cmd # "snapshot")
  <2>1. CASE calls = << [cmd |-> "quick_setup", on |-> 0] >> /\ busy = TRUE
    BY <2>1
  <2>2. CASE state = "outside" /\ calls = << [cmd |-> "snapshot", on |-> 0] >> /\ busy = (state = "bot")
    BY <2>2
  <2>3. CASE state = "bot" /\ calls = << [cmd |-> "bot_step", on |-> 0] >> /\ busy = (state = "bot")
    BY <2>3
  <2>4. CASE state # "bot" /\ calls = <<>> /\ busy = (state = "bot")
    BY <2>4
  <2>5. CASE state = "outside"
    BY <2>1, <2>2, <2>5, Zenon DEF Init
  <2>6. CASE state = "bot"
    BY <2>1, <2>3, <2>6, Zenon DEF Init
  <2>7. CASE state \notin {"outside", "bot"}
    BY <2>1, <2>4, <2>7, Zenon DEF Init
  <2> QED
    BY <2>5, <2>6, <2>7
<1>3. LatestAnswerTells
  BY <1>1 DEF LatestAnswerTells, Tells
<1>4. /\ answers \in Seq(Told) /\ questions \in Seq(Int) /\ decisions \in Seq(Int)
      /\ match.moves \in Nat
  BY <1>1
<1>5. CASE calls = <<>> /\ busy = FALSE
  <2>1. calls \in Seq(Asked)
    BY <1>5
  <2> QED
    BY <1>3, <1>4, <1>5, <2>1 DEF IInv, MessagesType, BusyIsAwaited
<1>6. ASSUME NEW cmd \in {"quick_setup", "snapshot", "bot_step"},
             calls = << [cmd |-> cmd, on |-> 0] >>, busy = (cmd # "snapshot")
      PROVE  IInv
  <2>1. [cmd |-> cmd, on |-> 0] \in Asked
    BY DEF Asked, Commands
  <2>2. calls \in Seq(Asked) /\ busy \in BOOLEAN
    BY <2>1, <1>6
  <2>3. cmd # "snapshot" => Pending(calls)
    BY <1>6 DEF Pending
  <2>4. BusyIsAwaited
    BY <1>6, <2>3, Zenon DEF BusyIsAwaited
  <2> QED
    BY <1>3, <1>4, <2>2, <2>4 DEF IInv, MessagesType
<1> QED
  BY <1>2, <1>5, <1>6

LEMMA PageKeepsIInv == IInv /\ Page => IInv'
<1> SUFFICES ASSUME IInv, Page PROVE IInv'
  OBVIOUS
<1>1. calls \in Seq(Asked) /\ answers \in Seq(Told)
  BY DEF IInv, MessagesType
<1> USE DEF settings
<1>2. ASSUME busy' = FALSE, UNCHANGED calls
      PROVE  Continues(FALSE)
  BY <1>1, <1>2 DEF Continues
<1>3. CASE AttackAnswered
  <2>1. Continues(FALSE)
    BY <1>1, <1>2, <1>3, AfterMoveContinues DEF AttackAnswered
  <2> QED
    BY <1>3, <2>1, TakeKeepsIInv DEF AttackAnswered
<1>4. CASE FortifyAnswered
  <2>1. Continues(FALSE)
    BY <1>1, <1>2, <1>4, AfterMoveContinues DEF FortifyAnswered
  <2> QED
    BY <1>4, <2>1, TakeKeepsIInv DEF FortifyAnswered
<1>5. CASE PlaceAnswered
  <2>1. Continues(FALSE)
    BY <1>1, <1>5, AfterMoveContinues DEF PlaceAnswered
  <2> QED
    BY <1>5, <2>1, TakeKeepsIInv DEF PlaceAnswered
<1>6. ASSUME NEW cmd \in {"bot_step", "act"}, BotAnswered(cmd)
      PROVE  IInv'
  <2>1. Continues(FALSE)
    BY <1>1, <1>6, LoopContinues DEF BotAnswered
  <2> QED
    BY <1>6, <2>1, TakeKeepsIInv DEF BotAnswered
<1>7. CASE SetupAnswered
  <2>1. Continues(FALSE)
    BY <1>2, <1>7 DEF SetupAnswered
  <2> QED
    BY <1>7, <2>1, TakeKeepsIInv DEF SetupAnswered
<1>8. CASE SnapshotAnswered
  <2> USE DEF IInv, MessagesType
  <2>1. /\ answers # <<>> /\ Head(answers).cmd = "snapshot" /\ answers' = Tail(answers)
        /\ questions' = Append(questions, Head(answers).on)
        /\ UNCHANGED <<match, state, busy, calls, decisions, person, outside_seat>>
    BY <1>8 DEF SnapshotAnswered, Answered
  <2>2. /\ Head(answers) \in Told /\ answers' \in Seq(Told)
        /\ Pending(answers) => Pending(answers')
    BY <1>1, <2>1, PendingTail
  <2>3. Head(answers).on \in Int
    BY <2>2 DEF Told
  <2>4. MessagesType'
    BY <2>1, <2>2, <2>3
  <2>5. BusyIsAwaited'
    BY <2>1, <2>2 DEF BusyIsAwaited
  <2>6. PhaseNow' = PhaseNow
    BY <2>1 DEF PhaseNow, Phase
  <2>7. LatestAnswerTells'
    BY <1>1, <2>1, <2>6, TellsTail DEF LatestAnswerTells
  <2> QED
    BY <2>4, <2>5, <2>7
<1> QED
  BY <1>3, <1>4, <1>5, <1>6, <1>7, <1>8 DEF Page

LEMMA PersonKeepsIInv == IInv /\ Person => IInv'
<1> SUFFICES ASSUME IInv, Person PROVE IInv'
  OBVIOUS
<1>1. /\ calls \in Seq(Asked) /\ questions \in Seq(Int) /\ decisions \in Seq(Int)
      /\ busy \in BOOLEAN
  BY DEF IInv, MessagesType
<1>2. \/ \E cmd \in {"place", "attack", "fortify"} : Ask(cmd)
      \/ UNCHANGED <<settings, match, state, busy, workers>>
  BY DEF Person, ClickPlace, ClickAttack, PressSpace, ClickMarch, March, EndTurn, Redraw
<1>3. CASE \E cmd \in {"place", "attack", "fortify"} : Ask(cmd)
  <2>1. PICK cmd \in {"place", "attack", "fortify"} : Ask(cmd)
    BY <1>3
  <2>2. Continues(busy)
    BY <1>1, <2>1, RequestPends DEF Ask, Commands, Continues
  <2> QED
    BY <1>1, <2>1, <2>2, OtherKeepsIInv DEF Ask, settings
\* A box opened or closed, a page drawn again.
<1>4. CASE UNCHANGED <<settings, match, state, busy, workers>>
  <2>1. Continues(busy)
    BY <1>1, <1>4 DEF workers, Continues
  <2> QED
    BY <1>1, <1>4, <2>1, OtherKeepsIInv DEF workers, settings
<1> QED
  BY <1>2, <1>3, <1>4

LEMMA NextIInv == IInv /\ [Next]_vars => IInv'
<1> SUFFICES ASSUME IInv, [Next]_vars PROVE IInv'
  OBVIOUS
<1>1. /\ calls \in Seq(Asked) /\ questions \in Seq(Int) /\ decisions \in Seq(Int)
      /\ busy \in BOOLEAN
  BY DEF IInv, MessagesType
<1>2. CASE EngineAnswers
  BY <1>2, EngineKeepsIInv
<1>3. CASE OutsideDecides
  <2>1. Continues(busy)
    BY <1>1, <1>3 DEF OutsideDecides, Continues
  <2>2. questions' \in Seq(Int) /\ decisions' \in Seq(Int)
    BY <1>1, <1>3 DEF OutsideDecides
  <2> QED
    BY <1>3, <2>1, <2>2, OtherKeepsIInv DEF OutsideDecides, settings
<1>4. CASE Page
  BY <1>4, PageKeepsIInv
<1>5. CASE DecisionAnswered
  <2>1. Head(decisions) \in Int /\ decisions' \in Seq(Int)
    BY <1>1, <1>5 DEF DecisionAnswered
  <2>2. Continues(busy)
    BY <1>1, <1>5, <2>1, RequestPends DEF DecisionAnswered, Continues, Commands
  <2> QED
    BY <1>1, <1>5, <2>1, <2>2, OtherKeepsIInv DEF DecisionAnswered, settings
<1>6. CASE SetupPresented
  <2>1. Continues(busy)
    <3>1. CASE state \in Bots
      BY <1>1, <1>6, <3>1, LoopContinues DEF SetupPresented
    <3>2. CASE state \notin Bots
      BY <1>1, <1>6, <3>2 DEF SetupPresented, Continues
    <3> QED
      BY <3>1, <3>2
  <2> QED
    BY <1>1, <1>6, <2>1, OtherKeepsIInv DEF SetupPresented, settings
<1>7. CASE TurnPresented
  <2>1. Continues(busy)
    BY <1>1, <1>7 DEF TurnPresented, workers, Continues
  <2> QED
    BY <1>1, <1>7, <2>1, OtherKeepsIInv DEF TurnPresented, workers, settings
<1>8. CASE Person
  BY <1>8, PersonKeepsIInv
<1>9. CASE UNCHANGED vars
  <2>1. Continues(busy)
    BY <1>1, <1>9 DEF vars, workers, Continues
  <2> QED
    BY <1>1, <1>9, <2>1, OtherKeepsIInv DEF vars, workers, settings
<1> QED
  BY <1>2, <1>3, <1>4, <1>5, <1>6, <1>7, <1>8, <1>9 DEF Next

\* The queues hold messages, some call() is out while busy is set, and the
\* latest answer under way tells how the match stands.
THEOREM Invariance == Spec => []IInv
BY InitIInv, NextIInv, PTL DEF Spec

\* When the engine has answered everything the page shows the phase the match
\* is in, whatever was clicked while answers were under way (play.js:85-96).
THEOREM ShowsTheMatch == Spec => []ShowsTruth
<1>1. IInv => ShowsTruth
  BY DEF IInv, MessagesType, LatestAnswerTells, Tells, ShowsTruth, EngineIdle
<1> QED
  BY <1>1, Invariance, PTL

\* The page is never left refusing the person's moves with nothing to wait for.
THEOREM NeverLocksUp == Spec => []NeverLockedUp
<1>1. IInv => NeverLockedUp
  BY DEF IInv, BusyIsAwaited, Pending, NeverLockedUp, EngineIdle
<1> QED
  BY <1>1, Invariance, PTL
=============================================================================
