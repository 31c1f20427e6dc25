---------------------------- MODULE InnerLifeProofs ----------------------------
(***************************************************************************)
(* Proofs about her inner life and the console (MCInnerLife): what she     *)
(* says, intends and feels is about the one she shows it to (modules       *)
(* Answering, Minds and Feelings), and the console puts back what an       *)
(* ablation switched off and keeps its history (module WebTasks), for any  *)
(* number of messages, chats, threads, evaluations and switches; and her   *)
(* surroundings: the ways through any home (module HomeMap), what is       *)
(* around her (Environment) and her week (Schedule).                       *)
(***************************************************************************)
EXTENDS MCInnerLife, FiniteSetTheorems, SequenceTheorems, WellFoundedInduction, TLAPS
-----------------------------------------------------------------------------
(* Answers *)

CallPhases == {"idle", "decided", "searched", "matching", "cached", "asking", "generated",
               "rewriting", "done"}
Call == [phase : CallPhases, chat : Chats \cup {""}, text : Answers!Texts \cup {""},
         said : SUBSET Details, since : SUBSET Details, evidence : SUBSET Details,
         reply : Answers!Answers, by : {"none", "habit", "model"}]
Habit == [text : Answers!Texts \cup {""}, reply : Answers!Answers, tries : 0..MinTries,
          success : 0..1000]

\* One that was learnt, of a message.
Learnt == {h \in Habit : h.text \in Answers!Texts /\ h.tries >= 1}

AnswersTyped ==
    /\ held \subseteq Details
    /\ port \in [Threads -> SUBSET Details]
    /\ ask \in [Threads -> Call]
    /\ habits \subseteq Learnt
    /\ match \in [text : Answers!Texts \cup {""}, habit : Habit, fresh : BOOLEAN]

\* What is held for its chat (h) is in since while a call a runs, and what it
\* has as evidence was held or said; p is its port.
CallSound(a, p, h) ==
    /\ a.phase # "idle" /\ a.by # "habit" =>
         /\ h \cap Answers!Of(a.chat) \subseteq a.since
         /\ a.evidence \subseteq a.since \cup a.said
    /\ a.phase = "searched" => p \subseteq a.since
    /\ a.phase = "done" /\ a.by = "model" /\ a.text # "proposal" =>
         a.reply \ {"number"} \subseteq a.since \cup a.said
    /\ a.phase # "done" => a.by = "none"

AnswersInv == AnswersTyped /\ \A k \in Threads : CallSound(ask[k], port[k], held)

LEMMA AnswersCounts == MaxClaims \in Nat /\ MinTries \in Nat \ {0}
BY ConstantsAssumption, BoundsAssumption DEF Answers!AnsweringAssumption

LEMMA NothingSaid == {} \in Answers!Answers
<1>1. Answers!Cardinality({}) = 0
  BY FS_EmptySet DEF Cardinality, Answers!Cardinality
<1>. QED
  BY <1>1, AnswersCounts DEF Answers!Answers

LEMMA HabitsAre ==
    ASSUME NEW h \in Habit
    PROVE  /\ h.reply \in Answers!Answers
           /\ h.tries \in 0..MinTries /\ h.success \in 0..1000
<1>. DEFINE T == Answers!Texts \cup {""}
            A == Answers!Answers
            N == 0..MinTries
            M == 0..1000
<1>1. h \in [text : T, reply : A, tries : N, success : M]
  BY DEF Habit
<1>. HIDE DEF T, A, N, M
<1>2. h.text \in T /\ h.reply \in A /\ h.tries \in N /\ h.success \in M
  BY <1>1
<1>. QED
  BY <1>2 DEF T, A, N, M

LEMMA LearntAre ==
    ASSUME NEW h \in Learnt
    PROVE  h \in Habit /\ h.text \in Answers!Texts /\ h.tries \in 1..MinTries /\ h.success \in 0..1000
<1>1. h \in Habit /\ h.text \in Answers!Texts /\ h.tries >= 1
  BY DEF Learnt
<1>2. h.tries \in 0..MinTries /\ h.success \in 0..1000
  BY <1>1, HabitsAre
<1>3. h.tries \in 1..MinTries
  BY <1>1, <1>2, AnswersCounts
<1>. QED
  BY <1>1, <1>2, <1>3

LEMMA RestingCall ==
    /\ Answers!Resting \in Call
    /\ Answers!Resting.phase = "idle" /\ Answers!Resting.by = "none"
BY NothingSaid DEF Answers!Resting, Call, CallPhases

LEMMA RestingIsSound == \A p, h : CallSound(Answers!Resting, p, h)
BY RestingCall DEF CallSound

LEMMA NoHabitIsHabit == Answers!NoHabit \in Habit
BY NothingSaid, AnswersCounts DEF Answers!NoHabit, Habit

LEMMA AnswersStart == Answers!Init => AnswersInv
<1>. SUFFICES ASSUME Answers!Init PROVE AnswersInv
  OBVIOUS
<1>1. /\ held \in SUBSET Details /\ port = [k \in Threads |-> {}]
      /\ ask = [k \in Threads |-> Answers!Resting] /\ habits = {} /\ match = Answers!NoMatch
  BY DEF Answers!Init
<1>2. Answers!NoMatch \in [text : Answers!Texts \cup {""}, habit : Habit, fresh : BOOLEAN]
  BY NoHabitIsHabit DEF Answers!NoMatch
<1>3. AnswersTyped
  BY <1>1, <1>2, RestingCall DEF AnswersTyped
<1>. QED
  BY <1>1, <1>3, RestingIsSound DEF AnswersInv

\* One call goes on.
LEMMA CallGoes ==
    ASSUME AnswersInv, NEW k \in Threads, NEW onward \in Call, ask' = [ask EXCEPT ![k] = onward],
           port' \in [Threads -> SUBSET Details],
           \A j \in Threads : j # k => port'[j] = port[j],
           CallSound(onward, port'[k], held), held' = held,
           habits' \subseteq Learnt,
           match' \in [text : Answers!Texts \cup {""}, habit : Habit, fresh : BOOLEAN]
    PROVE  AnswersInv'
<1>1. ask \in [Threads -> Call] /\ held \subseteq Details
  BY DEF AnswersInv, AnswersTyped
<1>2. /\ ask' \in [Threads -> Call] /\ ask'[k] = onward
      /\ \A j \in Threads : j # k => ask'[j] = ask[j]
  BY <1>1
<1>3. \A j \in Threads : CallSound(ask'[j], port'[j], held')
  BY <1>2 DEF AnswersInv
<1>4. AnswersTyped'
  BY <1>1, <1>2 DEF AnswersTyped
<1>. QED
  BY <1>3, <1>4 DEF AnswersInv

LEMMA CallsAre ==
    ASSUME AnswersInv, NEW k \in Threads
    PROVE  /\ ask[k] \in Call /\ CallSound(ask[k], port[k], held) /\ port[k] \subseteq Details
           /\ port \in [Threads -> SUBSET Details] /\ held \subseteq Details
           /\ habits \subseteq Learnt
           /\ match \in [text : Answers!Texts \cup {""}, habit : Habit, fresh : BOOLEAN]
BY DEF AnswersInv, AnswersTyped

\* The memory changes under all calls.
LEMMA ChangeStep == ASSUME AnswersInv, NEW d \in Details, Answers!Change(d) PROVE AnswersInv'
<1>1. /\ held' = IF d \in held THEN held \ {d} ELSE held \cup {d}
      /\ ask' = [k \in Threads |->
           [ask[k] EXCEPT !.since = ask[k].since \cup (held' \cap Answers!Of(ask[k].chat))]]
      /\ UNCHANGED <<port, habits, match>>
  BY DEF Answers!Change
<1>2. held' \subseteq Details
  BY <1>1 DEF AnswersInv, AnswersTyped
<1>3. ASSUME NEW k \in Threads
      PROVE  ask'[k] \in Call /\ CallSound(ask'[k], port'[k], held')
  <2>1. ask[k] \in Call /\ CallSound(ask[k], port[k], held)
    BY CallsAre
  <2>. DEFINE more == ask[k].since \cup (held' \cap Answers!Of(ask[k].chat))
              onward == [ask[k] EXCEPT !.since = more]
  <2>2. ask'[k] = onward
    BY <1>1
  <2>3. more \in SUBSET Details
    BY <1>2, <2>1 DEF Call
  <2>4. /\ onward \in Call /\ onward.since = more
        /\ onward.phase = ask[k].phase /\ onward.chat = ask[k].chat /\ onward.text = ask[k].text
        /\ onward.said = ask[k].said /\ onward.evidence = ask[k].evidence /\ onward.reply = ask[k].reply
        /\ onward.by = ask[k].by
    BY <2>1, <2>3 DEF Call
  <2>. HIDE DEF onward
  <2>5. CallSound(onward, port[k], held')
    BY <2>1, <2>4 DEF CallSound
  <2>. QED
    BY <1>1, <2>2, <2>4, <2>5
<1>4. ask' \in [Threads -> Call]
  BY <1>1, <1>3
<1>5. AnswersTyped'
  BY <1>1, <1>2, <1>4 DEF AnswersInv, AnswersTyped
<1>. QED
  BY <1>3, <1>5 DEF AnswersInv

LEMMA DecideStep ==
    ASSUME AnswersInv, NEW k \in Threads, NEW chat \in Chats, NEW text \in Answers!Texts,
           Answers!Decide(k, chat, text)
    PROVE  AnswersInv'
<1>1. PICK said \in SUBSET Answers!Of(chat) :
        ask' = [ask EXCEPT ![k] =
          [Answers!Resting EXCEPT !.phase = "decided", !.chat = chat, !.text = text,
             !.said = said, !.since = held \cap Answers!Of(chat)]]
  BY DEF Answers!Decide, Answers!Goes
<1>2. /\ port' = [port EXCEPT ![k] = {}] /\ UNCHANGED <<held, habits, match>>
  BY DEF Answers!Decide, Answers!PortOf
<1>. DEFINE onward == [Answers!Resting EXCEPT !.phase = "decided", !.chat = chat, !.text = text,
                     !.said = said, !.since = held \cap Answers!Of(chat)]
<1>3. said \subseteq Details /\ held \cap Answers!Of(chat) \subseteq Details
  BY DEF Answers!Of
<1>4. /\ onward \in Call /\ onward.phase = "decided" /\ onward.chat = chat
      /\ onward.since = held \cap Answers!Of(chat) /\ onward.evidence = {} /\ onward.by = "none"
  BY <1>3, NothingSaid DEF Answers!Resting, Call, CallPhases
<1>5. ask' = [ask EXCEPT ![k] = onward]
  BY <1>1
<1>. HIDE DEF onward
<1>6. CallSound(onward, {}, held)
  BY <1>4 DEF CallSound
<1>7. /\ port' \in [Threads -> SUBSET Details] /\ port'[k] = {}
      /\ \A j \in Threads : j # k => port'[j] = port[j]
  BY <1>2, CallsAre
<1>. QED
  BY <1>2, <1>4, <1>5, <1>6, <1>7, CallsAre, CallGoes

LEMMA SearchStep == ASSUME AnswersInv, NEW k \in Threads, Answers!Search(k) PROVE AnswersInv'
<1>1. PICK hits \in SUBSET ((held \cap Answers!Of(ask[k].chat)) \ Promises) :
        port' = [port EXCEPT ![k] = hits]
  BY DEF Answers!Search, Answers!PortOf
<1>. DEFINE onward == [ask[k] EXCEPT !.phase = "searched"]
<1>2. /\ ask[k].phase = "decided" /\ ask' = [ask EXCEPT ![k] = onward]
      /\ UNCHANGED <<held, habits, match>>
  BY DEF Answers!Search, Answers!Goes
<1>3. /\ onward \in Call /\ onward.phase = "searched" /\ onward.chat = ask[k].chat
      /\ onward.since = ask[k].since /\ onward.said = ask[k].said
      /\ onward.evidence = ask[k].evidence /\ onward.by = ask[k].by
  BY CallsAre DEF Call, CallPhases
<1>. HIDE DEF onward
<1>4. held \cap Answers!Of(ask[k].chat) \subseteq ask[k].since
      /\ ask[k].evidence \subseteq ask[k].since \cup ask[k].said /\ ask[k].by = "none"
  BY <1>2, CallsAre DEF CallSound
<1>5. /\ port' \in [Threads -> SUBSET Details] /\ port'[k] = hits
      /\ \A j \in Threads : j # k => port'[j] = port[j]
  <2>1. hits \in SUBSET Details
    BY CallsAre
  <2>. QED
    BY <1>1, <2>1, CallsAre
<1>6. CallSound(onward, port'[k], held)
  BY <1>3, <1>4, <1>5 DEF CallSound
<1>. QED
  BY <1>2, <1>3, <1>5, <1>6, CallsAre, CallGoes
Running == {"decided", "searched", "matching", "cached", "asking", "generated", "rewriting"}

\* A call that runs: what it has as evidence was held or said.
LEMMA RunningCall ==
    ASSUME AnswersInv, NEW k \in Threads, ask[k].phase \in Running
    PROVE  /\ ask[k].by = "none"
           /\ held \cap Answers!Of(ask[k].chat) \subseteq ask[k].since
           /\ ask[k].evidence \subseteq ask[k].since \cup ask[k].said
           /\ ask[k] \in Call
BY CallsAre DEF CallSound, Running

LEMMA ExecuteStep == ASSUME AnswersInv, NEW k \in Threads, Answers!Execute(k) PROVE AnswersInv'
<1>. DEFINE onward == [ask[k] EXCEPT !.phase = "matching", !.evidence = port[k]]
<1>1. /\ ask[k].phase = "searched" /\ ask' = [ask EXCEPT ![k] = onward]
      /\ UNCHANGED <<held, port, habits, match>>
  BY DEF Answers!Execute, Answers!Goes, Answers!PortOf
<1>2. /\ onward \in Call /\ onward.phase = "matching" /\ onward.chat = ask[k].chat
      /\ onward.since = ask[k].since /\ onward.said = ask[k].said
      /\ onward.evidence = port[k] /\ onward.by = ask[k].by
  BY CallsAre DEF Call, CallPhases
<1>. HIDE DEF onward
<1>3. port[k] \subseteq ask[k].since
  BY <1>1, CallsAre DEF CallSound
<1>4. CallSound(onward, port'[k], held)
  BY <1>1, <1>2, <1>3, RunningCall DEF CallSound, Running
<1>. QED
  BY <1>1, <1>2, <1>4, CallsAre, CallGoes

\* A call goes on with what it has.
LEMMA CallGoesOn ==
    ASSUME AnswersInv, NEW k \in Threads, ask[k].phase \in Running,
           NEW onward \in Call, onward.phase \in Running \ {"searched"},
           onward.chat = ask[k].chat, onward.since = ask[k].since, onward.said = ask[k].said,
           onward.evidence = ask[k].evidence, onward.by = ask[k].by,
           ask' = [ask EXCEPT ![k] = onward], UNCHANGED <<held, port, habits>>,
           match' \in [text : Answers!Texts \cup {""}, habit : Habit, fresh : BOOLEAN]
    PROVE  AnswersInv'
<1>1. CallSound(onward, port'[k], held)
  BY RunningCall DEF CallSound, Running
<1>. QED
  BY <1>1, CallsAre, CallGoes

LEMMA PhaseGoesOn ==
    ASSUME AnswersInv, NEW k \in Threads, ask[k].phase \in Running, NEW p \in Running \ {"searched"},
           ask' = [ask EXCEPT ![k] = [ask[k] EXCEPT !.phase = p]],
           UNCHANGED <<held, port, habits>>,
           match' \in [text : Answers!Texts \cup {""}, habit : Habit, fresh : BOOLEAN]
    PROVE  AnswersInv'
<1>. DEFINE onward == [ask[k] EXCEPT !.phase = p]
<1>1. /\ onward \in Call /\ onward.phase = p /\ onward.chat = ask[k].chat
      /\ onward.since = ask[k].since /\ onward.said = ask[k].said
      /\ onward.evidence = ask[k].evidence /\ onward.by = ask[k].by
  BY CallsAre DEF Call, CallPhases, Running
<1>2. ask' = [ask EXCEPT ![k] = onward]
  OBVIOUS
<1>. HIDE DEF onward
<1>. QED
  BY <1>1, <1>2, CallGoesOn

\* A habit answers, or the model is asked.
LEMMA AnsweredStep ==
    ASSUME AnswersInv, NEW k \in Threads, ask[k].phase \in Running, NEW habit \in Habit,
           Answers!Answered(k, habit), UNCHANGED <<held, port, habits>>,
           match' \in [text : Answers!Texts \cup {""}, habit : Habit, fresh : BOOLEAN]
    PROVE  AnswersInv'
<1>1. CASE habit = Answers!NoHabit
  <2>1. ask' = [ask EXCEPT ![k] = [ask[k] EXCEPT !.phase = "asking"]]
    BY <1>1 DEF Answers!Answered, Answers!Goes
  <2>. QED
    BY <2>1, PhaseGoesOn DEF Running
<1>2. CASE habit # Answers!NoHabit
  <2>. DEFINE onward == [Answers!Resting EXCEPT !.phase = "done", !.text = ask[k].text,
                                            !.reply = habit.reply, !.by = "habit"]
  <2>1. ask' = [ask EXCEPT ![k] = onward]
    BY <1>2 DEF Answers!Answered, Answers!Goes
  <2>5. ask[k] \in Call
    BY CallsAre
  <2>6. ask[k].text \in Answers!Texts \cup {""}
    BY <2>5 DEF Call
  <2>2. ask[k].text \in Answers!Texts \cup {""} /\ habit.reply \in Answers!Answers
    BY <2>6, HabitsAre
  <2>3. onward \in Call /\ onward.phase = "done" /\ onward.by = "habit"
    BY <2>2 DEF Answers!Resting, Call, CallPhases
  <2>. HIDE DEF onward
  <2>4. CallSound(onward, port'[k], held)
    BY <2>3 DEF CallSound
  <2>. QED
    BY <2>1, <2>3, <2>4, CallsAre, CallGoes
<1>. QED
  BY <1>1, <1>2

LEMMA HabitSteps ==
    ASSUME AnswersInv, NEW k \in Threads,
           Answers!Compare(k) \/ Answers!ReadCached(k) \/ Answers!ReadRows(k)
    PROVE  AnswersInv'
<1>1. CASE Answers!Compare(k)
  <2>1. /\ ask[k].phase = "matching" /\ ask' = [ask EXCEPT ![k] = [ask[k] EXCEPT !.phase = "cached"]]
        /\ UNCHANGED <<held, port, habits, match>>
    BY <1>1 DEF Answers!Compare, Answers!Goes
  <2>. QED
    BY <2>1, PhaseGoesOn, CallsAre DEF Running
<1>2. CASE Answers!ReadCached(k)
  <2>1. /\ ask[k].phase = "cached" /\ Answers!Answered(k, match.habit)
        /\ UNCHANGED <<held, port, habits, match>>
    BY <1>2 DEF Answers!ReadCached
  <2>2. match.habit \in Habit
    BY CallsAre
  <2>. QED
    BY <2>1, <2>2, AnsweredStep, CallsAre DEF Running
<1>3. CASE Answers!ReadRows(k)
  <2>1. /\ ask[k].phase = "matching" /\ UNCHANGED <<held, port, habits>>
    BY <1>3 DEF Answers!ReadRows
  <2>2. PICK habit \in IF Answers!Found(ask[k].text) = {} THEN {Answers!NoHabit}
                       ELSE Answers!Found(ask[k].text) :
          /\ match' = [text |-> ask[k].text, habit |-> habit, fresh |-> TRUE]
          /\ Answers!Answered(k, habit)
    BY <1>3 DEF Answers!ReadRows
  <2>3. habit \in Habit
    BY <2>2, CallsAre, NoHabitIsHabit DEF Answers!Found, Answers!Proven, Learnt
  <2>4. ask[k].text \in Answers!Texts \cup {""}
    BY CallsAre DEF Call
  <2>5. match' \in [text : Answers!Texts \cup {""}, habit : Habit, fresh : BOOLEAN]
    BY <2>2, <2>3, <2>4
  <2>. QED
    BY <2>1, <2>2, <2>3, <2>5, AnsweredStep DEF Running
<1>. QED
  BY <1>1, <1>2, <1>3

LEMMA ExpireStep == ASSUME AnswersInv, Answers!Expire PROVE AnswersInv'
<1>1. match' = Answers!NoMatch /\ UNCHANGED <<port, ask, habits, held>>
  BY DEF Answers!Expire
<1>2. match' \in [text : Answers!Texts \cup {""}, habit : Habit, fresh : BOOLEAN]
  BY <1>1, NoHabitIsHabit DEF Answers!NoMatch
<1>. QED
  BY <1>1, <1>2 DEF AnswersInv, AnswersTyped

\* What a habit counts is of its type.
LEMMA UpsertTyped ==
    ASSUME AnswersInv, NEW text \in Answers!Texts, NEW reply \in Answers!Answers,
           NEW good \in BOOLEAN
    PROVE  Answers!Upsert(text, reply, good) \subseteq Learnt
<1>. DEFINE of == {h \in habits : h.text = text /\ h.reply = reply}
            first == [text |-> text, reply |-> reply, tries |-> 1,
                      success |-> IF good THEN 1000 ELSE 0]
            Counted(h) == [h EXCEPT
              !.tries = IF h.tries < MinTries THEN h.tries + 1 ELSE h.tries,
              !.success = IF backend = "sqlite" THEN Answers!SqliteSuccess(h.success, good)
                          ELSE Answers!PgSuccess(h.success, good)]
<1>1. habits \subseteq Learnt
  BY DEF AnswersInv, AnswersTyped
<1>2. first \in Learnt
  <2>1. 1 \in 0..MinTries /\ 1 >= 1
    <3>1. \A n \in Nat \ {0} : 1 \in 0..n
      OBVIOUS
    <3>. QED
      BY <3>1, AnswersCounts
  <2>. DEFINE success == IF good THEN 1000 ELSE 0
  <2>2. first = [text |-> text, reply |-> reply, tries |-> 1, success |-> success]
    OBVIOUS
  <2>. HIDE DEF success, first
  <2>3. success \in 0..1000
    <3>1. CASE good
      BY <3>1 DEF success
    <3>2. CASE ~good
      BY <3>2 DEF success
    <3>. QED
      BY <3>1, <3>2
  <2>. DEFINE T == Answers!Texts \cup {""}
              N == 0..MinTries
              M == 0..1000
  <2>4. text \in T
    OBVIOUS
  <2>. HIDE DEF T
  <2>5. 1 \in N /\ success \in M
    BY <2>1, <2>3
  <2>. HIDE DEF N, M
  <2>6. first \in [text : T, reply : Answers!Answers, tries : N, success : M]
    BY <2>2, <2>4, <2>5
  <2>12. Habit = [text : T, reply : Answers!Answers, tries : N, success : M]
    BY DEF Habit, T, N, M
  <2>7. first \in Habit
    BY <2>6, <2>12
  <2>8. first.text = text /\ first.tries = 1
    BY <2>2
  <2>. QED
    BY <2>1, <2>7, <2>8 DEF Learnt
<1>3. ASSUME NEW h \in Learnt PROVE Counted(h) \in Learnt
  <2>1. h.tries \in 1..MinTries /\ h.success \in 0..1000 /\ MinTries \in Nat /\ h \in Habit
    BY AnswersCounts, LearntAre
  <2>2. (IF h.tries < MinTries THEN h.tries + 1 ELSE h.tries) \in 1..MinTries
    BY <2>1
  <2>3. (7 * h.success + 3000) \div 10 \in 0..1000 /\ (7 * h.success + 0) \div 10 \in 0..1000
    <3>1. \A n \in 0..1000 : (7 * n + 3000) \div 10 \in 0..1000 /\ (7 * n + 0) \div 10 \in 0..1000
      OBVIOUS
    <3>. DEFINE n == h.success
    <3>2. n \in 0..1000
      BY <2>1
    <3>. HIDE DEF n
    <3>3. (7 * n + 3000) \div 10 \in 0..1000 /\ (7 * n + 0) \div 10 \in 0..1000
      BY <3>1, <3>2
    <3>. QED
      BY <3>3 DEF n
  <2>4. (IF backend = "sqlite" THEN Answers!SqliteSuccess(h.success, good)
         ELSE Answers!PgSuccess(h.success, good)) \in 0..1000
    BY <2>3 DEF Answers!SqliteSuccess, Answers!PgSuccess
  <2>. DEFINE tries == IF h.tries < MinTries THEN h.tries + 1 ELSE h.tries
              success == IF backend = "sqlite" THEN Answers!SqliteSuccess(h.success, good)
                         ELSE Answers!PgSuccess(h.success, good)
  <2>5. tries \in 1..MinTries /\ success \in 0..1000
    BY <2>2, <2>4
  <2>6. Counted(h) = [h EXCEPT !.tries = tries, !.success = success]
    OBVIOUS
  <2>. HIDE DEF tries, success, Counted
  <2>7. tries \in 0..MinTries /\ tries >= 1 /\ h.text \in Answers!Texts
    BY <2>1, <2>5, LearntAre
  <2>. DEFINE T == Answers!Texts \cup {""}
              N == 0..MinTries
              M == 0..1000
  <2>8. tries \in N /\ success \in M
    BY <2>5, <2>7
  <2>9. h \in [text : T, reply : Answers!Answers, tries : N, success : M]
    BY <2>1 DEF Habit
  <2>. HIDE DEF T, N, M
  <2>10. /\ Counted(h) \in [text : T, reply : Answers!Answers, tries : N, success : M]
         /\ Counted(h).text = h.text /\ Counted(h).tries = tries
    BY <2>6, <2>8, <2>9
  <2>12. Habit = [text : T, reply : Answers!Answers, tries : N, success : M]
    BY DEF Habit, T, N, M
  <2>11. Counted(h) \in Habit
    BY <2>10, <2>12
  <2>. QED
    BY <2>7, <2>10, <2>11 DEF Learnt
<1>4. Answers!Upsert(text, reply, good) =
        (habits \ of) \cup (IF of = {} THEN {first} ELSE {Counted(h) : h \in of})
  BY DEF Answers!Upsert
<1>. HIDE DEF first, Counted
<1>5. {Counted(h) : h \in of} \subseteq Learnt
  BY <1>1, <1>3
<1>. QED
  BY <1>1, <1>2, <1>4, <1>5

LEMMA LearnStep == ASSUME AnswersInv, NEW k \in Threads, Answers!Learn(k) PROVE AnswersInv'
<1>1. /\ ask' = [ask EXCEPT ![k] = Answers!Resting] /\ UNCHANGED <<held, port, match>>
      /\ habits' = CASE ask[k].text = "thanks" -> Answers!Upsert("thanks", ask[k].reply, TRUE)
                     [] ask[k].text = "denial" -> Answers!Upsert("denial", ask[k].reply, FALSE)
                     [] OTHER -> habits
  BY DEF Answers!Learn, Answers!Goes
<1>2. ask[k].reply \in Answers!Answers
  BY CallsAre DEF Call
<1>3. habits' \subseteq Learnt
  <2>1. /\ Answers!Upsert("thanks", ask[k].reply, TRUE) \subseteq Learnt
        /\ Answers!Upsert("denial", ask[k].reply, FALSE) \subseteq Learnt
    BY <1>2, UpsertTyped DEF Answers!Texts
  <2>. QED
    BY <1>1, <2>1, CallsAre
<1>. QED
  BY <1>1, <1>3, RestingCall, RestingIsSound, CallsAre, CallGoes

\* The model: its evidence is complete when it has answered, and only what the
\* evidence has passes, or what a proposal lets pass.
LEMMA GenerateStep == ASSUME AnswersInv, NEW k \in Threads, Answers!Generate(k) PROVE AnswersInv'
<1>1. PICK reply \in Answers!Answers :
        ask' = [ask EXCEPT ![k] = [ask[k] EXCEPT !.phase = "generated", !.reply = reply,
                                                 !.evidence = Answers!Evidence(k)]]
  BY DEF Answers!Generate, Answers!Goes
<1>2. ask[k].phase = "asking" /\ UNCHANGED <<held, port, habits, match>>
  BY DEF Answers!Generate
<1>. DEFINE e == Answers!Evidence(k)
            onward == [ask[k] EXCEPT !.phase = "generated", !.reply = reply, !.evidence = e]
<1>3. reply \in Answers!Answers /\ ask[k] \in Call /\ held \subseteq Details
  BY CallsAre
<1>4. e \in SUBSET Details /\ e \subseteq ask[k].since \cup ask[k].said
  BY <1>2, <1>3, RunningCall DEF Answers!Evidence, Call, Running
<1>5. ask' = [ask EXCEPT ![k] = onward]
  BY <1>1
<1>. HIDE DEF e
<1>6. /\ onward \in Call /\ onward.phase = "generated" /\ onward.chat = ask[k].chat
      /\ onward.since = ask[k].since /\ onward.said = ask[k].said
      /\ onward.evidence = e /\ onward.by = ask[k].by
  BY <1>3, <1>4 DEF Call, CallPhases
<1>. HIDE DEF onward
<1>7. CallSound(onward, port'[k], held)
  BY <1>2, <1>4, <1>6, RunningCall DEF CallSound, Running
<1>. QED
  BY <1>2, <1>5, <1>6, <1>7, CallsAre, CallGoes

LEMMA CallFailStep == ASSUME AnswersInv, NEW k \in Threads, Answers!Fail(k) PROVE AnswersInv'
<1>1. ask' = [ask EXCEPT ![k] = Answers!Resting] /\ UNCHANGED <<held, port, habits, match>>
  BY DEF Answers!Fail, Answers!Goes
<1>. QED
  BY <1>1, RestingCall, RestingIsSound, CallsAre, CallGoes

LEMMA PassesStep ==
    ASSUME AnswersInv, NEW k \in Threads, ask[k].phase \in Running,
           NEW reply \in Answers!Answers, Answers!Passes(k, reply),
           ~Answers!Unsupported(k, reply) \/ reply = {},
           UNCHANGED <<held, port, habits, match>>
    PROVE  AnswersInv'
<1>. DEFINE onward == [ask[k] EXCEPT !.phase = "done", !.reply = reply, !.by = "model", !.evidence = {}]
<1>1. ask' = [ask EXCEPT ![k] = onward]
  BY DEF Answers!Passes, Answers!Goes
<1>2. /\ onward \in Call /\ onward.phase = "done" /\ onward.chat = ask[k].chat /\ onward.reply = reply
      /\ onward.since = ask[k].since /\ onward.said = ask[k].said /\ onward.text = ask[k].text
      /\ onward.evidence = {} /\ onward.by = "model"
  BY CallsAre DEF Call, CallPhases
<1>. HIDE DEF onward
<1>3. ask[k].text # "proposal" => reply \ {"number"} \subseteq ask[k].since \cup ask[k].said
  BY RunningCall DEF Answers!Unsupported
<1>4. CallSound(onward, port'[k], held)
  BY <1>2, <1>3, RunningCall DEF CallSound
<1>. QED
  BY <1>1, <1>2, <1>4, CallsAre, CallGoes

LEMMA GateStep == ASSUME AnswersInv, NEW k \in Threads, Answers!Gate(k) PROVE AnswersInv'
<1>1. ask[k].phase = "generated" /\ UNCHANGED <<held, port, habits, match>>
  BY DEF Answers!Gate
<1>2. \/ Answers!Again(k)
      \/ ~Answers!Unsupported(k, ask[k].reply) /\ Answers!Passes(k, ask[k].reply)
  BY DEF Answers!Gate
<1>3. ask[k].phase \in Running /\ ask[k].reply \in Answers!Answers
  BY <1>1, CallsAre DEF Running, Call
<1>4. CASE Answers!Again(k)
  <2>. DEFINE onward == [ask[k] EXCEPT !.phase = "rewriting", !.reply = {}]
  <2>1. ask' = [ask EXCEPT ![k] = onward]
    BY <1>4 DEF Answers!Again, Answers!Goes
  <2>2. /\ onward \in Call /\ onward.phase = "rewriting" /\ onward.chat = ask[k].chat
        /\ onward.since = ask[k].since /\ onward.said = ask[k].said
        /\ onward.evidence = ask[k].evidence /\ onward.by = ask[k].by
    BY CallsAre, NothingSaid DEF Call, CallPhases
  <2>. HIDE DEF onward
  <2>3. onward.phase \in Running \ {"searched"}
    BY <2>2 DEF Running
  <2>. QED
    BY <1>1, <1>3, <2>1, <2>2, <2>3, CallsAre, CallGoesOn
<1>5. CASE ~Answers!Unsupported(k, ask[k].reply) /\ Answers!Passes(k, ask[k].reply)
  BY <1>1, <1>3, <1>5, PassesStep
<1>. QED
  BY <1>2, <1>4, <1>5

LEMMA RewriteStep == ASSUME AnswersInv, NEW k \in Threads, Answers!Rewrite(k) PROVE AnswersInv'
<1>1. ask[k].phase = "rewriting" /\ UNCHANGED <<held, port, habits, match>>
  BY DEF Answers!Rewrite
<1>2. \/ \E reply \in Answers!Answers : ~Answers!Unsupported(k, reply) /\ Answers!Passes(k, reply)
      \/ Answers!Passes(k, {})
  BY DEF Answers!Rewrite, Answers!SecondCheck, Answers!Forgetful
<1>3. ask[k].phase \in Running
  BY <1>1 DEF Running
<1>. QED
  BY <1>1, <1>2, <1>3, NothingSaid, PassesStep

LEMMA NextAnswer == ASSUME AnswersInv, Answers!Next PROVE AnswersInv'
BY ChangeStep, DecideStep, SearchStep, ExecuteStep, HabitSteps, ExpireStep, LearnStep,
   GenerateStep, CallFailStep, GateStep, RewriteStep DEF Answers!Next

LEMMA StutterAnswers == ASSUME AnswersInv, UNCHANGED answerVars PROVE AnswersInv'
BY DEF AnswersInv, AnswersTyped, answerVars

LEMMA AnswersMean == AnswersInv => Answers!TypeOK /\ Answers!ClaimsHeld
<1>. SUFFICES ASSUME AnswersInv PROVE Answers!TypeOK /\ Answers!ClaimsHeld
  OBVIOUS
<1>1. Answers!ClaimsHeld
  BY DEF AnswersInv, CallSound, Answers!ClaimsHeld
<1>2. \A k \in Threads : ask[k].phase \in CallPhases /\ ask[k].reply \in Answers!Answers
                         /\ ask[k].evidence \subseteq Details
  BY DEF AnswersInv, AnswersTyped, Call
<1>3. \A h \in habits : h.text \in Answers!Texts /\ h.tries \in 1..MinTries /\ h.success \in 0..1000
  <2>1. habits \subseteq Learnt
    BY DEF AnswersInv, AnswersTyped
  <2>. QED
    BY <2>1, LearntAre
<1>4. held \subseteq Details /\ port \in [Threads -> SUBSET Details]
  BY DEF AnswersInv, AnswersTyped
<1>. QED
  BY <1>1, <1>2, <1>3, <1>4 DEF Answers!TypeOK, CallPhases

-----------------------------------------------------------------------------
(* Intentions *)

Ages == 0..MaxAge
Intention == [title : Goals \cup {"none", "own"}, source : {"none", "goal", "cognitive"},
              strength : Nat, at : Ages]
Afterwards == {"resting", "choosing", "answering"}
Thought == [phase : Afterwards \cup {"abandoning", "deciding", "saving", "writing"},
            chat : Chats \cup {"none"}, data : [Chats -> Intention], new : Intention,
            left : SUBSET Chats, next : Afterwards]

WillTyped ==
    /\ now \in Ages
    /\ intentions \in [Chats -> Intention] /\ mine \in [Chats -> Intention]
    /\ thought \in [Threads -> Thought]

\* Who is saving has of the other chats what their own messages made of them (m),
\* or they were changed meanwhile (x).
Reading(t, m, x) ==
    t.phase \in Will!Saving => \A c \in Chats : c = t.chat \/ t.data[c] = m[c] \/ c \in x

WillInv ==
    /\ WillTyped
    /\ \A c \in Chats : intentions[c] = mine[c] \/ c \in crossed
    /\ \A k \in Threads : Reading(thought[k], mine, crossed)

LEMMA AgesAre == 0 \in Ages /\ \A n \in Ages : n < MaxAge => n + 1 \in Ages
<1>1. MaxAge \in Nat
  BY BoundsAssumption
<1>. QED
  BY <1>1 DEF Ages

LEMMA NoIntention == Will!None \in Intention
BY AgesAre DEF Will!None, Intention

LEMMA RestingThought == Will!Resting \in Thought /\ Will!Resting.phase = "resting"
<1>1. [c \in Chats |-> Will!None] \in [Chats -> Intention]
  BY NoIntention
<1>. QED
  BY <1>1, NoIntention DEF Will!Resting, Thought, Afterwards

\* A thought that reads nothing.
LEMMA IdleReads == \A t, m, x : t.phase \notin Will!Saving => Reading(t, m, x)
BY DEF Reading

LEMMA FreshThought ==
    ASSUME NEW p \in Afterwards \cup {"abandoning"}, NEW c \in Chats \cup {"none"}
    PROVE  /\ [Will!Resting EXCEPT !.phase = p, !.chat = c] \in Thought
           /\ \A m, x : Reading([Will!Resting EXCEPT !.phase = p, !.chat = c], m, x)
<1>. DEFINE t == [Will!Resting EXCEPT !.phase = p, !.chat = c]
<1>1. t \in Thought /\ t.phase = p
  BY RestingThought DEF Thought
<1>2. p \notin Will!Saving
  BY DEF Will!Saving, Afterwards
<1>. HIDE DEF t
<1>3. \A m, x : Reading(t, m, x)
  BY <1>1, <1>2, IdleReads
<1>. QED
  BY <1>1, <1>3 DEF t

LEMMA WillStarts == Will!Init => WillInv
<1>. SUFFICES ASSUME Will!Init PROVE WillInv
  OBVIOUS
<1>1. /\ now = 0 /\ intentions = [c \in Chats |-> Will!None] /\ mine = intentions
      /\ thought = [k \in Threads |-> Will!Resting]
  BY DEF Will!Init
<1>2. WillTyped
  BY <1>1, AgesAre, NoIntention, RestingThought DEF WillTyped
<1>3. \A m, x : Reading(Will!Resting, m, x)
  BY RestingThought, IdleReads DEF Will!Saving
<1>. QED
  BY <1>1, <1>2, <1>3 DEF WillInv

LEMMA ThoughtsAre ==
    ASSUME WillInv, NEW k \in Threads
    PROVE  /\ thought[k] \in Thought /\ Reading(thought[k], mine, crossed)
           /\ thought \in [Threads -> Thought] /\ now \in Ages
           /\ intentions \in [Chats -> Intention] /\ mine \in [Chats -> Intention]
BY DEF WillInv, WillTyped

\* One thought goes on, and no intention changes.
LEMMA ThoughtGoes ==
    ASSUME WillInv, NEW k \in Threads, NEW t \in Thought,
           thought' = [thought EXCEPT ![k] = t], Reading(t, mine, crossed),
           UNCHANGED <<now, intentions, mine, crossed>>
    PROVE  WillInv'
<1>1. thought' \in [Threads -> Thought]
      /\ \A j \in Threads : thought'[j] = IF j = k THEN t ELSE thought[j]
  BY ThoughtsAre
<1>2. \A j \in Threads : Reading(thought'[j], mine', crossed')
  BY <1>1 DEF WillInv
<1>3. WillTyped'
  BY <1>1 DEF WillInv, WillTyped
<1>. QED
  BY <1>2, <1>3 DEF WillInv

\* What a message reads of the other chats is what they made of themselves.
LEMMA ReadsRows ==
    ASSUME WillInv, NEW t, t.data = intentions
    PROVE  Reading(t, mine, crossed)
BY DEF WillInv, Reading

LEMMA GoalsStep ==
    ASSUME WillInv, NEW c \in Chats, NEW g \in Goals, Will!AddGoal(c, g) \/ Will!DoneGoal(c, g)
    PROVE  WillInv'
BY DEF Will!AddGoal, Will!DoneGoal, WillInv, WillTyped

LEMMA AgeStep == ASSUME WillInv, Will!Tick PROVE WillInv'
BY AgesAre DEF Will!Tick, WillInv, WillTyped

LEMMA BeginThought ==
    ASSUME WillInv, NEW k \in Threads, NEW c \in Chats, Will!Begin(k, c) PROVE WillInv'
<1>1. \E p \in {"abandoning", "choosing"} :
        thought' = [thought EXCEPT ![k] = [Will!Resting EXCEPT !.chat = c, !.phase = p]]
  BY DEF Will!Begin, Will!Goes
<1>2. PICK p \in {"abandoning", "choosing"} :
        thought' = [thought EXCEPT ![k] = [Will!Resting EXCEPT !.chat = c, !.phase = p]]
  BY <1>1
<1>. DEFINE t == [Will!Resting EXCEPT !.phase = p, !.chat = c]
<1>3. t = [Will!Resting EXCEPT !.chat = c, !.phase = p]
  BY RestingThought DEF Thought
<1>4. t \in Thought /\ Reading(t, mine, crossed)
  BY FreshThought DEF Afterwards
<1>5. thought' = [thought EXCEPT ![k] = t]
  BY <1>2, <1>3
<1>6. UNCHANGED <<now, intentions, mine, crossed>>
  BY DEF Will!Begin
<1>. HIDE DEF t
<1>. QED
  BY <1>4, <1>5, <1>6, ThoughtGoes

LEMMA AbandonStep == ASSUME WillInv, NEW k \in Threads, Will!Abandon(k) PROVE WillInv'
<1>. DEFINE t == [thought[k] EXCEPT !.phase = "saving", !.new = Will!None, !.next = "choosing",
                                    !.data = intentions]
<1>1. t \in Thought /\ t.data = intentions
  BY ThoughtsAre, NoIntention DEF Thought, Afterwards
<1>2. thought' = [thought EXCEPT ![k] = t] /\ UNCHANGED <<now, intentions, mine, crossed>>
  BY ThoughtsAre DEF Will!Abandon, Will!Goes, Will!Save, Thought
<1>. HIDE DEF t
<1>. QED
  BY <1>1, <1>2, ReadsRows, ThoughtGoes

LEMMA ChooseGoal == ASSUME WillInv, NEW k \in Threads, Will!Choose(k) PROVE WillInv'
<1>1. UNCHANGED <<now, intentions, mine, crossed>>
  BY DEF Will!Choose
<1>2. \/ thought' = [thought EXCEPT ![k] = [thought[k] EXCEPT !.phase = "answering"]]
      \/ \E g \in Will!Active(thought[k].chat) :
           thought' = [thought EXCEPT ![k] = [thought[k] EXCEPT
              !.phase = "deciding", !.data = intentions,
              !.new = [title |-> g, source |-> "goal", strength |-> Strength[g], at |-> now]]]
  BY DEF Will!Choose, Will!Goes
<1>3. CASE thought' = [thought EXCEPT ![k] = [thought[k] EXCEPT !.phase = "answering"]]
  <2>. DEFINE t == [thought[k] EXCEPT !.phase = "answering"]
  <2>1. t \in Thought /\ t.phase = "answering"
    BY ThoughtsAre DEF Thought, Afterwards
  <2>2. thought' = [thought EXCEPT ![k] = t]
    BY <1>3
  <2>. HIDE DEF t
  <2>3. Reading(t, mine, crossed)
    BY <2>1, IdleReads DEF Will!Saving
  <2>. QED
    BY <1>1, <2>1, <2>2, <2>3, ThoughtGoes
<1>4. ASSUME NEW g \in Will!Active(thought[k].chat),
             thought' = [thought EXCEPT ![k] = [thought[k] EXCEPT
                !.phase = "deciding", !.data = intentions,
                !.new = [title |-> g, source |-> "goal", strength |-> Strength[g], at |-> now]]]
      PROVE  WillInv'
  <2>. DEFINE i == [title |-> g, source |-> "goal", strength |-> Strength[g], at |-> now]
              t == [thought[k] EXCEPT !.phase = "deciding", !.data = intentions, !.new = i]
  <2>1. g \in Goals /\ Strength[g] \in Nat
    BY ConstantsAssumption DEF Will!MindsAssumption, Will!Active
  <2>2. i \in Intention
    BY <2>1, ThoughtsAre DEF Intention
  <2>3. thought' = [thought EXCEPT ![k] = t]
    BY <1>4
  <2>. HIDE DEF i
  <2>4. t \in Thought /\ t.data = intentions
    BY <2>2, ThoughtsAre DEF Thought
  <2>. HIDE DEF t
  <2>. QED
    BY <1>1, <2>3, <2>4, ReadsRows, ThoughtGoes
<1>. QED
  BY <1>2, <1>3, <1>4

LEMMA DecideIntention == ASSUME WillInv, NEW k \in Threads, Will!Decide(k) PROVE WillInv'
<1>1. /\ thought[k].phase = "deciding" /\ UNCHANGED <<now, intentions, mine, crossed>>
      /\ \/ thought' = [thought EXCEPT ![k] = [Will!Resting EXCEPT !.phase = "answering",
                                                                   !.chat = thought[k].chat]]
         \/ thought' = [thought EXCEPT ![k] = [thought[k] EXCEPT
                !.phase = "saving", !.new = thought[k].new, !.next = "answering"]]
  BY DEF Will!Decide, Will!Goes, Will!Save, Will!In
<1>2. CASE thought' = [thought EXCEPT ![k] = [Will!Resting EXCEPT !.phase = "answering",
                                                                 !.chat = thought[k].chat]]
  <2>. DEFINE t == [Will!Resting EXCEPT !.phase = "answering", !.chat = thought[k].chat]
  <2>1. thought[k].chat \in Chats \cup {"none"}
    BY ThoughtsAre DEF Thought
  <2>2. t \in Thought /\ Reading(t, mine, crossed)
    BY <2>1, FreshThought DEF Afterwards
  <2>3. thought' = [thought EXCEPT ![k] = t]
    BY <1>2
  <2>. HIDE DEF t
  <2>. QED
    BY <1>1, <2>2, <2>3, ThoughtGoes
<1>3. CASE thought' = [thought EXCEPT ![k] = [thought[k] EXCEPT
                !.phase = "saving", !.new = thought[k].new, !.next = "answering"]]
  <2>. DEFINE t == [thought[k] EXCEPT !.phase = "saving", !.new = thought[k].new,
                                      !.next = "answering"]
  <2>1. t \in Thought /\ t.data = thought[k].data /\ t.chat = thought[k].chat
    BY ThoughtsAre DEF Thought, Afterwards
  <2>2. thought' = [thought EXCEPT ![k] = t]
    BY <1>3
  <2>. HIDE DEF t
  <2>3. Reading(t, mine, crossed)
    BY <1>1, <2>1, ThoughtsAre DEF Reading, Will!Saving
  <2>. QED
    BY <1>1, <2>1, <2>2, <2>3, ThoughtGoes
<1>. QED
  BY <1>1, <1>2, <1>3

LEMMA AnswerIntends == ASSUME WillInv, NEW k \in Threads, Will!Answer(k) PROVE WillInv'
<1>1. UNCHANGED <<now, intentions, mine, crossed>>
  BY DEF Will!Answer
<1>. DEFINE i == [title |-> "own", source |-> "cognitive", strength |-> 70, at |-> now]
            t == [thought[k] EXCEPT !.phase = "saving", !.new = i, !.next = "resting",
                                    !.data = intentions]
<1>2. i \in Intention
  BY ThoughtsAre DEF Intention
<1>3. \/ thought' = [thought EXCEPT ![k] = Will!Resting]
      \/ thought' = [thought EXCEPT ![k] = [Will!Save(k, i, "resting") EXCEPT !.data = intentions]]
  BY DEF Will!Answer, Will!Goes
<1>. HIDE DEF i
<1>4. [Will!Save(k, i, "resting") EXCEPT !.data = intentions] = t
  BY ThoughtsAre DEF Will!Save, Thought
<1>5. t \in Thought /\ t.data = intentions
  BY <1>2, ThoughtsAre DEF Thought, Afterwards
<1>. HIDE DEF t
<1>6. CASE thought' = [thought EXCEPT ![k] = Will!Resting]
  <2>1. Reading(Will!Resting, mine, crossed)
    BY RestingThought, IdleReads DEF Will!Saving
  <2>. QED
    BY <1>1, <1>6, <2>1, RestingThought, ThoughtGoes
<1>7. CASE thought' = [thought EXCEPT ![k] = t]
  BY <1>1, <1>5, <1>7, ReadsRows, ThoughtGoes
<1>. QED
  BY <1>3, <1>4, <1>6, <1>7

LEMMA SaveBeginsStep == ASSUME WillInv, NEW k \in Threads, Will!SaveBegins(k) PROVE WillInv'
<1>. DEFINE data == Will!Given(k)
            left == {c \in Chats : intentions[c] # Will!None \/ data[c] # Will!None}
            t == [thought[k] EXCEPT !.phase = "writing", !.data = data, !.left = left]
<1>1. /\ thought[k].phase = "saving" /\ UNCHANGED <<now, intentions, mine, crossed>>
      /\ thought' = [thought EXCEPT ![k] = t]
  BY DEF Will!SaveBegins, Will!Goes, Will!In
<1>2. /\ data \in [Chats -> Intention]
      /\ \A c \in Chats : c # thought[k].chat => data[c] = thought[k].data[c]
  BY ThoughtsAre DEF Will!Given, Thought
<1>3. left \subseteq Chats
  OBVIOUS
<1>. HIDE DEF data, left
<1>4. t \in Thought /\ t.data = data /\ t.chat = thought[k].chat
  BY <1>2, <1>3, ThoughtsAre DEF Thought
<1>. HIDE DEF t
<1>5. Reading(t, mine, crossed)
  BY <1>1, <1>2, <1>4, ThoughtsAre DEF Reading, Will!Saving
<1>. QED
  BY <1>1, <1>4, <1>5, ThoughtGoes

\* What a thought does after it has saved.
LEMMA ThoughtAfter ==
    ASSUME WillInv, NEW k \in Threads
    PROVE  /\ (IF thought[k].next = "resting" THEN Will!Resting
               ELSE [Will!Resting EXCEPT !.phase = thought[k].next, !.chat = thought[k].chat])
                 \in Thought
           /\ \A m, x : Reading(IF thought[k].next = "resting" THEN Will!Resting
               ELSE [Will!Resting EXCEPT !.phase = thought[k].next, !.chat = thought[k].chat],
               m, x)
<1>1. thought[k].next \in Afterwards /\ thought[k].chat \in Chats \cup {"none"}
  BY ThoughtsAre DEF Thought
<1>2. \A m, x : Reading(Will!Resting, m, x)
  BY RestingThought, IdleReads DEF Will!Saving
<1>. QED
  BY <1>1, <1>2, RestingThought, FreshThought

LEMMA WriteNothingStep == ASSUME WillInv, NEW k \in Threads, Will!WriteNothing(k) PROVE WillInv'
<1>. DEFINE t == IF thought[k].next = "resting" THEN Will!Resting
                 ELSE [Will!Resting EXCEPT !.phase = thought[k].next, !.chat = thought[k].chat]
<1>1. thought' = [thought EXCEPT ![k] = t] /\ UNCHANGED <<now, intentions, mine, crossed>>
  BY DEF Will!WriteNothing, Will!Goes
<1>2. t \in Thought /\ Reading(t, mine, crossed)
  BY ThoughtAfter
<1>. HIDE DEF t
<1>. QED
  BY <1>1, <1>2, ThoughtGoes

\* A row of the dictionary is written. That of another chat is as its messages
\* made it, or is noted as crossed; who is saving meanwhile is noted, too.
LEMMA WriteIntention ==
    ASSUME WillInv, NEW k \in Threads, NEW c \in Chats, Will!Write(k, c) PROVE WillInv'
<1>. DEFINE t == thought[k]
            row == t.data[c]
            nt == IF t.left # {c} THEN [t EXCEPT !.left = t.left \ {c}]
                  ELSE IF t.next = "resting" THEN Will!Resting
                  ELSE [Will!Resting EXCEPT !.phase = t.next, !.chat = t.chat]
<1>1. /\ t.phase = "writing" /\ c \in t.left
      /\ thought' = [thought EXCEPT ![k] = nt]
      /\ mine' = IF c = t.chat THEN [mine EXCEPT ![c] = row] ELSE mine
      /\ crossed' = IF \E j \in Threads \ {k} : thought[j].phase \in Will!Saving
                    THEN crossed \cup {c} ELSE crossed
      /\ now' = now
  BY DEF Will!Write, Will!Goes, Will!In
<1>2. intentions' = [intentions EXCEPT ![c] = row]
  BY DEF Will!Write, Will!Gone, Will!IntentionDelete, Will!IntentionSet
<1>3. /\ t \in Thought /\ t.data \in [Chats -> Intention] /\ row \in Intention
      /\ Reading(t, mine, crossed) /\ t.left \subseteq Chats /\ t.chat \in Chats \cup {"none"}
  BY ThoughtsAre DEF Thought
<1>. HIDE DEF row
<1>4. /\ intentions' \in [Chats -> Intention] /\ mine' \in [Chats -> Intention]
      /\ \A d \in Chats : intentions'[d] = IF d = c THEN row ELSE intentions[d]
      /\ \A d \in Chats : mine'[d] = IF d = c /\ c = t.chat THEN row ELSE mine[d]
      /\ crossed \subseteq crossed'
  BY <1>1, <1>2, <1>3, ThoughtsAre
<1>5. nt \in Thought /\ \A d \in Chats : nt.phase \in Will!Saving
        => nt.chat = t.chat /\ nt.data = t.data
  <2>1. CASE t.left # {c}
    <3>. DEFINE u == [t EXCEPT !.left = t.left \ {c}]
    <3>1. u \in Thought /\ u.chat = t.chat /\ u.data = t.data
      BY <1>3 DEF Thought
    <3>2. nt = u
      BY <2>1
    <3>. HIDE DEF u, nt
    <3>. QED
      BY <3>1, <3>2
  <2>2. CASE t.left = {c}
    <3>. DEFINE u == IF t.next = "resting" THEN Will!Resting
                     ELSE [Will!Resting EXCEPT !.phase = t.next, !.chat = t.chat]
    <3>1. nt = u
      BY <2>2
    <3>2. u \in Thought
      BY ThoughtAfter
    <3>3. u.phase \notin Will!Saving
      <4>1. t.next \in Afterwards
        BY <1>3 DEF Thought
      <4>2. t.next # "resting" => u.phase = t.next
        BY RestingThought DEF Thought
      <4>3. t.next = "resting" => u.phase = "resting"
        BY RestingThought
      <4>. HIDE DEF u
      <4>. QED
        BY <4>1, <4>2, <4>3 DEF Afterwards, Will!Saving
    <3>. HIDE DEF u, nt
    <3>. QED
      BY <3>1, <3>2, <3>3
  <2>. QED
    BY <2>1, <2>2
<1>. HIDE DEF nt
<1>6. thought' \in [Threads -> Thought]
      /\ \A j \in Threads : thought'[j] = IF j = k THEN nt ELSE thought[j]
  BY <1>1, <1>5, ThoughtsAre
<1>7. WillTyped'
  BY <1>1, <1>4, <1>6, ThoughtsAre DEF WillTyped
<1>8. ASSUME NEW d \in Chats PROVE intentions'[d] = mine'[d] \/ d \in crossed'
  <2>1. CASE d # c
    BY <1>4, <2>1 DEF WillInv
  <2>2. CASE d = c /\ c = t.chat
    BY <1>4, <2>2
  <2>3. CASE d = c /\ c # t.chat
    <3>1. row = mine[c] \/ c \in crossed
      BY <1>1, <1>3, <2>3 DEF Reading, Will!Saving, row
    <3>. QED
      BY <1>4, <2>3, <3>1
  <2>. QED
    BY <2>1, <2>2, <2>3
<1>9. ASSUME NEW j \in Threads PROVE Reading(thought'[j], mine', crossed')
  <2>1. CASE j = k
    <3>. SUFFICES ASSUME nt.phase \in Will!Saving, NEW d \in Chats
                  PROVE  d = nt.chat \/ nt.data[d] = mine'[d] \/ d \in crossed'
      BY <1>6, <2>1 DEF Reading
    <3>1. nt.chat = t.chat /\ nt.data = t.data
      BY <1>5
    <3>2. d = t.chat \/ t.data[d] = mine[d] \/ d \in crossed
      BY <1>1, <1>3 DEF Reading, Will!Saving
    <3>. QED
      BY <1>4, <3>1, <3>2
  <2>2. CASE j # k
    <3>. SUFFICES ASSUME thought[j].phase \in Will!Saving, NEW d \in Chats
                  PROVE  d = thought[j].chat \/ thought[j].data[d] = mine'[d] \/ d \in crossed'
      BY <1>6, <2>2 DEF Reading
    <3>1. c \in crossed'
      BY <1>1, <2>2
    <3>2. d = thought[j].chat \/ thought[j].data[d] = mine[d] \/ d \in crossed
      BY ThoughtsAre DEF Reading
    <3>. QED
      BY <1>4, <3>1, <3>2
  <2>. QED
    BY <2>1, <2>2
<1>. QED
  BY <1>7, <1>8, <1>9 DEF WillInv

LEMMA NextWill == ASSUME WillInv, Will!Next PROVE WillInv'
BY GoalsStep, AgeStep, BeginThought, AbandonStep, ChooseGoal, DecideIntention, AnswerIntends,
   SaveBeginsStep, WriteNothingStep, WriteIntention DEF Will!Next

LEMMA StutterWill == ASSUME WillInv, UNCHANGED <<now, mindVars>> PROVE WillInv'
BY DEF WillInv, WillTyped, mindVars

\* The goals have their status, and only chats are crossed.
AimsTyped ==
    /\ goals \in [Chats -> [Goals -> {"none", "active", "done"}]]
    /\ crossed \subseteq Chats

LEMMA AimsStart == Will!Init => AimsTyped
BY DEF Will!Init, AimsTyped

LEMMA NextAims == ASSUME AimsTyped, Will!Next PROVE AimsTyped'
<1>1. ASSUME NEW c \in Chats, NEW g \in Goals, Will!AddGoal(c, g) \/ Will!DoneGoal(c, g)
      PROVE  AimsTyped'
  <2>1. goals[c][g] \in {"none", "active", "done"} /\ goals[c] \in [Goals -> {"none", "active", "done"}]
    BY DEF AimsTyped
  <2>2. \E x \in {"none", "active", "done"} : goals' = [goals EXCEPT ![c][g] = x]
    BY <1>1, <2>1 DEF Will!AddGoal, Will!DoneGoal, Will!SqliteGoalAdd, Will!PgGoalAdd
  <2>3. crossed' = crossed
    BY <1>1 DEF Will!AddGoal, Will!DoneGoal
  <2>. QED
    BY <2>1, <2>2, <2>3 DEF AimsTyped
<1>2. ASSUME NEW k \in Threads, NEW c \in Chats, Will!Write(k, c) PROVE AimsTyped'
  <2>1. goals' = goals /\ crossed' \in {crossed, crossed \cup {c}}
    BY <1>2 DEF Will!Write
  <2>. QED
    BY <2>1 DEF AimsTyped
<1>3. UNCHANGED <<goals, crossed>> => AimsTyped'
  BY DEF AimsTyped
<1>4. ASSUME NEW k \in Threads, NEW c \in Chats, Will!Begin(k, c) PROVE UNCHANGED <<goals, crossed>>
  BY <1>4 DEF Will!Begin
<1>5. ASSUME NEW k \in Threads, Will!SaveBegins(k) \/ Will!WriteNothing(k) \/ Will!Abandon(k)
             \/ Will!Choose(k) \/ Will!Decide(k) \/ Will!Answer(k)
      PROVE  UNCHANGED <<goals, crossed>>
  BY <1>5 DEF Will!SaveBegins, Will!WriteNothing, Will!Abandon, Will!Choose, Will!Decide, Will!Answer
<1>6. Will!Tick => UNCHANGED <<goals, crossed>>
  BY DEF Will!Tick
<1>. QED
  BY <1>1, <1>2, <1>3, <1>4, <1>5, <1>6 DEF Will!Next

LEMMA StutterAims == ASSUME AimsTyped, UNCHANGED mindVars PROVE AimsTyped'
BY DEF AimsTyped, mindVars

LEMMA WillMeans == WillInv /\ AimsTyped => Will!TypeOK /\ Will!IntentionsKept
<1>. SUFFICES ASSUME WillInv, AimsTyped PROVE Will!TypeOK /\ Will!IntentionsKept
  OBVIOUS
<1>1. Intention = Will!Intentions
  BY DEF Intention, Will!Intentions, Ages
<1>. QED
  BY <1>1 DEF WillInv, WillTyped, AimsTyped, Will!TypeOK, Will!IntentionsKept

-----------------------------------------------------------------------------
(* The latest of a sequence *)

\* The last n of a sequence, or all of it.
LEMMA LastOfSeq ==
    ASSUME NEW T, NEW s \in Seq(T), NEW n \in Nat \ {0}
    PROVE  /\ Moods!Last(s, n) \in Seq(T)
           /\ Len(Moods!Last(s, n)) = IF Len(s) > n THEN n ELSE Len(s)
           /\ \A i \in 1..Len(Moods!Last(s, n)) :
                /\ Len(s) - Len(Moods!Last(s, n)) + i \in 1..Len(s)
                /\ Moods!Last(s, n)[i] = s[Len(s) - Len(Moods!Last(s, n)) + i]
<1>. DEFINE k == IF Len(s) > n THEN Len(s) - n + 1 ELSE 1
            l == SubSeq(s, k, Len(s))
<1>1. Len(s) \in Nat /\ Moods!Last(s, n) = l
  BY LenProperties DEF Moods!Last
<1>2. k \in Int /\ k >= 1 /\ Len(s) - k + 1 = (IF Len(s) > n THEN n ELSE Len(s))
      /\ (k <= Len(s) \/ Len(s) = 0)
  BY <1>1
<1>. HIDE DEF k
<1>3. \A i \in k..Len(s) : s[i] \in T
  BY <1>1, <1>2, ElementOfSeq
<1>4. /\ l \in Seq(T) /\ Len(l) = (IF k <= Len(s) THEN Len(s) - k + 1 ELSE 0)
      /\ \A i \in 1..(Len(s) - k + 1) : l[i] = s[k + i - 1]
  BY <1>1, <1>2, <1>3, SubSeqProperties
<1>. HIDE DEF l
<1>5. Len(l) = Len(s) - k + 1
  BY <1>1, <1>2, <1>4
<1>6. \A i \in 1..Len(l) : Len(s) - Len(l) + i = k + i - 1 /\ k + i - 1 \in 1..Len(s)
  BY <1>1, <1>2, <1>5
<1>. QED
  BY <1>1, <1>2, <1>4, <1>5, <1>6

\* To append to the last n is to append to all and keep the last n.
LEMMA LastOfAppended ==
    ASSUME NEW T, NEW s \in Seq(T), NEW v \in T, NEW n \in Nat \ {0}
    PROVE  Moods!Last(Append(Moods!Last(s, n), v), n) = Moods!Last(Append(s, v), n)
<1>. DEFINE l == Moods!Last(s, n)
            la == Append(l, v)
            sa == Append(s, v)
            ll == Moods!Last(la, n)
            ls == Moods!Last(sa, n)
<1>1. /\ l \in Seq(T) /\ Len(s) \in Nat
      /\ Len(l) = IF Len(s) > n THEN n ELSE Len(s)
      /\ \A i \in 1..Len(l) : Len(s) - Len(l) + i \in 1..Len(s) /\ l[i] = s[Len(s) - Len(l) + i]
  BY LastOfSeq, LenProperties
<1>. HIDE DEF l
<1>2. /\ la \in Seq(T) /\ Len(la) = Len(l) + 1 /\ la[Len(l) + 1] = v
      /\ \A i \in 1..Len(l) : la[i] = l[i]
  BY <1>1, AppendProperties
<1>3. /\ sa \in Seq(T) /\ Len(sa) = Len(s) + 1 /\ sa[Len(s) + 1] = v
      /\ \A i \in 1..Len(s) : sa[i] = s[i]
  BY <1>1, AppendProperties
<1>. HIDE DEF la, sa
<1>4. \A i \in 1..Len(la) : /\ Len(sa) - Len(la) + i \in 1..Len(sa)
                            /\ la[i] = sa[Len(sa) - Len(la) + i]
  <2>. SUFFICES ASSUME NEW i \in 1..Len(la)
                PROVE  /\ Len(sa) - Len(la) + i \in 1..Len(sa)
                       /\ la[i] = sa[Len(sa) - Len(la) + i]
    OBVIOUS
  <2>0. /\ Len(l) \in Nat /\ Len(l) <= Len(s) /\ Len(s) \in Nat
        /\ Len(la) = Len(l) + 1 /\ Len(sa) = Len(s) + 1
    BY <1>1, <1>2, <1>3
  <2>3. i \in 1..(Len(l) + 1)
    BY <2>0
  <2>1. CASE i \in 1..Len(l)
    <3>1. Len(sa) - Len(la) + i = Len(s) - Len(l) + i
      BY <2>0, <2>1
    <3>2. Len(s) - Len(l) + i \in 1..Len(s) /\ l[i] = s[Len(s) - Len(l) + i]
      BY <1>1, <2>1
    <3>3. Len(s) - Len(l) + i \in 1..Len(sa)
      BY <2>0, <3>2
    <3>4. la[i] = l[i] /\ sa[Len(s) - Len(l) + i] = s[Len(s) - Len(l) + i]
      BY <1>2, <1>3, <2>1, <3>2
    <3>. QED
      BY <3>1, <3>2, <3>3, <3>4, Zenon
  <2>2. CASE i = Len(l) + 1
    <3>1. Len(sa) - Len(la) + i = Len(s) + 1
      BY <2>0, <2>2
    <3>2. Len(s) + 1 \in 1..Len(sa)
      BY <1>1, <1>3
    <3>3. la[i] = v /\ sa[Len(s) + 1] = v
      BY <1>2, <1>3, <2>2
    <3>. QED
      BY <3>1, <3>2, <3>3, Zenon
  <2>. QED
    BY <2>0, <2>1, <2>2, <2>3
<1>5. /\ ll \in Seq(T) /\ Len(ll) = (IF Len(la) > n THEN n ELSE Len(la))
      /\ \A i \in 1..Len(ll) : Len(la) - Len(ll) + i \in 1..Len(la) /\ ll[i] = la[Len(la) - Len(ll) + i]
  BY <1>2, LastOfSeq
<1>6. /\ ls \in Seq(T) /\ Len(ls) = (IF Len(sa) > n THEN n ELSE Len(sa))
      /\ \A i \in 1..Len(ls) : ls[i] = sa[Len(sa) - Len(ls) + i]
  BY <1>3, LastOfSeq
<1>. HIDE DEF ll, ls
<1>7. Len(ll) = Len(ls) /\ Len(ll) \in Nat /\ Len(la) \in Nat /\ Len(sa) \in Nat
  BY <1>1, <1>2, <1>3, <1>5, <1>6
<1>8. ASSUME NEW i \in 1..Len(ll) PROVE ll[i] = ls[i]
  <2>1. Len(la) - Len(ll) + i \in 1..Len(la) /\ ll[i] = la[Len(la) - Len(ll) + i]
    BY <1>5
  <2>2. la[Len(la) - Len(ll) + i] = sa[Len(sa) - Len(la) + (Len(la) - Len(ll) + i)]
    BY <1>4, <2>1
  <2>3. Len(sa) - Len(la) + (Len(la) - Len(ll) + i) = Len(sa) - Len(ls) + i
    BY <1>7
  <2>4. ls[i] = sa[Len(sa) - Len(ls) + i]
    BY <1>6, <1>7
  <2>. QED
    BY <2>1, <2>2, <2>3, <2>4
<1>9. ll = ls
  BY <1>5, <1>6, <1>7, <1>8, SeqEqual
<1>. QED
  BY <1>9 DEF ll, ls, la, sa, l

\* What fits is kept whole.
LEMMA LastOfFew ==
    ASSUME NEW T, NEW s \in Seq(T), NEW n \in Nat \ {0}, Len(s) <= n
    PROVE  Moods!Last(s, n) = s
<1>1. Len(s) \in Nat /\ ~(Len(s) > n)
  BY LenProperties
<1>. QED
  BY <1>1, SubSeqFull DEF Moods!Last

-----------------------------------------------------------------------------
(* The console *)

Kind == Kinds \cup {"none", "ablation"}
Entry == [kind : Kind, id : Nat, score : Nat]
TaskPhases == {"none", "waiting", "evaluating", "evaluated", "appending", "comparing",
               "measuring", "switching", "done", "error"}
TaskState == [phase : TaskPhases, kind : Kind, id : Nat, score : Nat, hist : Seq(Entry),
              base : SUBSET Switches, left : SUBSET Switches]

\* The numbers of the entries of a history.
Ids(l) == {l[i].id : i \in 1..Len(l)}
NoneTwice(l) == \A i, j \in 1..Len(l) : i # j => l[i].id # l[j].id

ConsoleTyped ==
    /\ config \subseteq Switches /\ disk \subseteq Switches /\ chosen \subseteq Switches
    /\ history \in Seq(Entry) /\ ended \in Seq(Entry)
    /\ task \in [Threads -> TaskState] /\ tasks \in Nat

\* The ablation that runs, if it is undisturbed, will put back what was chosen.
SwitchesKept ==
    ~disturbed =>
      /\ disk = chosen
      /\ Console!Ablating = {} => config = chosen
      /\ \A t, u \in Console!Ablating : t = u /\ task[t].base = chosen

\* An evaluation whose entry is still to come, and one that has read the history.
Coming(k) == k.phase \in {"waiting", "evaluating", "evaluated", "appending"}
Writing(k) == k.phase = "appending"
\* An ablation under way.
Changing(k) == k.phase \in {"measuring", "switching"}

\* Numbers are given once, and an entry that is still to come is nowhere yet.
NumberedOnce ==
    /\ NoneTwice(history) /\ \A i \in Ids(history) : i <= tasks
    /\ \A t \in Threads :
         /\ task[t].id <= tasks
         /\ Coming(task[t]) => task[t].id \notin Ids(history)
         /\ Writing(task[t]) =>
              NoneTwice(task[t].hist) /\ \A i \in Ids(task[t].hist) : i <= tasks
    /\ \A t, u \in Threads :
         /\ Coming(task[t]) /\ Coming(task[u]) /\ t # u => task[t].id # task[u].id
         /\ Coming(task[t]) /\ Writing(task[u]) => task[t].id \notin Ids(task[u].hist)

LatestKept ==
    ~mixed => /\ history = Moods!Last(ended, HistoryLength)
              /\ \A t \in Threads : Writing(task[t]) => task[t].hist = history

ConsoleInv == ConsoleTyped /\ SwitchesKept /\ NumberedOnce /\ LatestKept

LEMMA KeepIsPositive == HistoryLength \in Nat \ {0}
BY ConstantsAssumption DEF Console!WebTasksAssumption

LEMMA LatestIsLast == \A s \in Seq(Entry) : Console!Latest(s) = Moods!Last(s, HistoryLength)
BY SubSeqFull DEF Console!Latest, Moods!Last

LEMMA TasksAre ==
    ASSUME ConsoleInv, NEW t \in Threads
    PROVE  /\ task[t] \in TaskState /\ task[t].id \in Nat /\ task[t].hist \in Seq(Entry)
           /\ task \in [Threads -> TaskState] /\ tasks \in Nat
           /\ history \in Seq(Entry) /\ ended \in Seq(Entry)
BY DEF ConsoleInv, ConsoleTyped, TaskState

LEMMA IdsAreNat == \A l \in Seq(Entry) : Ids(l) \subseteq Nat
<1>. SUFFICES ASSUME NEW l \in Seq(Entry), NEW i \in 1..Len(l) PROVE l[i].id \in Nat
  BY DEF Ids
<1>1. l[i] \in Entry
  BY ElementOfSeq
<1>. QED
  BY <1>1 DEF Entry

LEMMA NoTaskIsState ==
    /\ \A p \in TaskPhases : [Console!NoTask EXCEPT !.phase = p] \in TaskState
    /\ \A p \in TaskPhases : [Console!NoTask EXCEPT !.phase = p].phase = p
    /\ \A p \in TaskPhases : [Console!NoTask EXCEPT !.phase = p].id = 0
    /\ Console!NoTask \in TaskState /\ Console!NoTask.phase = "none" /\ Console!NoTask.id = 0
<1>1. <<>> \in Seq(Entry)
  OBVIOUS
<1>2. Console!NoTask \in TaskState /\ Console!NoTask.phase = "none" /\ Console!NoTask.id = 0
  BY <1>1 DEF Console!NoTask, TaskState, TaskPhases, Kind
<1>. QED
  BY <1>2 DEF TaskState

LEMMA ConsoleStarts == Console!Init => ConsoleInv
<1>. SUFFICES ASSUME Console!Init PROVE ConsoleInv
  OBVIOUS
<1>1. /\ config = {} /\ disk = {} /\ chosen = {} /\ history = <<>> /\ ended = <<>>
      /\ task = [t \in Threads |-> Console!NoTask] /\ tasks = 0
  BY DEF Console!Init
<1>2. <<>> \in Seq(Entry) /\ Len(<<>>) = 0
  OBVIOUS
<1>3. ConsoleTyped
  BY <1>1, <1>2, NoTaskIsState DEF ConsoleTyped
<1>10. \A t \in Threads : task[t].phase = "none"
  BY <1>1, NoTaskIsState
<1>4. Console!Ablating = {}
  BY <1>10 DEF Console!Ablating
<1>5. SwitchesKept
  BY <1>1, <1>4 DEF SwitchesKept
<1>6. \A t \in Threads : ~Coming(task[t]) /\ ~Writing(task[t]) /\ task[t].id = 0
  BY <1>1, NoTaskIsState DEF Coming, Writing
<1>7. Ids(history) = {} /\ NoneTwice(history)
  BY <1>1, <1>2 DEF Ids, NoneTwice
<1>8. NumberedOnce
  BY <1>1, <1>6, <1>7 DEF NumberedOnce
<1>11. ended \in Seq(Entry) /\ Len(ended) <= HistoryLength
  BY <1>1, <1>2, KeepIsPositive
<1>12. Moods!Last(ended, HistoryLength) = ended
  BY <1>11, KeepIsPositive, LastOfFew
<1>9. history = Moods!Last(ended, HistoryLength)
  BY <1>1, <1>12
<1>. QED
  BY <1>3, <1>5, <1>6, <1>8, <1>9 DEF ConsoleInv, LatestKept

-----------------------------------------------------------------------------
(* The configuration *)

\* One task goes on, and the ablations stay what they are.
LEMMA AblationsStay ==
    ASSUME ConsoleInv, NEW t \in Threads, NEW k \in TaskState, task' = [task EXCEPT ![t] = k],
           Changing(k) <=> Changing(task[t]),
           Changing(k) => k.base = task[t].base
    PROVE  /\ Console!Ablating' = Console!Ablating
           /\ \A u \in Console!Ablating : task'[u].base = task[u].base
<1>1. task \in [Threads -> TaskState]
  BY TasksAre
<1>2. \A u \in Threads : task'[u] = IF u = t THEN k ELSE task[u]
  BY <1>1
<1>. QED
  BY <1>2 DEF Console!Ablating, Changing

LEMMA SwitchesStay ==
    ASSUME ConsoleInv, NEW t \in Threads, NEW k \in TaskState, task' = [task EXCEPT ![t] = k],
           Changing(k) <=> Changing(task[t]),
           Changing(k) => k.base = task[t].base,
           UNCHANGED <<disk, chosen, disturbed>>,
           config' = config \/ t \in Console!Ablating
    PROVE  SwitchesKept'
<1>1. /\ Console!Ablating' = Console!Ablating
      /\ \A u \in Console!Ablating : task'[u].base = task[u].base
  BY AblationsStay
<1>. QED
  BY <1>1 DEF ConsoleInv, SwitchesKept

-----------------------------------------------------------------------------
(* The history *)

\* An entry whose number is new can be appended.
LEMMA AppendedIds ==
    ASSUME NEW l \in Seq(Entry), NEW e \in Entry, NoneTwice(l), e.id \notin Ids(l)
    PROVE  /\ Append(l, e) \in Seq(Entry) /\ NoneTwice(Append(l, e))
           /\ Ids(Append(l, e)) \subseteq Ids(l) \cup {e.id}
<1>. DEFINE m == Append(l, e)
<1>1. /\ m \in Seq(Entry) /\ Len(l) \in Nat /\ Len(m) = Len(l) + 1
      /\ \A i \in 1..Len(l) : m[i] = l[i]
      /\ m[Len(l) + 1] = e
  BY AppendProperties, LenProperties
<1>. HIDE DEF m
<1>2. \A i \in 1..Len(m) : i \in 1..Len(l) \/ i = Len(l) + 1
  BY <1>1
<1>3. \A i \in 1..Len(m) : m[i].id = (IF i \in 1..Len(l) THEN l[i].id ELSE e.id)
  BY <1>1, <1>2
<1>4. \A i \in 1..Len(l) : l[i].id # e.id
  BY DEF Ids
<1>5. NoneTwice(m)
  BY <1>2, <1>3, <1>4 DEF NoneTwice
<1>6. Ids(m) \subseteq Ids(l) \cup {e.id}
  BY <1>2, <1>3 DEF Ids
<1>. QED
  BY <1>1, <1>5, <1>6 DEF m

\* The latest entries of a history have numbers of it, each once.
LEMMA LatestIds ==
    ASSUME NEW l \in Seq(Entry), NoneTwice(l)
    PROVE  /\ Moods!Last(l, HistoryLength) \in Seq(Entry) /\ NoneTwice(Moods!Last(l, HistoryLength))
           /\ Ids(Moods!Last(l, HistoryLength)) \subseteq Ids(l)
<1>. DEFINE m == Moods!Last(l, HistoryLength)
<1>. DEFINE cut == Len(l) - Len(m)
<1>1. /\ m \in Seq(Entry) /\ Len(l) \in Nat
      /\ \A i \in 1..Len(m) : cut + i \in 1..Len(l) /\ m[i] = l[cut + i]
  BY KeepIsPositive, LastOfSeq, LenProperties
<1>2. Len(m) \in Nat
  BY <1>1, LenProperties
<1>3. cut \in Int
  BY <1>1, <1>2
<1>. HIDE DEF m, cut
<1>4. NoneTwice(m)
  <2>. SUFFICES ASSUME NEW i \in 1..Len(m), NEW j \in 1..Len(m), i # j
                PROVE  m[i].id # m[j].id
    BY DEF NoneTwice
  <2>1. cut + i # cut + j
    BY <1>2, <1>3
  <2>. QED
    BY <2>1, <1>1 DEF NoneTwice
<1>5. Ids(m) \subseteq Ids(l)
  BY <1>1 DEF Ids
<1>. QED
  BY <1>1, <1>4, <1>5 DEF m

\* One task goes on, and writes nothing.
LEMMA HistoryStays ==
    ASSUME ConsoleInv, NEW t \in Threads, NEW k \in TaskState, task' = [task EXCEPT ![t] = k],
           k.id = task[t].id \/ (k.id = 0 /\ ~Coming(k)),
           Coming(k) => Coming(task[t]),
           Writing(k) => Writing(task[t]) /\ k.hist = task[t].hist,
           UNCHANGED <<history, ended, mixed, tasks>>
    PROVE  NumberedOnce' /\ LatestKept'
<1>1. task \in [Threads -> TaskState] /\ tasks \in Nat
  BY TasksAre
<1>2. \A u \in Threads : task'[u] = IF u = t THEN k ELSE task[u]
  BY <1>1
<1>3. NumberedOnce /\ LatestKept
  BY DEF ConsoleInv
<1>4. \A u \in Threads : Coming(task'[u]) => Coming(task[u]) /\ task'[u].id = task[u].id
  BY <1>2
<1>5. \A u \in Threads : Writing(task'[u]) => Writing(task[u]) /\ task'[u].hist = task[u].hist
  BY <1>2
<1>6. \A u \in Threads : task'[u].id <= tasks
  BY <1>1, <1>2, <1>3 DEF NumberedOnce
<1>7. \A u \in Threads :
         /\ Coming(task'[u]) => task'[u].id \notin Ids(history)
         /\ Writing(task'[u]) =>
              NoneTwice(task'[u].hist) /\ \A i \in Ids(task'[u].hist) : i <= tasks
  BY <1>3, <1>4, <1>5 DEF NumberedOnce
<1>8. \A u, v \in Threads :
         /\ Coming(task'[u]) /\ Coming(task'[v]) /\ u # v => task'[u].id # task'[v].id
         /\ Coming(task'[u]) /\ Writing(task'[v]) => task'[u].id \notin Ids(task'[v].hist)
  BY <1>3, <1>4, <1>5 DEF NumberedOnce
<1>9. NumberedOnce'
  BY <1>3, <1>6, <1>7, <1>8 DEF NumberedOnce
<1>10. LatestKept'
  BY <1>3, <1>5 DEF LatestKept
<1>. QED
  BY <1>9, <1>10

-----------------------------------------------------------------------------
(* The steps of the console *)

\* A task goes on without a change to what the others read.
LEMMA TaskGoesOn ==
    ASSUME ConsoleInv, NEW t \in Threads, NEW k \in TaskState, task' = [task EXCEPT ![t] = k],
           Changing(k) <=> Changing(task[t]),
           Changing(k) => k.base = task[t].base,
           k.id = task[t].id \/ (k.id = 0 /\ ~Coming(k)),
           Coming(k) => Coming(task[t]),
           Writing(k) => Writing(task[t]) /\ k.hist = task[t].hist,
           config' = config, disk' = disk, chosen' = chosen, disturbed' = disturbed,
           history' = history, ended' = ended, mixed' = mixed, tasks' = tasks
    PROVE  ConsoleInv'
<1>4. config' = config \/ t \in Console!Ablating
  OBVIOUS
<1>1. SwitchesKept'
  BY <1>4, SwitchesStay
<1>2. NumberedOnce' /\ LatestKept'
  BY HistoryStays
<1>3. ConsoleTyped'
  BY DEF ConsoleInv, ConsoleTyped
<1>. QED
  BY <1>1, <1>2, <1>3 DEF ConsoleInv

\* A task that ends, in a phase without state.
LEMMA EndedIsState ==
    ASSUME NEW p \in {"done", "error"}, NEW k, k = [Console!NoTask EXCEPT !.phase = p]
    PROVE  k \in TaskState /\ k.phase = p /\ k.id = 0 /\ ~Coming(k) /\ ~Writing(k)
<1>1. p \in TaskPhases
  BY DEF TaskPhases
<1>2. k \in TaskState /\ k.phase = p /\ k.id = 0
  BY <1>1, NoTaskIsState
<1>. QED
  BY <1>2 DEF Coming, Writing


LEMMA NextEvaluate ==
    ASSUME ConsoleInv, NEW t \in Threads, NEW score \in {1, 2}, Console!Evaluate(t, score)
    PROVE  ConsoleInv'
<1>. DEFINE k == [task[t] EXCEPT !.phase = "evaluated", !.score = score]
<1>1. /\ task[t].phase = "evaluating" /\ task' = [task EXCEPT ![t] = k]
      /\ UNCHANGED <<config, disk, chosen, disturbed, history, ended, mixed, tasks>>
  BY DEF Console!Evaluate, Console!In, Console!Goes
<1>4. score \in Nat /\ task[t] \in TaskState
  BY TasksAre
<1>2. k \in TaskState /\ k.phase = "evaluated" /\ k.id = task[t].id /\ k.hist = task[t].hist
  BY <1>4 DEF TaskState, TaskPhases
<1>. HIDE DEF k
<1>3. Coming(task[t]) /\ ~Writing(k)
  BY <1>1, <1>2 DEF Coming, Writing
<1>9. /\ Changing(k) <=> Changing(task[t])
      /\ Changing(k) => k.base = task[t].base
      /\ k.id = task[t].id \/ (k.id = 0 /\ ~Coming(k))
      /\ Coming(k) => Coming(task[t])
      /\ Writing(k) => Writing(task[t]) /\ k.hist = task[t].hist
  BY <1>1, <1>2, <1>3 DEF Changing
<1>. QED
  BY <1>1, <1>2, <1>3, <1>9, TaskGoesOn

LEMMA NextEvaluateFails ==
    ASSUME ConsoleInv, NEW t \in Threads, Console!EvaluateFails(t)
    PROVE  ConsoleInv'
<1>. DEFINE k == [Console!NoTask EXCEPT !.phase = "error"]
<1>1. /\ task[t].phase = "evaluating" /\ task' = [task EXCEPT ![t] = k]
      /\ UNCHANGED <<config, disk, chosen, disturbed, history, ended, mixed, tasks>>
  BY DEF Console!EvaluateFails, Console!In, Console!Goes
<1>2. k \in TaskState /\ k.phase = "error" /\ k.id = 0 /\ ~Coming(k) /\ ~Writing(k)
  BY EndedIsState
<1>. HIDE DEF k
<1>9. /\ Changing(k) <=> Changing(task[t])
      /\ Changing(k) => k.base = task[t].base
      /\ k.id = task[t].id \/ (k.id = 0 /\ ~Coming(k))
      /\ Coming(k) => Coming(task[t])
      /\ Writing(k) => Writing(task[t]) /\ k.hist = task[t].hist
  BY <1>1, <1>2 DEF Changing
<1>. QED
  BY <1>1, <1>2, <1>9, TaskGoesOn

LEMMA NextCompare ==
    ASSUME ConsoleInv, NEW t \in Threads, Console!Compare(t)
    PROVE  ConsoleInv'
<1>. DEFINE k == [Console!NoTask EXCEPT !.phase = "done"]
<1>1. /\ task[t].phase = "comparing" /\ task' = [task EXCEPT ![t] = k]
      /\ UNCHANGED <<config, disk, chosen, disturbed, history, ended, mixed, tasks>>
  BY DEF Console!Compare, Console!In, Console!Goes
<1>2. k \in TaskState /\ k.phase = "done" /\ k.id = 0 /\ ~Coming(k) /\ ~Writing(k)
  BY EndedIsState
<1>. HIDE DEF k
<1>9. /\ Changing(k) <=> Changing(task[t])
      /\ Changing(k) => k.base = task[t].base
      /\ k.id = task[t].id \/ (k.id = 0 /\ ~Coming(k))
      /\ Coming(k) => Coming(task[t])
      /\ Writing(k) => Writing(task[t]) /\ k.hist = task[t].hist
  BY <1>1, <1>2 DEF Changing
<1>. QED
  BY <1>1, <1>2, <1>9, TaskGoesOn

LEMMA NextMeasure ==
    ASSUME ConsoleInv, NEW t \in Threads, Console!Measure(t)
    PROVE  ConsoleInv'
<1>. DEFINE k == [task[t] EXCEPT !.phase = "measuring"]
<1>1. /\ task[t].phase = "switching" /\ task' = [task EXCEPT ![t] = k]
      /\ UNCHANGED <<config, disk, chosen, disturbed, history, ended, mixed, tasks>>
  BY DEF Console!Measure, Console!In, Console!Goes
<1>2. /\ k \in TaskState /\ k.phase = "measuring" /\ k.id = task[t].id /\ k.base = task[t].base
  BY TasksAre DEF TaskState, TaskPhases
<1>. HIDE DEF k
<1>3. ~Coming(k) /\ ~Writing(k)
  BY <1>2 DEF Coming, Writing
<1>9. /\ Changing(k) <=> Changing(task[t])
      /\ Changing(k) => k.base = task[t].base
      /\ k.id = task[t].id \/ (k.id = 0 /\ ~Coming(k))
      /\ Coming(k) => Coming(task[t])
      /\ Writing(k) => Writing(task[t]) /\ k.hist = task[t].hist
  BY <1>1, <1>2, <1>3 DEF Changing
<1>. QED
  BY <1>1, <1>2, <1>3, <1>9, TaskGoesOn

\* An ablation starts from what the operator chose, if no other runs.
LEMMA NextStart ==
    ASSUME ConsoleInv, NEW t \in Threads, Console!Start(t)
    PROVE  ConsoleInv'
<1>1. /\ task[t].phase = "waiting"
      /\ UNCHANGED <<config, disk, chosen, history, ended, mixed, tasks>>
  BY DEF Console!Start, Console!In
<1>2. CASE task[t].kind = "ablation"
  <2>. DEFINE k == [task[t] EXCEPT !.phase = "measuring", !.base = config, !.left = Switches]
  <2>1. task' = [task EXCEPT ![t] = k] /\ disturbed' = (disturbed \/ Console!Ablating # {})
    BY <1>2 DEF Console!Start, Console!Goes, Console!Ablation
  <2>2. config \in SUBSET Switches
    BY DEF ConsoleInv, ConsoleTyped
  <2>3. /\ k \in TaskState /\ k.phase = "measuring" /\ k.id = task[t].id /\ k.base = config
    BY <2>2, TasksAre DEF TaskState, TaskPhases
  <2>. HIDE DEF k
  <2>4. ~Coming(k) /\ ~Writing(k)
    BY <2>3 DEF Coming, Writing
  <2>5. NumberedOnce' /\ LatestKept'
    BY <1>1, <2>1, <2>3, <2>4, HistoryStays
  <2>6. ConsoleTyped'
    BY <1>1, <2>1, <2>3 DEF ConsoleInv, ConsoleTyped
  <2>7. SwitchesKept'
    <3>1. \A u \in Threads : task'[u] = IF u = t THEN k ELSE task[u]
      BY <2>1, TasksAre
    <3>2. \A u \in Threads : u \in Console!Ablating' <=> u = t \/ u \in Console!Ablating
      BY <1>1, <2>3, <3>1 DEF Console!Ablating
    <3>3. Console!Ablating \subseteq Threads
      BY DEF Console!Ablating
    <3>4. Console!Ablating' \subseteq Threads
      BY DEF Console!Ablating
    <3>5. SUFFICES ASSUME ~disturbed' PROVE SwitchesKept'
      BY DEF SwitchesKept
    <3>6. Console!Ablating = {} /\ disk = chosen /\ config = chosen
      BY <3>5, <2>1 DEF ConsoleInv, SwitchesKept
    <3>7. \A u \in Console!Ablating' : u = t /\ task'[u].base = chosen
      BY <2>3, <3>1, <3>2, <3>4, <3>6
    <3>8. t \in Console!Ablating'
      BY <3>2
    <3>. QED
      BY <1>1, <3>6, <3>7, <3>8 DEF SwitchesKept
  <2>. QED
    BY <2>5, <2>6, <2>7 DEF ConsoleInv
<1>3. CASE task[t].kind # "ablation"
  <2>. DEFINE k == [task[t] EXCEPT !.phase = "evaluating"]
  <2>1. task' = [task EXCEPT ![t] = k] /\ UNCHANGED disturbed
    BY <1>3 DEF Console!Start, Console!Goes, Console!Ablation
  <2>2. /\ k \in TaskState /\ k.phase = "evaluating" /\ k.id = task[t].id
    BY TasksAre DEF TaskState, TaskPhases
  <2>. HIDE DEF k
  <2>3. Coming(task[t]) /\ ~Writing(k)
    BY <1>1, <2>2 DEF Coming, Writing
  <2>9. /\ Changing(k) <=> Changing(task[t])
        /\ Changing(k) => k.base = task[t].base
        /\ k.id = task[t].id \/ (k.id = 0 /\ ~Coming(k))
        /\ Coming(k) => Coming(task[t])
        /\ Writing(k) => Writing(task[t]) /\ k.hist = task[t].hist
    BY <1>1, <2>1, <2>2, <2>3 DEF Changing
  <2>. QED
    BY <1>1, <2>1, <2>2, <2>3, <2>9, TaskGoesOn
<1>. QED
  BY <1>2, <1>3

LEMMA NextSwitchOff ==
    ASSUME ConsoleInv, NEW t \in Threads, NEW switch \in Switches, Console!SwitchOff(t, switch)
    PROVE  ConsoleInv'
<1>. DEFINE k == [task[t] EXCEPT !.phase = "switching", !.left = @ \ {switch}]
<1>1. /\ task[t].phase = "measuring" /\ task' = [task EXCEPT ![t] = k]
      /\ config' = task[t].base \cup {switch}
      /\ UNCHANGED <<disk, chosen, disturbed, history, ended, mixed, tasks>>
  BY DEF Console!SwitchOff, Console!In, Console!Goes
<1>2. /\ k \in TaskState /\ k.phase = "switching" /\ k.id = task[t].id /\ k.base = task[t].base
  BY TasksAre DEF TaskState, TaskPhases
<1>. HIDE DEF k
<1>3. ~Coming(k) /\ ~Writing(k)
  BY <1>2 DEF Coming, Writing
<1>4. t \in Console!Ablating
  BY <1>1 DEF Console!Ablating
<1>9. Changing(k) /\ Changing(task[t]) /\ (config' = config \/ t \in Console!Ablating)
  BY <1>1, <1>2, <1>4 DEF Changing
<1>5. SwitchesKept'
  BY <1>1, <1>2, <1>9, SwitchesStay
<1>6. NumberedOnce' /\ LatestKept'
  BY <1>1, <1>2, <1>3, HistoryStays
<1>7. task[t].base \subseteq Switches
  BY TasksAre DEF TaskState
<1>8. ConsoleTyped'
  BY <1>1, <1>2, <1>7 DEF ConsoleInv, ConsoleTyped
<1>. QED
  BY <1>5, <1>6, <1>8 DEF ConsoleInv

\* The last ablation that ends puts back what it copied.
LEMMA NextRestore ==
    ASSUME ConsoleInv, NEW t \in Threads, Console!Restore(t)
    PROVE  ConsoleInv'
<1>. DEFINE k == [Console!NoTask EXCEPT !.phase = "done"]
<1>1. /\ task[t].phase = "measuring" /\ task' = [task EXCEPT ![t] = k]
      /\ config' = task[t].base
      /\ UNCHANGED <<disk, chosen, disturbed, history, ended, mixed, tasks>>
  BY DEF Console!Restore, Console!In, Console!Goes, Console!PutBack
<1>2. k \in TaskState /\ k.phase = "done" /\ k.id = 0 /\ ~Coming(k) /\ ~Writing(k)
  BY EndedIsState
<1>. HIDE DEF k
<1>3. NumberedOnce' /\ LatestKept'
  BY <1>1, <1>2, HistoryStays
<1>4. task[t].base \subseteq Switches
  BY TasksAre DEF TaskState
<1>5. ConsoleTyped'
  BY <1>1, <1>2, <1>4 DEF ConsoleInv, ConsoleTyped
<1>6. SwitchesKept'
  <2>1. \A u \in Threads : task'[u] = IF u = t THEN k ELSE task[u]
    BY <1>1, TasksAre
  <2>2. t \in Console!Ablating
    BY <1>1 DEF Console!Ablating
  <2>3. SUFFICES ASSUME ~disturbed' PROVE SwitchesKept'
    BY DEF SwitchesKept
  <2>4. /\ disk = chosen /\ task[t].base = chosen
        /\ \A u \in Console!Ablating : u = t
    BY <1>1, <2>2, <2>3 DEF ConsoleInv, SwitchesKept
  <2>5. \A u \in Threads : task'[u].phase \notin {"measuring", "switching"}
    BY <1>2, <2>1, <2>4 DEF Console!Ablating
  <2>6. Console!Ablating' = {}
    BY <2>5 DEF Console!Ablating
  <2>. QED
    BY <1>1, <2>4, <2>6 DEF SwitchesKept
<1>. QED
  BY <1>3, <1>5, <1>6 DEF ConsoleInv

LEMMA NextMeasureFails ==
    ASSUME ConsoleInv, NEW t \in Threads, Console!MeasureFails(t)
    PROVE  ConsoleInv'
<1>. DEFINE k == [Console!NoTask EXCEPT !.phase = "error"]
<1>1. /\ disturbed' = TRUE /\ task' = [task EXCEPT ![t] = k]
      /\ UNCHANGED <<config, disk, chosen, history, ended, mixed, tasks>>
  BY DEF Console!MeasureFails, Console!In, Console!Goes
<1>2. k \in TaskState /\ k.phase = "error" /\ k.id = 0 /\ ~Coming(k) /\ ~Writing(k)
  BY EndedIsState
<1>. HIDE DEF k
<1>3. NumberedOnce' /\ LatestKept'
  BY <1>1, <1>2, HistoryStays
<1>4. ConsoleTyped'
  BY <1>1, <1>2 DEF ConsoleInv, ConsoleTyped
<1>5. SwitchesKept'
  BY <1>1 DEF SwitchesKept
<1>. QED
  BY <1>3, <1>4, <1>5 DEF ConsoleInv

\* What the operator switches is saved as it is chosen, if no ablation runs.
LEMMA NextApplySwitch ==
    ASSUME ConsoleInv, NEW switch \in Switches, Console!ApplySwitch(switch)
    PROVE  ConsoleInv'
<1>1. /\ config' = (config \ {switch}) \cup ({switch} \ config)
      /\ disk' = config'
      /\ chosen' = (chosen \ {switch}) \cup ({switch} \cap config')
      /\ disturbed' = (disturbed \/ Console!Ablating # {})
      /\ UNCHANGED <<history, ended, mixed, task, tasks>>
  BY DEF Console!ApplySwitch
<1>2. ConsoleTyped'
  BY <1>1 DEF ConsoleInv, ConsoleTyped
<1>3. NumberedOnce' /\ LatestKept'
  BY <1>1 DEF ConsoleInv, NumberedOnce, LatestKept
<1>4. Console!Ablating' = Console!Ablating
  BY <1>1 DEF Console!Ablating
<1>5. SwitchesKept'
  <2>1. SUFFICES ASSUME ~disturbed' PROVE SwitchesKept'
    BY DEF SwitchesKept
  <2>2. Console!Ablating = {} /\ config = chosen
    BY <1>1, <2>1 DEF ConsoleInv, SwitchesKept
  <2>3. \A s : s \in chosen' <=> s \in config'
    BY <1>1, <2>2
  <2>4. chosen' = config'
    BY <2>3
  <2>. QED
    BY <1>1, <1>4, <2>2, <2>4 DEF SwitchesKept
<1>. QED
  BY <1>2, <1>3, <1>5 DEF ConsoleInv

-----------------------------------------------------------------------------
(* Tasks and the history *)

\* A new task has a number that nothing had before.
LEMMA NextSubmit ==
    ASSUME ConsoleInv, NEW t \in Threads, NEW kind \in Kinds \cup {"ablation"},
           Console!Submit(t, kind)
    PROVE  ConsoleInv'
<1>. DEFINE k == [Console!NoTask EXCEPT !.phase = "waiting", !.kind = kind, !.id = tasks']
<1>1. /\ task[t].phase \in {"none", "done", "error"} /\ tasks' = tasks + 1
      /\ task' = [task EXCEPT ![t] = k]
      /\ config' = config /\ disk' = disk /\ chosen' = chosen /\ disturbed' = disturbed
      /\ history' = history /\ ended' = ended /\ mixed' = mixed
  BY DEF Console!Submit, Console!Goes
<1>2. tasks \in Nat /\ tasks' \in Nat /\ task \in [Threads -> TaskState]
  BY <1>1, TasksAre
<1>3. k \in TaskState /\ k.phase = "waiting" /\ k.id = tasks'
  BY <1>2, NoTaskIsState DEF TaskState, TaskPhases, Kind
<1>. HIDE DEF k
<1>4. \A u \in Threads : task'[u] = IF u = t THEN k ELSE task[u]
  BY <1>1, <1>2
<1>5. ~Writing(k) /\ ~Changing(k)
  BY <1>3 DEF Writing, Changing
<1>6. ~Changing(task[t])
  BY <1>1 DEF Changing
<1>7. (Changing(k) <=> Changing(task[t])) /\ (Changing(k) => k.base = task[t].base)
      /\ (config' = config \/ t \in Console!Ablating)
  BY <1>1, <1>5, <1>6
<1>8. SwitchesKept'
  BY <1>1, <1>3, <1>7, SwitchesStay
<1>9. ConsoleTyped'
  BY <1>1, <1>2, <1>3 DEF ConsoleInv, ConsoleTyped
<1>10. NumberedOnce /\ LatestKept
  BY DEF ConsoleInv
<1>11. \A u \in Threads : Writing(task'[u]) => Writing(task[u]) /\ task'[u].hist = task[u].hist
  BY <1>4, <1>5
<1>12. LatestKept'
  BY <1>1, <1>10, <1>11 DEF LatestKept
<1>13. NumberedOnce'
  <2>1. Ids(history) \subseteq Nat
    BY TasksAre, IdsAreNat
  <2>2. \A u \in Threads : task[u].id \in Nat /\ Ids(task[u].hist) \subseteq Nat
    BY TasksAre, IdsAreNat
  <2>7. \A i \in Nat : i <= tasks => i <= tasks' /\ i # tasks'
    BY <1>1, <1>2
  <2>8. \A i \in Ids(history) : i <= tasks' /\ i # tasks'
    BY <1>10, <2>1, <2>7 DEF NumberedOnce
  <2>9. \A u \in Threads : task[u].id <= tasks' /\ task[u].id # tasks'
    BY <1>10, <2>2, <2>7 DEF NumberedOnce
  <2>10. \A u \in Threads : Writing(task[u]) =>
             \A i \in Ids(task[u].hist) : i <= tasks' /\ i # tasks'
    BY <1>10, <2>2, <2>7 DEF NumberedOnce
  <2>3. /\ \A i \in Ids(history) : i <= tasks' /\ i # tasks'
        /\ \A u \in Threads : task[u].id <= tasks' /\ task[u].id # tasks'
        /\ \A u \in Threads : Writing(task[u]) =>
             \A i \in Ids(task[u].hist) : i <= tasks' /\ i # tasks'
    BY <2>8, <2>9, <2>10
  <2>4. NoneTwice(history) /\ \A i \in Ids(history) : i <= tasks'
    BY <1>10, <2>3 DEF NumberedOnce
  <2>5. \A u \in Threads :
           /\ task'[u].id <= tasks'
           /\ Coming(task'[u]) => task'[u].id \notin Ids(history)
           /\ Writing(task'[u]) =>
                NoneTwice(task'[u].hist) /\ \A i \in Ids(task'[u].hist) : i <= tasks'
    BY <1>2, <1>3, <1>4, <1>5, <1>10, <2>3 DEF NumberedOnce
  <2>6. \A u, v \in Threads :
           /\ Coming(task'[u]) /\ Coming(task'[v]) /\ u # v => task'[u].id # task'[v].id
           /\ Coming(task'[u]) /\ Writing(task'[v]) => task'[u].id \notin Ids(task'[v].hist)
    BY <1>3, <1>4, <1>5, <1>10, <2>3 DEF NumberedOnce
  <2>. QED
    BY <1>1, <2>4, <2>5, <2>6 DEF NumberedOnce
<1>. QED
  BY <1>8, <1>9, <1>12, <1>13 DEF ConsoleInv

\* What an evaluation has read is the history, until someone writes.
LEMMA NextReadHistory ==
    ASSUME ConsoleInv, NEW t \in Threads, Console!ReadHistory(t)
    PROVE  ConsoleInv'
<1>. DEFINE k == [task[t] EXCEPT !.phase = "appending", !.hist = history]
<1>1. /\ task[t].phase = "evaluated" /\ task' = [task EXCEPT ![t] = k]
      /\ config' = config /\ disk' = disk /\ chosen' = chosen /\ disturbed' = disturbed
      /\ history' = history /\ ended' = ended /\ mixed' = mixed /\ tasks' = tasks
  BY DEF Console!ReadHistory, Console!In, Console!Goes
<1>2. task \in [Threads -> TaskState] /\ history \in Seq(Entry) /\ task[t] \in TaskState
  BY TasksAre
<1>3. k \in TaskState /\ k.phase = "appending" /\ k.id = task[t].id /\ k.hist = history
  BY <1>2 DEF TaskState, TaskPhases
<1>. HIDE DEF k
<1>4. \A u \in Threads : task'[u] = IF u = t THEN k ELSE task[u]
  BY <1>1, <1>2
<1>5. Coming(task[t]) /\ ~Changing(k) /\ ~Changing(task[t])
  BY <1>1, <1>3 DEF Coming, Changing
<1>7. (Changing(k) <=> Changing(task[t])) /\ (Changing(k) => k.base = task[t].base)
      /\ (config' = config \/ t \in Console!Ablating)
  BY <1>1, <1>5
<1>8. SwitchesKept'
  BY <1>1, <1>3, <1>7, SwitchesStay
<1>9. ConsoleTyped'
  BY <1>1, <1>2, <1>3 DEF ConsoleInv, ConsoleTyped
<1>10. NumberedOnce /\ LatestKept
  BY DEF ConsoleInv
<1>11. \A u \in Threads :
         /\ Coming(task'[u]) => Coming(task[u]) /\ task'[u].id = task[u].id
         /\ Writing(task'[u]) => (Writing(task[u]) /\ task'[u].hist = task[u].hist)
                                   \/ task'[u].hist = history
         /\ task'[u].id = task[u].id
  BY <1>3, <1>4, <1>5
<1>12. LatestKept'
  BY <1>1, <1>10, <1>11 DEF LatestKept
<1>13. \A u \in Threads :
         /\ task'[u].id <= tasks
         /\ Coming(task'[u]) => task'[u].id \notin Ids(history)
         /\ Writing(task'[u]) =>
              NoneTwice(task'[u].hist) /\ \A i \in Ids(task'[u].hist) : i <= tasks
  BY <1>10, <1>11 DEF NumberedOnce
<1>14. \A u, v \in Threads :
         /\ Coming(task'[u]) /\ Coming(task'[v]) /\ u # v => task'[u].id # task'[v].id
         /\ Coming(task'[u]) /\ Writing(task'[v]) => task'[u].id \notin Ids(task'[v].hist)
  BY <1>10, <1>11 DEF NumberedOnce
<1>15. NumberedOnce'
  BY <1>1, <1>10, <1>13, <1>14 DEF NumberedOnce
<1>. QED
  BY <1>8, <1>9, <1>12, <1>15 DEF ConsoleInv

\* An entry is written behind what its evaluation has read.
LEMMA NextWriteHistory ==
    ASSUME ConsoleInv, NEW t \in Threads, Console!WriteHistory(t)
    PROVE  ConsoleInv'
<1>. DEFINE e == [kind |-> task[t].kind, id |-> task[t].id, score |-> task[t].score]
            m == Append(task[t].hist, e)
            k == [task[t] EXCEPT !.phase = "comparing", !.hist = m]
<1>1. /\ task[t].phase = "appending" /\ task' = [task EXCEPT ![t] = k]
      /\ history' = Console!Latest(m) /\ ended' = Append(ended, e)
      /\ mixed' = (mixed \/ \E i \in Threads \ {t} : task[i].phase = "appending")
      /\ config' = config /\ disk' = disk /\ chosen' = chosen /\ disturbed' = disturbed
      /\ tasks' = tasks
  BY DEF Console!WriteHistory, Console!In, Console!Goes, Console!Appended,
         Console!HistoryEntry
<1>2. /\ task \in [Threads -> TaskState] /\ ended \in Seq(Entry) /\ history \in Seq(Entry)
      /\ task[t] \in TaskState /\ task[t].hist \in Seq(Entry) /\ tasks \in Nat
  BY TasksAre
<1>3. e \in Entry /\ e.id = task[t].id
  BY <1>2 DEF TaskState, Entry
<1>. HIDE DEF e
<1>4. m \in Seq(Entry)
  BY <1>2, <1>3, AppendProperties
<1>. HIDE DEF m
<1>5. k \in TaskState /\ k.phase = "comparing" /\ k.id = task[t].id
  BY <1>2, <1>4 DEF TaskState, TaskPhases
<1>. HIDE DEF k
<1>6. \A u \in Threads : task'[u] = IF u = t THEN k ELSE task[u]
  BY <1>1, <1>2
<1>7. /\ Coming(task[t]) /\ Writing(task[t]) /\ ~Coming(k) /\ ~Writing(k)
      /\ ~Changing(k) /\ ~Changing(task[t])
  BY <1>1, <1>5 DEF Coming, Writing, Changing
<1>8. (Changing(k) <=> Changing(task[t])) /\ (Changing(k) => k.base = task[t].base)
      /\ (config' = config \/ t \in Console!Ablating)
  BY <1>1, <1>7
<1>9. SwitchesKept'
  BY <1>1, <1>5, <1>8, SwitchesStay
<1>10. NumberedOnce /\ LatestKept
  BY DEF ConsoleInv
<1>11. history' = Moods!Last(m, HistoryLength)
  BY <1>1, <1>4, LatestIsLast
<1>12. NoneTwice(task[t].hist) /\ e.id \notin Ids(task[t].hist)
  BY <1>3, <1>7, <1>10 DEF NumberedOnce
<1>13. NoneTwice(m) /\ Ids(m) \subseteq Ids(task[t].hist) \cup {e.id}
  BY <1>2, <1>3, <1>12, AppendedIds DEF m
<1>14. history' \in Seq(Entry) /\ NoneTwice(history')
       /\ Ids(history') \subseteq Ids(task[t].hist) \cup {e.id}
  BY <1>4, <1>11, <1>13, LatestIds
<1>15. ended' \in Seq(Entry)
  BY <1>1, <1>2, <1>3, AppendProperties
<1>16. ConsoleTyped'
  BY <1>1, <1>2, <1>5, <1>14, <1>15 DEF ConsoleInv, ConsoleTyped
<1>17. \A u \in Threads :
         /\ Coming(task'[u]) => u # t /\ Coming(task[u]) /\ task'[u].id = task[u].id
         /\ Writing(task'[u]) => u # t /\ Writing(task[u]) /\ task'[u].hist = task[u].hist
         /\ task'[u].id = task[u].id
  BY <1>5, <1>6, <1>7
<1>18. LatestKept'
  <2>1. SUFFICES ASSUME ~mixed' PROVE LatestKept'
    BY DEF LatestKept
  <2>2. ~mixed /\ \A u \in Threads : Writing(task[u]) => u = t
    BY <1>1, <2>1 DEF Writing
  <2>3. history = Moods!Last(ended, HistoryLength) /\ task[t].hist = history
    BY <1>7, <1>10, <2>2 DEF LatestKept
  <2>4. m = Append(Moods!Last(ended, HistoryLength), e)
    BY <2>3 DEF m
  <2>5. history' = Moods!Last(ended', HistoryLength)
    BY <1>1, <1>2, <1>3, <1>11, <2>4, KeepIsPositive, LastOfAppended
  <2>6. \A u \in Threads : ~Writing(task'[u])
    BY <1>17, <2>2
  <2>. QED
    BY <2>5, <2>6 DEF LatestKept
<1>19. \A i \in Ids(history') : i <= tasks
  BY <1>3, <1>7, <1>10, <1>14 DEF NumberedOnce
<1>20. \A u \in Threads :
         /\ task'[u].id <= tasks
         /\ Coming(task'[u]) => task'[u].id \notin Ids(history')
         /\ Writing(task'[u]) =>
              NoneTwice(task'[u].hist) /\ \A i \in Ids(task'[u].hist) : i <= tasks
  BY <1>3, <1>7, <1>10, <1>14, <1>17 DEF NumberedOnce
<1>21. \A u, v \in Threads :
         /\ Coming(task'[u]) /\ Coming(task'[v]) /\ u # v => task'[u].id # task'[v].id
         /\ Coming(task'[u]) /\ Writing(task'[v]) => task'[u].id \notin Ids(task'[v].hist)
  BY <1>10, <1>17 DEF NumberedOnce
<1>22. NumberedOnce'
  BY <1>1, <1>14, <1>19, <1>20, <1>21 DEF NumberedOnce
<1>. QED
  BY <1>9, <1>16, <1>18, <1>22 DEF ConsoleInv

-----------------------------------------------------------------------------

LEMMA NextOfConsole == ASSUME ConsoleInv, Console!Next PROVE ConsoleInv'
<1>1. ASSUME NEW t \in Threads, NEW kind \in Kinds \cup {"ablation"}, Console!Submit(t, kind)
      PROVE  ConsoleInv'
  BY <1>1, NextSubmit
<1>2. ASSUME NEW t \in Threads, Console!Start(t) PROVE ConsoleInv'
  BY <1>2, NextStart
<1>3. ASSUME NEW t \in Threads, NEW score \in {1, 2}, Console!Evaluate(t, score)
      PROVE  ConsoleInv'
  BY <1>3, NextEvaluate
<1>4. ASSUME NEW t \in Threads, Console!EvaluateFails(t) PROVE ConsoleInv'
  BY <1>4, NextEvaluateFails
<1>5. ASSUME NEW t \in Threads, Console!ReadHistory(t) PROVE ConsoleInv'
  BY <1>5, NextReadHistory
<1>6. ASSUME NEW t \in Threads, Console!WriteHistory(t) PROVE ConsoleInv'
  BY <1>6, NextWriteHistory
<1>7. ASSUME NEW t \in Threads, Console!Compare(t) PROVE ConsoleInv'
  BY <1>7, NextCompare
<1>8. ASSUME NEW t \in Threads, NEW switch \in Switches, Console!SwitchOff(t, switch)
      PROVE  ConsoleInv'
  BY <1>8, NextSwitchOff
<1>9. ASSUME NEW t \in Threads, Console!Measure(t) PROVE ConsoleInv'
  BY <1>9, NextMeasure
<1>10. ASSUME NEW t \in Threads, Console!MeasureFails(t) PROVE ConsoleInv'
  BY <1>10, NextMeasureFails
<1>11. ASSUME NEW t \in Threads, Console!Restore(t) PROVE ConsoleInv'
  BY <1>11, NextRestore
<1>12. ASSUME NEW switch \in Switches, Console!ApplySwitch(switch) PROVE ConsoleInv'
  BY <1>12, NextApplySwitch
<1>. QED
  BY <1>1, <1>2, <1>3, <1>4, <1>5, <1>6, <1>7, <1>8, <1>9, <1>10, <1>11, <1>12
  DEF Console!Next, Console!Ablation

LEMMA StutterConsole == ASSUME ConsoleInv, UNCHANGED consoleVars PROVE ConsoleInv'
BY DEF consoleVars, ConsoleInv, ConsoleTyped, SwitchesKept, NumberedOnce, LatestKept,
       Console!Ablating

LEMMA ConsoleMeans ==
    ASSUME ConsoleInv PROVE Console!ConfigPutBack /\ Console!HistoryInOrder
<1>1. Console!ConfigPutBack
  BY DEF ConsoleInv, SwitchesKept, Console!ConfigPutBack
<1>2. history \in Seq(Entry) /\ ended \in Seq(Entry)
  BY DEF ConsoleInv, ConsoleTyped
<1>3. Len(history) \in Nat /\ Len(ended) \in Nat /\ DOMAIN history = 1..Len(history)
  BY <1>2, LenProperties
<1>4. \A i, j \in DOMAIN history : i # j => history[i].id # history[j].id
  BY <1>3 DEF ConsoleInv, NumberedOnce, NoneTwice
<1>5. ASSUME ~mixed
      PROVE  /\ history = SubSeq(ended, Len(ended) - Len(history) + 1, Len(ended))
             /\ Len(history) = HistoryLength \/ Len(history) = Len(ended)
  <2>1. history = Moods!Last(ended, HistoryLength)
    BY <1>5 DEF ConsoleInv, LatestKept
  <2>2. Len(history) = IF Len(ended) > HistoryLength THEN HistoryLength ELSE Len(ended)
    BY <1>2, <2>1, KeepIsPositive, LastOfSeq
  <2>3. CASE Len(ended) > HistoryLength
    BY <1>3, <2>1, <2>2, <2>3, KeepIsPositive DEF Moods!Last
  <2>4. CASE ~(Len(ended) > HistoryLength)
    <3>1. Len(history) = Len(ended) /\ Len(ended) - Len(history) + 1 = 1
      BY <1>3, <2>2, <2>4
    <3>. QED
      BY <2>1, <2>4, <3>1 DEF Moods!Last
  <2>. QED
    BY <2>3, <2>4
<1>6. Console!HistoryInOrder
  BY <1>4, <1>5 DEF Console!HistoryInOrder
<1>. QED
  BY <1>1, <1>6

-----------------------------------------------------------------------------
(* What the console is bounded by *)

EntryKept(e) == e.kind \in Kinds /\ e.id \in 1..MaxTasks
AllKept(l) == \A i \in 1..Len(l) : EntryKept(l[i])

\* An evaluation is of a kind, and what it has read is a history.
TaskKept(k) ==
    /\ Coming(k) => /\ k.id \in 1..MaxTasks
                    /\ k.kind \in Kinds \/ (k.phase = "waiting" /\ k.kind = "ablation")
    /\ Writing(k) => AllKept(k.hist)
\* Who holds the semaphore.
Inside(k) == k.phase \notin {"none", "waiting", "done", "error"}

ConsoleBounded ==
    /\ tasks \in 0..MaxTasks
    /\ Len(history) <= HistoryLength /\ AllKept(history)
    /\ \A t \in Threads : TaskKept(task[t])
    /\ IsFiniteSet(Console!Running) /\ Cardinality(Console!Running) <= Concurrent

LEMMA ConsoleCounts ==
    MaxTasks \in Nat /\ HistoryLength \in Nat /\ HistoryLength # 0
    /\ Concurrent \in Nat /\ Concurrent # 0
BY ConstantsAssumption, BoundsAssumption DEF Console!WebTasksAssumption

LEMMA SameTally == \A S : Console!Cardinality(S) = Cardinality(S)
BY DEF Console!Cardinality, Cardinality

LEMMA BoundedStarts == Console!Init => ConsoleBounded
<1>. SUFFICES ASSUME Console!Init PROVE ConsoleBounded
  OBVIOUS
<1>1. history = <<>> /\ tasks = 0 /\ task = [t \in Threads |-> Console!NoTask]
  BY DEF Console!Init
<1>2. \A t \in Threads : task[t].phase = "none"
  BY <1>1, NoTaskIsState
<1>3. \A t \in Threads : TaskKept(task[t])
  BY <1>2 DEF TaskKept, Coming, Writing
<1>4. Console!Running = {}
  BY <1>2 DEF Console!Running
<1>5. IsFiniteSet(Console!Running) /\ Cardinality(Console!Running) = 0
  BY <1>4, FS_EmptySet
<1>6. Len(history) = 0
  BY <1>1
<1>7. AllKept(history)
  BY <1>6 DEF AllKept
<1>. QED
  BY <1>1, <1>3, <1>5, <1>6, <1>7, ConsoleCounts DEF ConsoleBounded

\* A task goes on, and takes the semaphore only if it may.
LEMMA BoundedGoesOn ==
    ASSUME ConsoleInv, ConsoleBounded, NEW t \in Threads, NEW k, task' = [task EXCEPT ![t] = k],
           TaskKept(k),
           Inside(k) => Inside(task[t]) \/ Cardinality(Console!Running) < Concurrent,
           tasks' \in 0..MaxTasks, Len(history') <= HistoryLength, AllKept(history')
    PROVE  ConsoleBounded'
<1>1. \A u \in Threads : task'[u] = IF u = t THEN k ELSE task[u]
  BY TasksAre
<1>2. \A u \in Threads : TaskKept(task'[u])
  BY <1>1 DEF ConsoleBounded
<1>. DEFINE R == Console!Running
            S == Console!Running'
<1>3. R = {u \in Threads : Inside(task[u])} /\ S = {u \in Threads : Inside(task'[u])}
  BY DEF Console!Running, Inside
<1>4. IsFiniteSet(R) /\ Cardinality(R) \in Nat /\ Cardinality(R) <= Concurrent
  BY FS_CardinalityType DEF ConsoleBounded
<1>. HIDE DEF R, S
<1>5. CASE ~Inside(k) \/ Inside(task[t])
  <2>1. S \subseteq R
    BY <1>1, <1>3, <1>5
  <2>2. IsFiniteSet(S) /\ Cardinality(S) <= Cardinality(R) /\ Cardinality(S) \in Nat
    BY <1>4, <2>1, FS_Subset, FS_CardinalityType
  <2>3. Cardinality(S) <= Concurrent
    BY <1>4, <2>2, ConsoleCounts
  <2>. QED
    BY <1>2, <2>2, <2>3 DEF ConsoleBounded, S
<1>6. CASE Inside(k) /\ ~Inside(task[t])
  <2>1. S = R \cup {t} /\ t \notin R
    BY <1>1, <1>3, <1>6
  <2>2. IsFiniteSet(S) /\ Cardinality(S) = Cardinality(R) + 1
    BY <1>4, <2>1, FS_AddElement
  <2>3. Cardinality(R) < Concurrent
    BY <1>6 DEF R
  <2>4. Cardinality(S) <= Concurrent
    BY <1>4, <2>2, <2>3, ConsoleCounts
  <2>. QED
    BY <1>2, <2>2, <2>4 DEF ConsoleBounded, S
<1>. QED
  BY <1>5, <1>6

LEMMA BoundedStays ==
    ASSUME ConsoleInv, ConsoleBounded, NEW t \in Threads, NEW k, task' = [task EXCEPT ![t] = k],
           TaskKept(k),
           Inside(k) => Inside(task[t]) \/ Cardinality(Console!Running) < Concurrent,
           tasks' = tasks, history' = history
    PROVE  ConsoleBounded'
<1>1. tasks' \in 0..MaxTasks /\ Len(history') <= HistoryLength /\ AllKept(history')
  BY DEF ConsoleBounded
<1>. QED
  BY <1>1, BoundedGoesOn

\* A task that is over is bounded by nothing.
LEMMA OverIsKept == ASSUME NEW p \in {"done", "error"}, NEW k, k = [Console!NoTask EXCEPT !.phase = p]
                    PROVE  TaskKept(k) /\ ~Inside(k)
BY EndedIsState DEF TaskKept, Inside

LEMMA SubmitBounded ==
    ASSUME ConsoleInv, ConsoleBounded, NEW t \in Threads, NEW kind \in Kinds \cup {"ablation"},
           Console!Submit(t, kind)
    PROVE  ConsoleBounded'
<1>. DEFINE k == [Console!NoTask EXCEPT !.phase = "waiting", !.kind = kind, !.id = tasks']
<1>1. tasks < MaxTasks /\ tasks' = tasks + 1 /\ task' = [task EXCEPT ![t] = k] /\ history' = history
  BY DEF Console!Submit, Console!Goes
<1>2. tasks \in 0..MaxTasks /\ Len(history') <= HistoryLength /\ AllKept(history')
  BY <1>1 DEF ConsoleBounded
<1>3. tasks' \in 1..MaxTasks /\ tasks' \in 0..MaxTasks
  BY <1>1, <1>2, ConsoleCounts
<1>4. k.phase = "waiting" /\ k.kind = kind /\ k.id = tasks'
  BY DEF Console!NoTask
<1>. HIDE DEF k
<1>5. TaskKept(k) /\ ~Inside(k)
  BY <1>3, <1>4 DEF TaskKept, Coming, Writing, Inside
<1>. QED
  BY <1>1, <1>2, <1>3, <1>5, BoundedGoesOn

LEMMA StartBounded ==
    ASSUME ConsoleInv, ConsoleBounded, NEW t \in Threads, Console!Start(t)
    PROVE  ConsoleBounded'
<1>1. /\ task[t].phase = "waiting" /\ Cardinality(Console!Running) < Concurrent
      /\ tasks' = tasks /\ history' = history
  BY SameTally DEF Console!Start, Console!In
<1>2. TaskKept(task[t]) /\ task[t] \in TaskState
  BY TasksAre DEF ConsoleBounded
<1>3. CASE task[t].kind = "ablation"
  <2>. DEFINE k == [task[t] EXCEPT !.phase = "measuring", !.base = config, !.left = Switches]
  <2>1. task' = [task EXCEPT ![t] = k]
    BY <1>3 DEF Console!Start, Console!Goes, Console!Ablation
  <2>2. k.phase = "measuring"
    BY <1>2 DEF TaskState
  <2>. HIDE DEF k
  <2>3. TaskKept(k)
    BY <2>2 DEF TaskKept, Coming, Writing
  <2>. QED
    BY <1>1, <2>1, <2>3, BoundedStays
<1>4. CASE task[t].kind # "ablation"
  <2>. DEFINE k == [task[t] EXCEPT !.phase = "evaluating"]
  <2>1. task' = [task EXCEPT ![t] = k]
    BY <1>4 DEF Console!Start, Console!Goes, Console!Ablation
  <2>2. k.phase = "evaluating" /\ k.id = task[t].id /\ k.kind = task[t].kind
    BY <1>2 DEF TaskState
  <2>. HIDE DEF k
  <2>3. TaskKept(k)
    BY <1>1, <1>2, <1>4, <2>2 DEF TaskKept, Coming, Writing
  <2>. QED
    BY <1>1, <2>1, <2>3, BoundedStays
<1>. QED
  BY <1>3, <1>4

\* An evaluation, which has the semaphore, goes on.
LEMMA EvaluationBounded ==
    ASSUME ConsoleInv, ConsoleBounded, NEW t \in Threads,
           (\E score \in {1, 2} : Console!Evaluate(t, score)) \/ Console!ReadHistory(t)
    PROVE  ConsoleBounded'
<1>1. TaskKept(task[t]) /\ task[t] \in TaskState /\ AllKept(history)
  BY TasksAre DEF ConsoleBounded
<1>2. ASSUME NEW score \in {1, 2}, Console!Evaluate(t, score) PROVE ConsoleBounded'
  <2>. DEFINE k == [task[t] EXCEPT !.phase = "evaluated", !.score = score]
  <2>1. task[t].phase = "evaluating" /\ task' = [task EXCEPT ![t] = k]
        /\ tasks' = tasks /\ history' = history
    BY <1>2 DEF Console!Evaluate, Console!In, Console!Goes
  <2>2. k.phase = "evaluated" /\ k.id = task[t].id /\ k.kind = task[t].kind
    BY <1>1 DEF TaskState
  <2>. HIDE DEF k
  <2>3. TaskKept(k) /\ Inside(task[t])
    BY <1>1, <2>1, <2>2 DEF TaskKept, Coming, Writing, Inside
  <2>. QED
    BY <2>1, <2>3, BoundedStays
<1>3. CASE Console!ReadHistory(t)
  <2>. DEFINE k == [task[t] EXCEPT !.phase = "appending", !.hist = history]
  <2>1. task[t].phase = "evaluated" /\ task' = [task EXCEPT ![t] = k]
        /\ tasks' = tasks /\ history' = history
    BY <1>3 DEF Console!ReadHistory, Console!In, Console!Goes
  <2>2. k.phase = "appending" /\ k.id = task[t].id /\ k.kind = task[t].kind /\ k.hist = history
    BY <1>1 DEF TaskState
  <2>. HIDE DEF k
  <2>3. TaskKept(k) /\ Inside(task[t])
    BY <1>1, <2>1, <2>2 DEF TaskKept, Coming, Writing, Inside
  <2>. QED
    BY <2>1, <2>3, BoundedStays
<1>. QED
  BY <1>2, <1>3

LEMMA WriteHistoryBounded ==
    ASSUME ConsoleInv, ConsoleBounded, NEW t \in Threads, Console!WriteHistory(t)
    PROVE  ConsoleBounded'
<1>. DEFINE e == [kind |-> task[t].kind, id |-> task[t].id, score |-> task[t].score]
            l == task[t].hist
            m == Append(l, e)
            k == [task[t] EXCEPT !.phase = "comparing", !.hist = m]
<1>1. /\ task[t].phase = "appending" /\ task' = [task EXCEPT ![t] = k]
      /\ history' = Console!Latest(m) /\ tasks' = tasks
  BY DEF Console!WriteHistory, Console!In, Console!Goes, Console!Appended,
         Console!HistoryEntry
<1>2. task[t] \in TaskState /\ l \in Seq(Entry) /\ TaskKept(task[t]) /\ tasks \in 0..MaxTasks
  BY TasksAre DEF ConsoleBounded
<1>3. e \in Entry /\ EntryKept(e) /\ AllKept(l)
  <2>1. Coming(task[t]) /\ Writing(task[t])
    BY <1>1 DEF Coming, Writing
  <2>2. AllKept(l) /\ task[t].id \in 1..MaxTasks /\ task[t].kind \in Kinds
    BY <1>1, <1>2, <2>1 DEF TaskKept
  <2>3. e \in Entry
    BY <1>2 DEF TaskState, Entry
  <2>4. e.id = task[t].id /\ e.kind = task[t].kind
    OBVIOUS
  <2>. QED
    BY <2>2, <2>3, <2>4 DEF EntryKept
<1>4. k.phase = "comparing"
  BY <1>2 DEF TaskState
<1>. HIDE DEF k
<1>5. TaskKept(k) /\ Inside(task[t])
  BY <1>1, <1>4 DEF TaskKept, Coming, Writing, Inside
<1>. HIDE DEF e, l
<1>6. /\ m \in Seq(Entry) /\ Len(m) = Len(l) + 1 /\ Len(l) \in Nat /\ m[Len(m)] = e
      /\ \A i \in 1..Len(l) : m[i] = l[i]
  BY <1>2, <1>3, AppendProperties, LenProperties
<1>. HIDE DEF m
<1>7. AllKept(m)
  <2>. SUFFICES ASSUME NEW i \in 1..Len(m) PROVE EntryKept(m[i])
    BY DEF AllKept
  <2>1. i \in 1..Len(l) \/ i = Len(m)
    BY <1>6
  <2>2. i \in 1..Len(l) => EntryKept(m[i])
    BY <1>3, <1>6 DEF AllKept
  <2>. QED
    BY <1>3, <1>6, <2>1, <2>2
<1>. DEFINE h == Moods!Last(m, HistoryLength)
<1>8. history' = h
  BY <1>1, <1>6, LatestIsLast
<1>9. /\ h \in Seq(Entry) /\ Len(h) = IF Len(m) > HistoryLength THEN HistoryLength ELSE Len(m)
      /\ \A i \in 1..Len(h) : Len(m) - Len(h) + i \in 1..Len(m) /\ h[i] = m[Len(m) - Len(h) + i]
  BY <1>6, LastOfSeq, ConsoleCounts
<1>. HIDE DEF h
<1>10. Len(h) <= HistoryLength
  BY <1>6, <1>9, ConsoleCounts
<1>11. AllKept(h)
  BY <1>7, <1>9 DEF AllKept
<1>12. Len(history') <= HistoryLength /\ AllKept(history') /\ tasks' \in 0..MaxTasks
  BY <1>1, <1>2, <1>8, <1>10, <1>11
<1>. QED
  BY <1>1, <1>5, <1>12, BoundedGoesOn

\* What ends.
LEMMA EndsBounded ==
    ASSUME ConsoleInv, ConsoleBounded, NEW t \in Threads,
           Console!EvaluateFails(t) \/ Console!Compare(t) \/ Console!MeasureFails(t)
             \/ Console!Restore(t)
    PROVE  ConsoleBounded'
<1>1. /\ tasks' = tasks /\ history' = history
      /\ \E p \in {"done", "error"} : task' = [task EXCEPT ![t] = [Console!NoTask EXCEPT !.phase = p]]
  BY DEF Console!EvaluateFails, Console!Compare, Console!MeasureFails, Console!Restore, Console!Goes
<1>2. PICK p \in {"done", "error"} : task' = [task EXCEPT ![t] = [Console!NoTask EXCEPT !.phase = p]]
  BY <1>1
<1>. DEFINE k == [Console!NoTask EXCEPT !.phase = p]
<1>3. task' = [task EXCEPT ![t] = k]
  BY <1>2
<1>4. TaskKept(k) /\ ~Inside(k)
  BY OverIsKept
<1>. HIDE DEF k
<1>. QED
  BY <1>1, <1>3, <1>4, BoundedStays

\* An ablation switches and measures.
LEMMA AblationBounded ==
    ASSUME ConsoleInv, ConsoleBounded, NEW t \in Threads,
           (\E switch \in Switches : Console!SwitchOff(t, switch)) \/ Console!Measure(t)
    PROVE  ConsoleBounded'
<1>1. task[t] \in TaskState
  BY TasksAre
<1>2. ASSUME NEW switch \in Switches, Console!SwitchOff(t, switch) PROVE ConsoleBounded'
  <2>. DEFINE k == [task[t] EXCEPT !.phase = "switching", !.left = task[t].left \ {switch}]
  <2>1. task[t].phase = "measuring" /\ task' = [task EXCEPT ![t] = k]
        /\ tasks' = tasks /\ history' = history
    BY <1>2 DEF Console!SwitchOff, Console!In, Console!Goes
  <2>2. k.phase = "switching"
    BY <1>1 DEF TaskState
  <2>. HIDE DEF k
  <2>3. TaskKept(k) /\ Inside(task[t])
    BY <2>1, <2>2 DEF TaskKept, Coming, Writing, Inside
  <2>. QED
    BY <2>1, <2>3, BoundedStays
<1>3. CASE Console!Measure(t)
  <2>. DEFINE k == [task[t] EXCEPT !.phase = "measuring"]
  <2>1. task[t].phase = "switching" /\ task' = [task EXCEPT ![t] = k]
        /\ tasks' = tasks /\ history' = history
    BY <1>3 DEF Console!Measure, Console!In, Console!Goes
  <2>2. k.phase = "measuring"
    BY <1>1 DEF TaskState
  <2>. HIDE DEF k
  <2>3. TaskKept(k) /\ Inside(task[t])
    BY <2>1, <2>2 DEF TaskKept, Coming, Writing, Inside
  <2>. QED
    BY <2>1, <2>3, BoundedStays
<1>. QED
  BY <1>2, <1>3

LEMMA NothingRuns ==
    ASSUME ConsoleBounded, tasks' = tasks, history' = history, task' = task PROVE ConsoleBounded'
<1>1. Console!Running' = Console!Running
  BY DEF Console!Running
<1>. QED
  BY <1>1 DEF ConsoleBounded

LEMMA NextBounded == ASSUME ConsoleInv, ConsoleBounded, Console!Next PROVE ConsoleBounded'
<1>1. ASSUME NEW switch \in Switches, Console!ApplySwitch(switch) PROVE ConsoleBounded'
  BY <1>1, NothingRuns DEF Console!ApplySwitch
<1>. QED
  BY <1>1, SubmitBounded, StartBounded, EvaluationBounded, WriteHistoryBounded, EndsBounded,
     AblationBounded DEF Console!Next, Console!Ablation

LEMMA StutterBounded == ASSUME ConsoleBounded, UNCHANGED consoleVars PROVE ConsoleBounded'
BY NothingRuns DEF consoleVars

LEMMA BoundedMeans == ASSUME ConsoleInv, ConsoleBounded PROVE Console!TypeOK
<1>1. Console!Cardinality(Console!Running) <= Concurrent
  BY SameTally DEF ConsoleBounded
<1>2. DOMAIN history = 1..Len(history)
  BY LenProperties DEF ConsoleInv, ConsoleTyped
<1>. QED
  BY <1>1, <1>2 DEF ConsoleInv, ConsoleTyped, ConsoleBounded, AllKept, EntryKept, Console!TypeOK

-----------------------------------------------------------------------------
(* Lists of mistakes *)

Mistake == [cat : Moods!Categories, count : Nat, apologies : Nat,
            status : {"active", "forgiven"}]

\* The places of a list that are of a category.
Those(l, c) == {i \in 1..Len(l) : l[i].cat = c}

\* A list blames the user for no more than n mistakes of a category.
Within(l, c, n) ==
    /\ Cardinality(Those(l, c)) <= n
    /\ \A i \in Those(l, c) : l[i].count <= n
    /\ \A i, j \in Those(l, c) : i # j => l[i].count + l[j].count <= n

LEMMA ThoseAreFew ==
    ASSUME NEW l \in Seq(Mistake), NEW c
    PROVE  /\ Len(l) \in Nat /\ IsFiniteSet(Those(l, c)) /\ Cardinality(Those(l, c)) \in Nat
           /\ Those(l, c) \subseteq 1..Len(l)
           /\ \A i \in 1..Len(l) : l[i] \in Mistake /\ l[i].count \in Nat
<1>1. Len(l) \in Nat /\ Those(l, c) \subseteq 1..Len(l)
  BY LenProperties DEF Those
<1>2. IsFiniteSet(1..Len(l))
  BY <1>1, FS_Interval
<1>3. IsFiniteSet(Those(l, c))
  BY <1>1, <1>2, FS_Subset
<1>4. Cardinality(Those(l, c)) \in Nat
  BY <1>3, FS_CardinalityType
<1>5. \A i \in 1..Len(l) : l[i] \in Mistake
  BY ElementOfSeq
<1>6. \A i \in 1..Len(l) : l[i].count \in Nat
  BY <1>5 DEF Mistake
<1>. QED
  BY <1>1, <1>3, <1>4, <1>5, <1>6

LEMMA WithinMore ==
    ASSUME NEW l \in Seq(Mistake), NEW c, NEW n \in Int, NEW m \in Int, n <= m, Within(l, c, n)
    PROVE  Within(l, c, m) /\ n >= 0
<1>1. /\ Cardinality(Those(l, c)) \in Nat /\ Those(l, c) \subseteq 1..Len(l)
      /\ \A i \in Those(l, c) : l[i].count \in Nat
  BY ThoseAreFew
<1>2. Cardinality(Those(l, c)) <= m /\ n >= 0
  BY <1>1 DEF Within
<1>3. \A i \in Those(l, c) : l[i].count <= m
  BY <1>1 DEF Within
<1>4. \A i, j \in Those(l, c) : i # j => l[i].count + l[j].count <= m
  <2>. SUFFICES ASSUME NEW i \in Those(l, c), NEW j \in Those(l, c), i # j
                PROVE  l[i].count + l[j].count <= m
    OBVIOUS
  <2>1. l[i].count + l[j].count <= n
    BY DEF Within
  <2>. QED
    BY <1>1, <2>1
<1>. QED
  BY <1>2, <1>3, <1>4 DEF Within

LEMMA WithinNothing ==
    ASSUME NEW c, NEW n \in Nat PROVE <<>> \in Seq(Mistake) /\ Within(<<>>, c, n)
<1>1. <<>> \in Seq(Mistake) /\ Len(<<>>) = 0
  BY EmptySeq
<1>2. Those(<<>>, c) = {}
  BY <1>1 DEF Those
<1>. QED
  BY <1>1, <1>2, FS_EmptySet DEF Within

LessThan == {ss \in Nat \X Nat : ss[1] < ss[2]}

\* The first of some places.
LEMMA FirstOfThem ==
    ASSUME NEW S \in SUBSET Nat, S # {}
    PROVE  \E i \in S : \A j \in S : i <= j
<1>1. IsWellFoundedOn(LessThan, Nat)
  <2>1. OpToRel(<, Nat) = LessThan
    BY DEF OpToRel, LessThan
  <2>. QED
    BY <2>1, NatLessThanWellFounded
<1>2. PICK x \in S : \A y \in S : <<y, x>> \notin LessThan
  BY <1>1, WFMin, Zenon
<1>3. \A y \in Nat, z \in Nat : y < z => <<y, z>> \in LessThan
  BY DEF LessThan
<1>4. \A y \in S : ~(y < x)
  BY <1>2, <1>3
<1>5. \A y \in S : x <= y
  BY <1>2, <1>4
<1>. QED
  BY <1>2, <1>5

\* What is recorded is a mistake more of its category.
LEMMA RecordedNew ==
    ASSUME NEW l \in Seq(Mistake), NEW c \in Moods!Categories, NEW d, NEW n \in Int,
           Within(l, d, n)
    PROVE  LET r == [cat |-> c, count |-> 1, apologies |-> 0, status |-> "active"]
           IN  /\ Append(l, r) \in Seq(Mistake)
               /\ Within(Append(l, r), d, IF c = d THEN n + 1 ELSE n)
<1>. DEFINE r == [cat |-> c, count |-> 1, apologies |-> 0, status |-> "active"]
            m == Append(l, r)
<1>1. r \in Mistake /\ r.cat = c /\ r.count = 1
  BY DEF Mistake
<1>. HIDE DEF r
<1>2. /\ Len(l) \in Nat /\ m \in Seq(Mistake) /\ Len(m) = Len(l) + 1
      /\ \A i \in 1..Len(l) : m[i] = l[i]
      /\ m[Len(l) + 1] = r
  BY <1>1, AppendProperties, LenProperties
<1>. HIDE DEF m
<1>3. /\ IsFiniteSet(Those(l, d)) /\ Cardinality(Those(l, d)) \in Nat
      /\ Those(l, d) \subseteq 1..Len(l) /\ \A i \in 1..Len(l) : l[i].count \in Nat
  BY ThoseAreFew
<1>4. \A i \in 1..Len(m) : i \in 1..Len(l) \/ i = Len(l) + 1
  BY <1>2
<1>5. \A i \in 1..Len(l) : i \in 1..Len(m) /\ i # Len(l) + 1
  BY <1>2
<1>6. Len(l) + 1 \in 1..Len(m)
  BY <1>2
<1>7. CASE c # d
  <2>1. Those(m, d) = Those(l, d)
    BY <1>1, <1>2, <1>4, <1>5, <1>7 DEF Those
  <2>2. \A i \in Those(m, d) : m[i] = l[i]
    BY <1>2, <1>3, <2>1
  <2>3. Within(m, d, n)
    BY <2>1, <2>2 DEF Within
  <2>. QED
    BY <1>2, <1>7, <2>3 DEF m, r
<1>8. CASE c = d
  <2>1. Those(m, d) = Those(l, d) \cup {Len(l) + 1}
    BY <1>1, <1>2, <1>4, <1>5, <1>6, <1>8 DEF Those
  <2>2. Len(l) + 1 \notin Those(l, d)
    BY <1>3, <1>5
  <2>3. Cardinality(Those(m, d)) = Cardinality(Those(l, d)) + 1
    BY <1>3, <2>1, <2>2, FS_AddElement
  <2>4. Cardinality(Those(l, d)) <= n /\ n >= 0
    BY <1>3 DEF Within
  <2>5. Cardinality(Those(m, d)) <= n + 1
    BY <1>3, <2>3, <2>4
  <2>6. \A i \in Those(l, d) : m[i].count = l[i].count /\ l[i].count <= n /\ l[i].count \in Nat
    BY <1>2, <1>3 DEF Within
  <2>7. m[Len(l) + 1].count = 1
    BY <1>1, <1>2
  <2>8. \A i \in Those(m, d) : m[i].count <= n + 1
    BY <2>1, <2>4, <2>6, <2>7
  <2>9. ASSUME NEW i \in Those(m, d), NEW j \in Those(m, d), i # j
        PROVE  m[i].count + m[j].count <= n + 1
    <3>1. CASE i \in Those(l, d) /\ j \in Those(l, d)
      <4>1. l[i].count + l[j].count <= n
        BY <2>9, <3>1 DEF Within
      <4>. DEFINE a == l[i].count
                  b == l[j].count
                  x == m[i].count
                  y == m[j].count
      <4>2. a + b <= n
        BY <4>1
      <4>3. a \in Nat /\ b \in Nat /\ x = a /\ y = b
        BY <2>6, <3>1
      <4>. HIDE DEF a, b, x, y
      <4>4. x + y <= n + 1
        BY <4>2, <4>3
      <4>. QED
        BY <4>4 DEF x, y
    <3>2. CASE i \in Those(l, d) /\ j = Len(l) + 1
      <4>. DEFINE x == m[i].count
                  y == m[j].count
      <4>1. y = 1 /\ x <= n /\ x \in Nat
        BY <2>6, <2>7, <3>2
      <4>. HIDE DEF x, y
      <4>2. x + y <= n + 1
        BY <4>1
      <4>. QED
        BY <4>2 DEF x, y
    <3>3. CASE i = Len(l) + 1 /\ j \in Those(l, d)
      <4>. DEFINE x == m[i].count
                  y == m[j].count
      <4>1. x = 1 /\ y <= n /\ y \in Nat
        BY <2>6, <2>7, <3>3
      <4>. HIDE DEF x, y
      <4>2. x + y <= n + 1
        BY <4>1
      <4>. QED
        BY <4>2 DEF x, y
    <3>. QED
      BY <2>1, <2>9, <3>1, <3>2, <3>3
  <2>10. Within(m, d, n + 1)
    BY <2>5, <2>8, <2>9 DEF Within
  <2>. QED
    BY <1>2, <1>8, <2>10 DEF m, r
<1>. QED
  BY <1>7, <1>8

LEMMA RecordedAgain ==
    ASSUME NEW l \in Seq(Mistake), NEW c \in Moods!Categories, NEW d, NEW n \in Int,
           Within(l, d, n), NEW a \in 1..Len(l), l[a].cat = c
    PROVE  /\ [l EXCEPT ![a].count = @ + 1] \in Seq(Mistake)
           /\ Within([l EXCEPT ![a].count = @ + 1], d, IF c = d THEN n + 1 ELSE n)
<1>. DEFINE r == [l[a] EXCEPT !.count = l[a].count + 1]
            m == [l EXCEPT ![a] = r]
<1>1. /\ Len(l) \in Nat /\ \A i \in 1..Len(l) : l[i] \in Mistake /\ l[i].count \in Nat
      /\ Cardinality(Those(l, d)) \in Nat /\ Those(l, d) \subseteq 1..Len(l)
  BY ThoseAreFew
<1>9. l[a] \in Mistake /\ l[a].count + 1 \in Nat
  BY <1>1
<1>2. r \in Mistake /\ r.cat = c /\ r.count = l[a].count + 1
  BY <1>9 DEF Mistake
<1>3. [l EXCEPT ![a].count = @ + 1] = m
  OBVIOUS
<1>. HIDE DEF r
<1>4. /\ m \in Seq(Mistake) /\ Len(m) = Len(l)
      /\ \A i \in 1..Len(l) : m[i] = IF i = a THEN r ELSE l[i]
  BY <1>2, ExceptSeq
<1>. HIDE DEF m
<1>5. \A i \in 1..Len(l) : m[i].cat = l[i].cat
  BY <1>2, <1>4
<1>6. Those(m, d) = Those(l, d)
  BY <1>4, <1>5 DEF Those
<1>7. CASE c # d
  <2>1. a \notin Those(l, d)
    BY <1>7 DEF Those
  <2>2. \A i \in Those(l, d) : m[i] = l[i]
    BY <1>1, <1>4, <2>1
  <2>3. Within(m, d, n)
    BY <1>6, <2>2 DEF Within
  <2>. QED
    BY <1>3, <1>4, <1>7, <2>3
<1>8. CASE c = d
  <2>1. Cardinality(Those(l, d)) <= n /\ n >= 0
    BY <1>1 DEF Within
  <2>2. Cardinality(Those(m, d)) <= n + 1
    BY <1>1, <1>6, <2>1
  <2>3. \A i \in Those(l, d) : /\ m[i].count = IF i = a THEN l[i].count + 1 ELSE l[i].count
                               /\ l[i].count <= n /\ l[i].count \in Nat
    BY <1>1, <1>2, <1>4 DEF Within
  <2>4. \A i \in Those(m, d) : m[i].count <= n + 1
    BY <1>6, <2>3
  <2>5. ASSUME NEW i \in Those(m, d), NEW j \in Those(m, d), i # j
        PROVE  m[i].count + m[j].count <= n + 1
    <3>1. l[i].count + l[j].count <= n
      BY <1>6, <2>5 DEF Within
    <3>2. i # a \/ j # a
      BY <2>5
    <3>3. CASE i # a
      BY <1>6, <2>3, <2>5, <3>1, <3>3
    <3>4. CASE j # a
      BY <1>6, <2>3, <2>5, <3>1, <3>4
    <3>. QED
      BY <3>2, <3>3, <3>4
  <2>6. Within(m, d, n + 1)
    BY <2>2, <2>4, <2>5 DEF Within
  <2>. QED
    BY <1>3, <1>4, <1>8, <2>6
<1>. QED
  BY <1>7, <1>8

LEMMA RecordedWithin ==
    ASSUME NEW l \in Seq(Mistake), NEW c \in Moods!Categories, NEW d, NEW n \in Int,
           Within(l, d, n)
    PROVE  /\ Moods!Recorded(l, c) \in Seq(Mistake)
           /\ Within(Moods!Recorded(l, c), d, IF c = d THEN n + 1 ELSE n)
<1>. DEFINE active == {i \in DOMAIN l : l[i].cat = c /\ l[i].status = "active"}
            first == CHOOSE i \in active : \A j \in active : i <= j
<1>1. Moods!Recorded(l, c) =
        IF active = {}
        THEN Append(l, [cat |-> c, count |-> 1, apologies |-> 0, status |-> "active"])
        ELSE [l EXCEPT ![first].count = @ + 1]
  BY DEF Moods!Recorded
<1>2. DOMAIN l = 1..Len(l) /\ Len(l) \in Nat
  BY LenProperties
<1>3. CASE active = {}
  BY <1>1, <1>3, RecordedNew
<1>4. CASE active # {}
  <2>1. active \in SUBSET Nat
    BY <1>2
  <2>. HIDE DEF active
  <2>2. first \in active
    BY <1>4, <2>1, FirstOfThem
  <2>3. first \in 1..Len(l) /\ l[first].cat = c
    BY <1>2, <2>2 DEF active
  <2>. HIDE DEF first
  <2>. QED
    BY <1>1, <1>4, <2>3, RecordedAgain
<1>. QED
  BY <1>3, <1>4

LEMMA ApologizedWithin ==
    ASSUME NEW l \in Seq(Mistake), NEW forgiven
    PROVE  /\ Moods!Apologized(l, forgiven) \in Seq(Mistake)
           /\ \A d, n : Within(l, d, n) => Within(Moods!Apologized(l, forgiven), d, n)
<1>. DEFINE r(i) == IF l[i].status # "active" THEN l[i]
                    ELSE [l[i] EXCEPT !.apologies = @ + 1,
                                      !.status = IF i \in forgiven THEN "forgiven" ELSE @]
            m == [i \in DOMAIN l |-> r(i)]
<1>1. Moods!Apologized(l, forgiven) = m
  BY DEF Moods!Apologized
<1>2. DOMAIN l = 1..Len(l) /\ Len(l) \in Nat /\ \A i \in 1..Len(l) : l[i] \in Mistake
  BY LenProperties, ElementOfSeq
<1>3. \A i \in 1..Len(l) : r(i) \in Mistake /\ r(i).cat = l[i].cat /\ r(i).count = l[i].count
  <2>. SUFFICES ASSUME NEW i \in 1..Len(l)
                PROVE  r(i) \in Mistake /\ r(i).cat = l[i].cat /\ r(i).count = l[i].count
    OBVIOUS
  <2>. DEFINE was == l[i]
              said == IF i \in forgiven THEN "forgiven" ELSE was.status
  <2>1. was \in Mistake
    BY <1>2
  <2>2. r(i) = IF was.status # "active" THEN was
               ELSE [was EXCEPT !.apologies = was.apologies + 1, !.status = said]
    OBVIOUS
  <2>3. was.apologies + 1 \in Nat /\ said \in {"active", "forgiven"}
    BY <2>1 DEF Mistake
  <2>. HIDE DEF r, was, said
  <2>4. r(i) \in Mistake /\ r(i).cat = was.cat /\ r(i).count = was.count
    BY <2>1, <2>2, <2>3 DEF Mistake
  <2>. QED
    BY <2>4 DEF was
<1>. HIDE DEF r
<1>4. m \in [1..Len(l) -> Mistake]
  BY <1>2, <1>3
<1>5. m \in Seq(Mistake)
  BY <1>2, <1>4, SeqDef
<1>6. \A i \in 1..Len(l) : m[i].cat = l[i].cat /\ m[i].count = l[i].count
  BY <1>2, <1>3
<1>7. DOMAIN m = 1..Len(l)
  BY <1>2
<1>. HIDE DEF m
<1>8. Len(m) \in Nat /\ 1..Len(m) = 1..Len(l)
  BY <1>5, <1>7, LenProperties
<1>9. Len(m) = Len(l)
  BY <1>2, <1>8
<1>10. ASSUME NEW d PROVE Those(m, d) = Those(l, d)
  BY <1>6, <1>9 DEF Those
<1>11. ASSUME NEW d, NEW n, Within(l, d, n) PROVE Within(m, d, n)
  <2>1. \A i \in Those(l, d) : m[i].count = l[i].count
    BY <1>6 DEF Those
  <2>. QED
    BY <1>10, <1>11, <2>1 DEF Within
<1>. QED
  BY <1>1, <1>5, <1>11

-----------------------------------------------------------------------------
(* Feelings *)

FeelPhases == Moods!Answering \cup
              {"idle", "replied", "recording", "apologizing", "recorded", "apologized"}
Tagged == {"listening", "hearing", "returning", "announcing", "replying"}
Mood == [by : Scopes \cup {"none"}, trigger : Scopes \cup {"none"}, at : Int]
Message == [phase : FeelPhases, scope : Scopes \cup {"none"}, text : Moods!Texts \cup {"none"},
            mood : Mood, read : Seq(Int), recs : Seq(Mistake), tone : Seq(Int),
            due : Seq(Int), blamed : BOOLEAN, met : BOOLEAN]
\* A message that is handled has a chat; what is recorded of it is a mistake.
Handling == {x \in Message :
                /\ x.phase # "idle" => x.scope \in Scopes
                /\ x.phase \in {"recording", "recorded"} =>
                     Moods!CategoryOf(x.text) \in Moods!Categories}
Missing == {w \in [phase : {"idle", "recorded"}, scope : Scopes \cup {"none"},
                   recs : Seq(Mistake)] : w.phase # "idle" => w.scope \in Scopes}

FeelTyped ==
    /\ now \in Int /\ mood \in Mood
    /\ rows \in [Scopes -> Seq(Int)] /\ heard \in [Scopes -> Seq(Int)]
    /\ announced \in [Scopes -> [flag : BOOLEAN, times : Nat]]
    /\ mistakes \in [Scopes -> Seq(Mistake)]
    /\ made \in [Scopes -> [Moods!Categories -> Nat]]
    /\ turn \in [Threads -> Handling] /\ waiter \in Missing

\* Of a message x: the mood m is not another's doing if nobody was met;
SeenBy(m, x) ==
    /\ x.phase \in Tagged /\ ~x.met => m.trigger = "none" \/ m.trigger = x.scope
    /\ x.blamed => x.met
\* in a private chat what was read is still there, and the tone is right;
HearsAll(table0, x) ==
    x.scope \in Private => /\ x.phase = "hearing" => x.read = table0[x.scope]
                           /\ x.tone = x.due
\* and nobody else has announced the return.
FirstToTell(a, x) == x.phase = "announcing" /\ x.scope \in Private => ~a[x.scope].flag
\* Two messages of a private chat are not answered at once.
Apart(x, y) ==
    x.phase \in Moods!Answering /\ y.phase \in Moods!Answering /\ x.scope = y.scope =>
      x.scope \notin Private

ShownInv ==
    /\ \A k \in Threads :
         SeenBy(mood, turn[k]) /\ HearsAll(rows, turn[k]) /\ FirstToTell(announced, turn[k])
    /\ \A j, k \in Threads : j # k => Apart(turn[j], turn[k])
    /\ \A s \in Private : /\ rows[s] = Moods!Last(heard[s], Window)
                          /\ announced[s].times <= 1
                          /\ ~announced[s].flag => announced[s].times = 0

\* Mistakes that are made and not recorded yet, of all that were made (md), by the
\* messages tn and the loop w: a list that is saved, or that somebody has read,
\* holds no more than the others.
Noting(x) == x.phase \in {"recording", "recorded"}
Copied(x) == x.phase \in {"recorded", "apologized"}
Notes(x, s, c) == Noting(x) /\ x.scope = s /\ Moods!CategoryOf(x.text) = c
Pend(s, c, tn) == {k \in Threads : Notes(tn[k], s, c)}
Wait(s, c, w) == IF w.phase = "recorded" /\ w.scope = s /\ c = "late" THEN 1 ELSE 0
Noted(s, c, md, tn, w) == md[s][c] - Cardinality(Pend(s, c, tn)) - Wait(s, c, w)
BlameAt(s, c, ms, md, tn, w) ==
    /\ IsFiniteSet(Pend(s, c, tn))
    /\ Within(ms[s], c, Noted(s, c, md, tn, w))
    /\ \A k \in Threads : Copied(tn[k]) /\ tn[k].scope = s =>
                            Within(tn[k].recs, c, Noted(s, c, md, tn, w))
    /\ w.phase = "recorded" /\ w.scope = s => Within(w.recs, c, Noted(s, c, md, tn, w))

BlameInv == \A s \in Scopes, c \in Moods!Categories : BlameAt(s, c, mistakes, made, turn, waiter)

FeelInv == FeelTyped /\ ShownInv /\ BlameInv

LEMMA FeelConstants == Private \subseteq Scopes /\ Window \in Nat \ {0}
BY ConstantsAssumption DEF Moods!FeelingsAssumption

LEMMA SameCount == \A S : Moods!Cardinality(S) = Cardinality(S)
BY DEF Moods!Cardinality, Cardinality

LEMMA CategoriesAre == \A t : Moods!CategoryOf(t) \in Moods!Categories \cup {"none"}
BY DEF Moods!CategoryOf, Moods!Categories

LEMMA MessagesAre ==
    ASSUME FeelInv, NEW k \in Threads
    PROVE  turn \in [Threads -> Handling] /\ turn[k] \in Handling /\ turn[k] \in Message
BY DEF FeelInv, FeelTyped, Handling

\* The messages that begin and end.
LEMMA IdleIsHandled ==
    /\ Moods!Idle \in Handling /\ Moods!Idle.phase = "idle" /\ Moods!Idle.scope = "none"
    /\ Moods!Idle.tone = <<>> /\ Moods!Idle.due = <<>>
    /\ Moods!Idle.blamed = FALSE /\ Moods!Idle.met = FALSE
    /\ Moods!Calm \in Mood /\ Moods!Calm.trigger = "none"
<1>1. Moods!Calm \in Mood /\ Moods!Calm.trigger = "none"
  BY DEF Moods!Calm, Moods!Never, Mood
<1>2. <<>> \in Seq(Int) /\ <<>> \in Seq(Mistake)
  OBVIOUS
<1>. QED
  BY <1>1, <1>2 DEF Moods!Idle, Handling, Message, FeelPhases

LEMMA NotedIsInt ==
    ASSUME NEW s, NEW c, NEW md, NEW tn, NEW w, md[s][c] \in Int, IsFiniteSet(Pend(s, c, tn))
    PROVE  Noted(s, c, md, tn, w) \in Int
BY FS_CardinalityType DEF Noted, Wait

LEMMA FeelingsStart == Moods!Init => FeelInv
<1>. SUFFICES ASSUME Moods!Init PROVE FeelInv
  OBVIOUS
<1>1. /\ now = 0 /\ mood = Moods!Calm
      /\ rows = [s \in Scopes |-> IF s \in Private THEN Moods!Last(<<-7, -7>>, Window) ELSE <<>>]
      /\ heard = rows
      /\ announced = [s \in Scopes |-> [flag |-> FALSE, times |-> 0]]
      /\ mistakes = [s \in Scopes |-> <<>>]
      /\ made = [s \in Scopes |-> [c \in Moods!Categories |-> 0]]
      /\ turn = [k \in Threads |-> Moods!Idle] /\ waiter = Moods!NoWaiter
  BY DEF Moods!Init
<1>2. <<-7, -7>> \in Seq(Int) /\ <<>> \in Seq(Int) /\ <<>> \in Seq(Mistake)
  OBVIOUS
<1>3. /\ Moods!Last(<<-7, -7>>, Window) \in Seq(Int)
      /\ Len(Moods!Last(<<-7, -7>>, Window)) <= Window
  <2>. DEFINE sad == <<-7, -7>>
  <2>1. sad \in Seq(Int) /\ Len(sad) = 2
    BY <1>2
  <2>. HIDE DEF sad
  <2>2. /\ Moods!Last(sad, Window) \in Seq(Int)
        /\ Len(Moods!Last(sad, Window)) = IF Len(sad) > Window THEN Window ELSE Len(sad)
    BY <2>1, FeelConstants, LastOfSeq
  <2>3. Len(Moods!Last(sad, Window)) <= Window
    BY <2>1, <2>2, FeelConstants
  <2>. QED
    BY <2>2, <2>3 DEF sad
<1>4. \A s \in Private : rows[s] \in Seq(Int) /\ Len(rows[s]) <= Window
  BY <1>1, <1>3, FeelConstants
<1>5. \A s \in Private : rows[s] = Moods!Last(heard[s], Window)
  BY <1>1, <1>4, FeelConstants, LastOfFew
<1>6. rows \in [Scopes -> Seq(Int)]
  BY <1>1, <1>2, <1>3
<1>7. waiter \in Missing /\ waiter.phase = "idle"
  BY <1>1, <1>2 DEF Moods!NoWaiter, Missing
<1>8. FeelTyped
  BY <1>1, <1>2, <1>6, <1>7, IdleIsHandled DEF FeelTyped
<1>9. \A k \in Threads : turn[k] = Moods!Idle
  BY <1>1
<1>10. \A s \in Private : announced[s].flag = FALSE /\ announced[s].times = 0
  BY <1>1, FeelConstants
<1>11. ShownInv
  BY <1>5, <1>9, <1>10, IdleIsHandled
  DEF ShownInv, SeenBy, HearsAll, FirstToTell, Apart, Tagged, Moods!Answering
<1>12. BlameInv
  <2>. SUFFICES ASSUME NEW s \in Scopes, NEW c \in Moods!Categories
                PROVE  BlameAt(s, c, mistakes, made, turn, waiter)
    BY DEF BlameInv
  <2>1. Pend(s, c, turn) = {}
    BY <1>9, IdleIsHandled DEF Pend, Notes, Noting
  <2>2. IsFiniteSet(Pend(s, c, turn)) /\ Cardinality(Pend(s, c, turn)) = 0
    BY <2>1, FS_EmptySet
  <2>3. Noted(s, c, made, turn, waiter) = 0
    BY <1>1, <1>7, <2>2 DEF Noted, Wait
  <2>4. mistakes[s] = <<>> /\ Within(<<>>, c, 0)
    BY <1>1, WithinNothing
  <2>5. \A k \in Threads : ~Copied(turn[k])
    BY <1>9, IdleIsHandled DEF Copied
  <2>. QED
    BY <1>7, <2>2, <2>3, <2>4, <2>5 DEF BlameAt
<1>. QED
  BY <1>8, <1>11, <1>12 DEF FeelInv

-----------------------------------------------------------------------------
(* A message goes on *)

LEMMA ShownStays ==
    ASSUME FeelInv, NEW k \in Threads, NEW x \in Handling, turn' = [turn EXCEPT ![k] = x],
           mood' = mood, rows' = rows, heard' = heard, announced' = announced,
           SeenBy(mood, x), HearsAll(rows, x), FirstToTell(announced, x),
           x.phase \in Moods!Answering =>
             turn[k].phase \in Moods!Answering /\ x.scope = turn[k].scope
    PROVE  ShownInv'
<1>1. \A j \in Threads : turn'[j] = IF j = k THEN x ELSE turn[j]
  BY MessagesAre
<1>2. ShownInv
  BY DEF FeelInv
<1>3. \A j \in Threads : SeenBy(mood, turn'[j]) /\ HearsAll(rows, turn'[j])
                         /\ FirstToTell(announced, turn'[j])
  BY <1>1, <1>2 DEF ShownInv
<1>4. \A i, j \in Threads : i # j => Apart(turn'[i], turn'[j])
  <2>. SUFFICES ASSUME NEW i \in Threads, NEW j \in Threads, i # j PROVE Apart(turn'[i], turn'[j])
    OBVIOUS
  <2>1. Apart(turn[i], turn[j])
    BY <1>2 DEF ShownInv
  <2>2. CASE i = k
    BY <1>1, <2>1, <2>2 DEF Apart
  <2>3. CASE j = k
    BY <1>1, <2>1, <2>3 DEF Apart
  <2>4. CASE i # k /\ j # k
    BY <1>1, <2>1, <2>4
  <2>. QED
    BY <2>2, <2>3, <2>4
<1>. QED
  BY <1>2, <1>3, <1>4 DEF ShownInv

\* Whatever a message does that neither records nor forgives.
LEMMA BlameStays ==
    ASSUME FeelInv,
           \A k \in Threads :
             /\ Noting(turn'[k]) <=> Noting(turn[k])
             /\ Noting(turn[k]) => turn'[k].scope = turn[k].scope /\ turn'[k].text = turn[k].text
             /\ Copied(turn'[k]) => Copied(turn[k]) /\ turn'[k].scope = turn[k].scope
                                 /\ turn'[k].recs = turn[k].recs,
           mistakes' = mistakes, made' = made, waiter' = waiter
    PROVE  BlameInv'
<1>. SUFFICES ASSUME NEW s \in Scopes, NEW c \in Moods!Categories
              PROVE  BlameAt(s, c, mistakes, made, turn', waiter)
  BY DEF BlameInv
<1>1. BlameAt(s, c, mistakes, made, turn, waiter)
  BY DEF FeelInv, BlameInv
<1>2. Pend(s, c, turn') = Pend(s, c, turn)
  BY DEF Pend, Notes
<1>3. Noted(s, c, made, turn', waiter) = Noted(s, c, made, turn, waiter)
  BY <1>2 DEF Noted
<1>. QED
  BY <1>1, <1>2, <1>3 DEF BlameAt

\* A message before the reply goes on.
LEMMA MessageGoesOn ==
    ASSUME FeelInv, NEW k \in Threads, NEW x \in Handling, turn' = [turn EXCEPT ![k] = x],
           turn[k].phase \in Moods!Answering, x.phase \in Moods!Answering \cup {"replied"},
           x.scope = turn[k].scope,
           SeenBy(mood, x), HearsAll(rows, x), FirstToTell(announced, x),
           now' = now, mood' = mood, rows' = rows, heard' = heard, announced' = announced,
           mistakes' = mistakes, made' = made, waiter' = waiter
    PROVE  FeelInv'
<1>1. ShownInv'
  BY ShownStays
<1>2. \A j \in Threads : turn'[j] = IF j = k THEN x ELSE turn[j]
  BY MessagesAre
<1>3. ~Noting(x) /\ ~Copied(x) /\ ~Noting(turn[k]) /\ ~Copied(turn[k])
  BY DEF Noting, Copied, Moods!Answering
<1>5. \A j \in Threads :
         /\ Noting(turn'[j]) <=> Noting(turn[j])
         /\ Noting(turn[j]) => turn'[j].scope = turn[j].scope /\ turn'[j].text = turn[j].text
         /\ Copied(turn'[j]) => Copied(turn[j]) /\ turn'[j].scope = turn[j].scope
                                /\ turn'[j].recs = turn[j].recs
  BY <1>2, <1>3
<1>6. BlameInv'
  BY <1>5, BlameStays
<1>7. FeelTyped'
  BY DEF FeelInv, FeelTyped
<1>. QED
  BY <1>1, <1>6, <1>7 DEF FeelInv

LEMMA ApartStay ==
    ASSUME FeelInv,
           \A j \in Threads : turn'[j].phase \in Moods!Answering =>
                turn[j].phase \in Moods!Answering /\ turn'[j].scope = turn[j].scope
    PROVE  \A i, j \in Threads : i # j => Apart(turn'[i], turn'[j])
<1>. SUFFICES ASSUME NEW i \in Threads, NEW j \in Threads, i # j PROVE Apart(turn'[i], turn'[j])
  OBVIOUS
<1>1. Apart(turn[i], turn[j])
  BY DEF FeelInv, ShownInv
<1>. QED
  BY <1>1 DEF Apart

\* A message that is before its reply neither records nor forgives.
LEMMA EarlyBlame ==
    ASSUME FeelInv, NEW k \in Threads, NEW x \in Handling, turn' = [turn EXCEPT ![k] = x],
           ~Noting(x), ~Copied(x), ~Noting(turn[k]),
           mistakes' = mistakes, made' = made, waiter' = waiter
    PROVE  BlameInv'
<1>1. \A j \in Threads : turn'[j] = IF j = k THEN x ELSE turn[j]
  BY MessagesAre
<1>2. \A j \in Threads :
         /\ Noting(turn'[j]) <=> Noting(turn[j])
         /\ Noting(turn[j]) => turn'[j].scope = turn[j].scope /\ turn'[j].text = turn[j].text
         /\ Copied(turn'[j]) => Copied(turn[j]) /\ turn'[j].scope = turn[j].scope
                                /\ turn'[j].recs = turn[j].recs
  BY <1>1
<1>. QED
  BY <1>2, BlameStays

LEMMA NextTick == ASSUME FeelInv, Moods!Tick PROVE FeelInv'
<1>1. /\ now' = now + 1 /\ mood' = mood /\ rows' = rows /\ heard' = heard
      /\ announced' = announced /\ mistakes' = mistakes /\ made' = made /\ turn' = turn
      /\ waiter' = waiter
  BY DEF Moods!Tick
<1>2. FeelTyped'
  BY <1>1 DEF FeelInv, FeelTyped
<1>3. ShownInv'
  BY <1>1 DEF FeelInv, ShownInv
<1>4. BlameInv'
  BY <1>1 DEF FeelInv, BlameInv
<1>. QED
  BY <1>2, <1>3, <1>4 DEF FeelInv

\* A message begins: in a private chat no other is being answered.
LEMMA NextBegin ==
    ASSUME FeelInv, NEW k \in Threads, NEW s \in Scopes, NEW text \in Moods!Texts,
           Moods!Begin(k, s, text)
    PROVE  FeelInv'
<1>. DEFINE x == [Moods!Idle EXCEPT !.phase = "feeling", !.scope = s, !.text = text]
<1>1. /\ turn[k].phase = "idle" /\ turn' = [turn EXCEPT ![k] = x]
      /\ s \in Private =>
           \A j \in Threads : turn[j].phase \in Moods!Answering => turn[j].scope # s
      /\ now' = now /\ mood' = mood /\ rows' = rows /\ heard' = heard
      /\ announced' = announced /\ mistakes' = mistakes /\ made' = made /\ waiter' = waiter
  BY DEF Moods!Begin, Moods!In, Moods!Goes
<1>2. "feeling" \in FeelPhases
  BY DEF FeelPhases, Moods!Answering
<1>3. /\ x \in Handling /\ x.phase = "feeling" /\ x.scope = s /\ x.tone = x.due
      /\ x.blamed = FALSE
  BY <1>2, IdleIsHandled DEF Handling, Message
<1>. HIDE DEF x
<1>4. \A j \in Threads : turn'[j] = IF j = k THEN x ELSE turn[j]
  BY <1>1, MessagesAre
<1>5. ShownInv
  BY DEF FeelInv
<1>6. SeenBy(mood, x) /\ HearsAll(rows, x) /\ FirstToTell(announced, x)
  BY <1>3 DEF SeenBy, HearsAll, FirstToTell, Tagged
<1>7. \A j \in Threads : SeenBy(mood, turn'[j]) /\ HearsAll(rows, turn'[j])
                         /\ FirstToTell(announced, turn'[j])
  BY <1>4, <1>5, <1>6 DEF ShownInv
<1>8. \A i, j \in Threads : i # j => Apart(turn'[i], turn'[j])
  <2>. SUFFICES ASSUME NEW i \in Threads, NEW j \in Threads, i # j PROVE Apart(turn'[i], turn'[j])
    OBVIOUS
  <2>1. Apart(turn[i], turn[j])
    BY <1>5 DEF ShownInv
  <2>2. CASE i = k
    BY <1>1, <1>3, <1>4, <2>2 DEF Apart
  <2>3. CASE j = k
    BY <1>1, <1>3, <1>4, <2>3 DEF Apart
  <2>4. CASE i # k /\ j # k
    BY <1>4, <2>1, <2>4
  <2>. QED
    BY <2>2, <2>3, <2>4
<1>9. ShownInv'
  BY <1>1, <1>5, <1>7, <1>8 DEF ShownInv
<1>10. ~Noting(x) /\ ~Copied(x) /\ ~Noting(turn[k])
  BY <1>1, <1>3 DEF Noting, Copied
<1>11. BlameInv'
  BY <1>1, <1>3, <1>10, EarlyBlame
<1>12. FeelTyped'
  BY <1>1, <1>3 DEF FeelInv, FeelTyped
<1>. QED
  BY <1>9, <1>11, <1>12 DEF FeelInv

\* The mood is nobody's doing until it is tagged.
LEMMA NextSaveMood == ASSUME FeelInv, NEW k \in Threads, Moods!SaveMood(k) PROVE FeelInv'
<1>. DEFINE x == [turn[k] EXCEPT !.phase = "saved"]
<1>1. /\ turn[k].phase = "feeling" /\ turn' = [turn EXCEPT ![k] = x]
      /\ mood' = [Moods!Calm EXCEPT !.by = turn[k].scope]
      /\ now' = now /\ rows' = rows /\ heard' = heard
      /\ announced' = announced /\ mistakes' = mistakes /\ made' = made /\ waiter' = waiter
  BY DEF Moods!SaveMood, Moods!In, Moods!Step, Moods!Goes
<1>2. turn[k] \in Handling /\ "saved" \in FeelPhases
  BY MessagesAre DEF FeelPhases, Moods!Answering
<1>3. /\ x \in Handling /\ x.phase = "saved" /\ x.scope = turn[k].scope /\ x.tone = turn[k].tone
      /\ x.due = turn[k].due /\ x.blamed = turn[k].blamed /\ x.met = turn[k].met
  BY <1>1, <1>2 DEF Handling, Message
<1>4. turn[k].scope \in Scopes \cup {"none"}
  BY <1>2 DEF Handling, Message
<1>5. mood' \in Mood /\ mood'.trigger = "none"
  BY <1>1, <1>4, IdleIsHandled DEF Mood
<1>. HIDE DEF x
<1>6. \A j \in Threads : turn'[j] = IF j = k THEN x ELSE turn[j]
  BY <1>1, MessagesAre
<1>7. ShownInv
  BY DEF FeelInv
<1>8. \A j \in Threads : SeenBy(mood', turn'[j])
  BY <1>3, <1>5, <1>6, <1>7 DEF ShownInv, SeenBy
<1>9. \A j \in Threads : HearsAll(rows, turn'[j]) /\ FirstToTell(announced, turn'[j])
  BY <1>3, <1>6, <1>7 DEF ShownInv, HearsAll, FirstToTell
<1>10. \A j \in Threads : turn'[j].phase \in Moods!Answering =>
                turn[j].phase \in Moods!Answering /\ turn'[j].scope = turn[j].scope
  BY <1>1, <1>3, <1>6 DEF Moods!Answering
<1>11. \A i, j \in Threads : i # j => Apart(turn'[i], turn'[j])
  BY <1>10, ApartStay
<1>12. ShownInv'
  BY <1>1, <1>7, <1>8, <1>9, <1>11 DEF ShownInv
<1>13. ~Noting(x) /\ ~Copied(x) /\ ~Noting(turn[k])
  BY <1>1, <1>3 DEF Noting, Copied
<1>14. BlameInv'
  BY <1>1, <1>3, <1>13, EarlyBlame
<1>15. FeelTyped'
  BY <1>1, <1>3, <1>5 DEF FeelInv, FeelTyped
<1>. QED
  BY <1>12, <1>14, <1>15 DEF FeelInv

LEMMA NextReadSaved == ASSUME FeelInv, NEW k \in Threads, Moods!ReadSaved(k) PROVE FeelInv'
<1>. DEFINE x == [turn[k] EXCEPT !.phase = "tagging", !.mood = mood]
<1>1. /\ turn[k].phase = "saved" /\ turn' = [turn EXCEPT ![k] = x]
      /\ now' = now /\ mood' = mood /\ rows' = rows /\ heard' = heard
      /\ announced' = announced /\ mistakes' = mistakes /\ made' = made /\ waiter' = waiter
  BY DEF Moods!ReadSaved, Moods!In, Moods!Goes
<1>2. turn[k] \in Handling /\ "tagging" \in FeelPhases /\ mood \in Mood
  BY MessagesAre DEF FeelPhases, Moods!Answering, FeelInv, FeelTyped
<1>3. /\ x \in Handling /\ x.phase = "tagging" /\ x.scope = turn[k].scope /\ x.tone = turn[k].tone
      /\ x.due = turn[k].due /\ x.blamed = turn[k].blamed /\ x.met = turn[k].met
  BY <1>1, <1>2 DEF Handling, Message
<1>. HIDE DEF x
<1>4. ShownInv
  BY DEF FeelInv
<1>5. SeenBy(mood, x)
  BY <1>3, <1>4 DEF ShownInv, SeenBy, Tagged
<1>6. HearsAll(rows, x) /\ FirstToTell(announced, x)
  BY <1>3, <1>4 DEF ShownInv, HearsAll, FirstToTell
<1>7. turn[k].phase \in Moods!Answering /\ x.phase \in Moods!Answering \cup {"replied"}
  BY <1>1, <1>3 DEF Moods!Answering
<1>. QED
  BY <1>1, <1>3, <1>5, <1>6, <1>7, MessageGoesOn

\* Whoever is answering meanwhile has met this message.
LEMMA NextTagMood == ASSUME FeelInv, NEW k \in Threads, Moods!TagMood(k) PROVE FeelInv'
<1>. DEFINE x == [turn[k] EXCEPT !.phase = "listening", !.mood = Moods!Calm]
            y(j) == [turn[j] EXCEPT !.met = turn[j].met \/ turn[j].phase \in Moods!Answering]
<1>1. /\ turn[k].phase = "tagging"
      /\ turn' = [j \in Threads |-> IF j = k THEN x ELSE y(j)]
      /\ mood' = [by |-> turn[k].mood.by, trigger |-> turn[k].scope, at |-> now]
      /\ now' = now /\ rows' = rows /\ heard' = heard
      /\ announced' = announced /\ mistakes' = mistakes /\ made' = made /\ waiter' = waiter
  BY DEF Moods!TagMood, Moods!In
<1>2. turn[k] \in Handling /\ "listening" \in FeelPhases /\ now \in Int
  BY MessagesAre DEF FeelPhases, Moods!Answering, FeelInv, FeelTyped
<1>3. /\ x \in Handling /\ x.phase = "listening" /\ x.scope = turn[k].scope
      /\ x.tone = turn[k].tone
      /\ x.due = turn[k].due /\ x.blamed = turn[k].blamed /\ x.met = turn[k].met
  BY <1>1, <1>2, IdleIsHandled DEF Handling, Message
<1>4. ASSUME NEW j \in Threads
      PROVE  /\ y(j) \in Handling /\ y(j).phase = turn[j].phase /\ y(j).scope = turn[j].scope
             /\ y(j).text = turn[j].text /\ y(j).tone = turn[j].tone /\ y(j).due = turn[j].due
             /\ y(j).recs = turn[j].recs /\ y(j).blamed = turn[j].blamed
             /\ y(j).read = turn[j].read
             /\ y(j).met = (turn[j].met \/ turn[j].phase \in Moods!Answering)
  <2>1. turn[j] \in Handling
    BY MessagesAre
  <2>2. (turn[j].met \/ turn[j].phase \in Moods!Answering) \in BOOLEAN
    OBVIOUS
  <2>. QED
    BY <2>1, <2>2 DEF Handling, Message
<1>5. mood' \in Mood /\ mood'.trigger = turn[k].scope
  BY <1>1, <1>2 DEF Handling, Message, Mood
<1>. HIDE DEF x, y
<1>6. \A j \in Threads : turn'[j] = IF j = k THEN x ELSE y(j)
  BY <1>1
<1>7. ShownInv
  BY DEF FeelInv
<1>8. ASSUME NEW j \in Threads PROVE SeenBy(mood', turn'[j])
  <2>1. turn[j].blamed => turn[j].met
    BY <1>7 DEF ShownInv, SeenBy
  <2>2. CASE j = k
    BY <1>3, <1>5, <1>6, <2>1, <2>2 DEF SeenBy
  <2>3. CASE j # k
    <3>1. turn'[j] = y(j)
      BY <1>6, <2>3
    <3>2. turn[j].phase \in Tagged => turn[j].phase \in Moods!Answering
      BY DEF Tagged, Moods!Answering
    <3>. QED
      BY <1>4, <2>1, <3>1, <3>2 DEF SeenBy
  <2>. QED
    BY <2>2, <2>3
<1>9. \A j \in Threads : HearsAll(rows, turn'[j]) /\ FirstToTell(announced, turn'[j])
  BY <1>3, <1>4, <1>6, <1>7 DEF ShownInv, HearsAll, FirstToTell
<1>10. \A j \in Threads : turn'[j].phase \in Moods!Answering =>
                turn[j].phase \in Moods!Answering /\ turn'[j].scope = turn[j].scope
  BY <1>1, <1>3, <1>4, <1>6 DEF Moods!Answering
<1>11. \A i, j \in Threads : i # j => Apart(turn'[i], turn'[j])
  BY <1>10, ApartStay
<1>12. ShownInv'
  BY <1>1, <1>7, <1>8, <1>9, <1>11 DEF ShownInv
<1>13. ~Noting(x) /\ ~Copied(x) /\ ~Noting(turn[k])
  BY <1>1, <1>3 DEF Noting, Copied
<1>14. \A j \in Threads :
         /\ Noting(turn'[j]) <=> Noting(turn[j])
         /\ Noting(turn[j]) => turn'[j].scope = turn[j].scope /\ turn'[j].text = turn[j].text
         /\ Copied(turn'[j]) => Copied(turn[j]) /\ turn'[j].scope = turn[j].scope
                                /\ turn'[j].recs = turn[j].recs
  BY <1>4, <1>6, <1>13 DEF Noting, Copied
<1>15. BlameInv'
  BY <1>1, <1>14, BlameStays
<1>16. turn' \in [Threads -> Handling]
  BY <1>1, <1>3, <1>4
<1>17. FeelTyped'
  BY <1>1, <1>5, <1>16 DEF FeelInv, FeelTyped
<1>. QED
  BY <1>12, <1>15, <1>17 DEF FeelInv

LEMMA NextReadRows == ASSUME FeelInv, NEW k \in Threads, Moods!ReadRows(k) PROVE FeelInv'
<1>. DEFINE x == [turn[k] EXCEPT !.phase = "hearing", !.read = rows[turn[k].scope]]
<1>1. /\ turn[k].phase = "listening" /\ turn' = [turn EXCEPT ![k] = x]
      /\ now' = now /\ mood' = mood /\ rows' = rows /\ heard' = heard
      /\ announced' = announced /\ mistakes' = mistakes /\ made' = made /\ waiter' = waiter
  BY DEF Moods!ReadRows, Moods!In, Moods!Goes
<1>2. /\ turn[k] \in Handling /\ "hearing" \in FeelPhases
      /\ turn[k].scope \in Scopes /\ rows \in [Scopes -> Seq(Int)]
  BY <1>1, MessagesAre DEF FeelPhases, Moods!Answering, FeelInv, FeelTyped, Handling
<1>3. /\ x \in Handling /\ x.phase = "hearing" /\ x.scope = turn[k].scope /\ x.tone = turn[k].tone
      /\ x.due = turn[k].due /\ x.blamed = turn[k].blamed /\ x.met = turn[k].met
      /\ x.read = rows[turn[k].scope]
  BY <1>1, <1>2 DEF Handling, Message
<1>. HIDE DEF x
<1>4. ShownInv
  BY DEF FeelInv
<1>5. SeenBy(mood, x)
  BY <1>1, <1>3, <1>4 DEF ShownInv, SeenBy, Tagged
<1>6. HearsAll(rows, x) /\ FirstToTell(announced, x)
  BY <1>3, <1>4 DEF ShownInv, HearsAll, FirstToTell
<1>7. turn[k].phase \in Moods!Answering /\ x.phase \in Moods!Answering \cup {"replied"}
  BY <1>1, <1>3 DEF Moods!Answering
<1>. QED
  BY <1>1, <1>3, <1>5, <1>6, <1>7, MessageGoesOn

LEMMA JudgedInt == \A text, before : Moods!Judge(text, before) \in Int
BY DEF Moods!Judge

\* In a private chat nobody else has changed what was read.
LEMMA NextObserve == ASSUME FeelInv, NEW k \in Threads, Moods!Observe(k) PROVE FeelInv'
<1>. DEFINE s == turn[k].scope
            v == Moods!Judge(turn[k].text, turn[k].read)
            r == Moods!Last(Append(turn[k].read, v), Window)
            h == Append(heard[s], v)
            x == [turn[k] EXCEPT !.phase = "returning", !.read = <<>>]
<1>1. /\ turn[k].phase = "hearing" /\ turn' = [turn EXCEPT ![k] = x]
      /\ rows' = [rows EXCEPT ![s] = r] /\ heard' = [heard EXCEPT ![s] = h]
      /\ now' = now /\ mood' = mood
      /\ announced' = announced /\ mistakes' = mistakes /\ made' = made /\ waiter' = waiter
  BY DEF Moods!Observe, Moods!In, Moods!Goes, Moods!Kept
<1>2. /\ turn[k] \in Handling /\ turn[k].read \in Seq(Int) /\ s \in Scopes
      /\ rows \in [Scopes -> Seq(Int)] /\ heard \in [Scopes -> Seq(Int)]
  BY <1>1, MessagesAre DEF FeelInv, FeelTyped, Handling, Message
<1>3. v \in Int
  BY JudgedInt
<1>. HIDE DEF v
<1>4. Append(turn[k].read, v) \in Seq(Int) /\ h \in Seq(Int)
  BY <1>2, <1>3, AppendProperties
<1>5. r \in Seq(Int)
  BY <1>4, FeelConstants, LastOfSeq
<1>6. <<>> \in Seq(Int) /\ "returning" \in FeelPhases
  BY DEF FeelPhases, Moods!Answering
<1>7. /\ x \in Handling /\ x.phase = "returning" /\ x.scope = s /\ x.tone = turn[k].tone
      /\ x.due = turn[k].due /\ x.blamed = turn[k].blamed /\ x.met = turn[k].met
  BY <1>1, <1>2, <1>6 DEF Handling, Message
<1>. HIDE DEF x
<1>8. ShownInv
  BY DEF FeelInv
<1>9. s \in Private => r = Moods!Last(h, Window)
  <2>1. SUFFICES ASSUME s \in Private PROVE r = Moods!Last(h, Window)
    OBVIOUS
  <2>2. turn[k].read = Moods!Last(heard[s], Window)
    BY <1>1, <1>8, <2>1 DEF ShownInv, HearsAll
  <2>3. heard[s] \in Seq(Int)
    BY <1>2
  <2>. QED
    BY <1>3, <2>2, <2>3, FeelConstants, LastOfAppended
<1>. HIDE DEF r, h
<1>10. \A j \in Threads : turn'[j] = IF j = k THEN x ELSE turn[j]
  BY <1>1, MessagesAre
<1>11. \A j \in Threads : SeenBy(mood, turn'[j]) /\ FirstToTell(announced, turn'[j])
  BY <1>1, <1>7, <1>8, <1>10 DEF ShownInv, SeenBy, FirstToTell, Tagged
<1>12. \A j \in Threads : turn'[j].phase \in Moods!Answering =>
                turn[j].phase \in Moods!Answering /\ turn'[j].scope = turn[j].scope
  BY <1>1, <1>7, <1>10 DEF Moods!Answering
<1>13. \A i, j \in Threads : i # j => Apart(turn'[i], turn'[j])
  BY <1>12, ApartStay
<1>14. ASSUME NEW j \in Threads PROVE HearsAll(rows', turn'[j])
  <2>1. CASE j = k
    <3>1. turn'[j] = x /\ HearsAll(rows, turn[k])
      BY <1>8, <1>10, <2>1 DEF ShownInv
    <3>. QED
      BY <1>7, <3>1 DEF HearsAll
  <2>2. CASE j # k
    <3>1. turn'[j] = turn[j] /\ HearsAll(rows, turn[j])
      BY <1>8, <1>10, <2>2 DEF ShownInv
    <3>2. ASSUME turn[j].scope \in Private, turn[j].phase = "hearing"
          PROVE  rows'[turn[j].scope] = rows[turn[j].scope]
      <4>1. Apart(turn[j], turn[k])
        BY <1>8, <2>2 DEF ShownInv
      <4>2. turn[j].scope # s
        BY <1>1, <3>2, <4>1 DEF Apart, Moods!Answering
      <4>3. turn[j].scope \in Scopes
        BY <3>2, FeelConstants
      <4>. QED
        BY <1>1, <1>2, <4>2, <4>3
    <3>. QED
      BY <3>1, <3>2 DEF HearsAll
  <2>. QED
    BY <2>1, <2>2
<1>15. \A p \in Private : rows'[p] = Moods!Last(heard'[p], Window)
  <2>. SUFFICES ASSUME NEW p \in Private PROVE rows'[p] = Moods!Last(heard'[p], Window)
    OBVIOUS
  <2>1. p \in Scopes /\ rows[p] = Moods!Last(heard[p], Window)
    BY <1>8, FeelConstants DEF ShownInv
  <2>2. CASE p = s
    <3>1. rows'[p] = r /\ heard'[p] = h
      BY <1>1, <1>2, <2>2
    <3>. QED
      BY <1>9, <2>2, <3>1
  <2>3. CASE p # s
    <3>1. rows'[p] = rows[p] /\ heard'[p] = heard[p]
      BY <1>1, <1>2, <2>1, <2>3
    <3>. QED
      BY <2>1, <3>1
  <2>. QED
    BY <2>2, <2>3
<1>16. ShownInv'
  BY <1>1, <1>8, <1>11, <1>13, <1>14, <1>15 DEF ShownInv
<1>17. ~Noting(x) /\ ~Copied(x) /\ ~Noting(turn[k])
  BY <1>1, <1>7 DEF Noting, Copied
<1>18. BlameInv'
  BY <1>1, <1>7, <1>17, EarlyBlame
<1>19. FeelTyped'
  BY <1>1, <1>4, <1>5, <1>7 DEF FeelInv, FeelTyped, h
<1>. QED
  BY <1>16, <1>18, <1>19 DEF FeelInv

LEMMA NextCheckReturn == ASSUME FeelInv, NEW k \in Threads, Moods!CheckReturn(k) PROVE FeelInv'
<1>. DEFINE p == IF Moods!Returns(turn[k].scope) THEN "announcing" ELSE "replying"
            x == [turn[k] EXCEPT !.phase = p]
<1>1. /\ turn[k].phase = "returning" /\ turn' = [turn EXCEPT ![k] = x]
      /\ now' = now /\ mood' = mood /\ rows' = rows /\ heard' = heard
      /\ announced' = announced /\ mistakes' = mistakes /\ made' = made /\ waiter' = waiter
  BY DEF Moods!CheckReturn, Moods!In, Moods!Step, Moods!Goes
<1>2. /\ p = "announcing" \/ p = "replying"
      /\ p = "announcing" => ~announced[turn[k].scope].flag
  BY DEF Moods!Returns
<1>. HIDE DEF p
<1>3. turn[k] \in Handling /\ p \in FeelPhases
  BY <1>2, MessagesAre DEF FeelPhases, Moods!Answering
<1>4. /\ x \in Handling /\ x.phase = p /\ x.scope = turn[k].scope /\ x.tone = turn[k].tone
      /\ x.due = turn[k].due /\ x.blamed = turn[k].blamed /\ x.met = turn[k].met
  BY <1>1, <1>2, <1>3 DEF Handling, Message
<1>. HIDE DEF x
<1>5. ShownInv
  BY DEF FeelInv
<1>6. SeenBy(mood, x)
  BY <1>1, <1>4, <1>5 DEF ShownInv, SeenBy, Tagged
<1>7. HearsAll(rows, x)
  BY <1>2, <1>4, <1>5 DEF ShownInv, HearsAll
<1>8. FirstToTell(announced, x)
  BY <1>2, <1>4 DEF FirstToTell
<1>9. turn[k].phase \in Moods!Answering /\ x.phase \in Moods!Answering \cup {"replied"}
  BY <1>1, <1>2, <1>4 DEF Moods!Answering
<1>. QED
  BY <1>1, <1>4, <1>6, <1>7, <1>8, <1>9, MessageGoesOn

\* In a private chat the one who tells of the return is the first.
LEMMA NextAnnounce == ASSUME FeelInv, NEW k \in Threads, Moods!Announce(k) PROVE FeelInv'
<1>. DEFINE s == turn[k].scope
            x == [turn[k] EXCEPT !.phase = "replying"]
            a == [flag |-> TRUE, times |-> announced[s].times + 1]
<1>1. /\ turn[k].phase = "announcing" /\ turn' = [turn EXCEPT ![k] = x]
      /\ announced' = [announced EXCEPT ![s] = a]
      /\ now' = now /\ mood' = mood /\ rows' = rows /\ heard' = heard
      /\ mistakes' = mistakes /\ made' = made /\ waiter' = waiter
  BY DEF Moods!Announce, Moods!In, Moods!Step, Moods!Goes
<1>2. /\ turn[k] \in Handling /\ "replying" \in FeelPhases /\ s \in Scopes
      /\ announced \in [Scopes -> [flag : BOOLEAN, times : Nat]]
  BY <1>1, MessagesAre DEF FeelPhases, Moods!Answering, FeelInv, FeelTyped, Handling
<1>3. /\ x \in Handling /\ x.phase = "replying" /\ x.scope = s /\ x.tone = turn[k].tone
      /\ x.due = turn[k].due /\ x.blamed = turn[k].blamed /\ x.met = turn[k].met
  BY <1>1, <1>2 DEF Handling, Message
<1>. HIDE DEF x
<1>4. announced[s] \in [flag : BOOLEAN, times : Nat]
  BY <1>2
<1>5. a \in [flag : BOOLEAN, times : Nat] /\ a.flag = TRUE /\ a.times = announced[s].times + 1
  BY <1>4
<1>. HIDE DEF a
<1>6. ShownInv
  BY DEF FeelInv
<1>7. \A j \in Threads : turn'[j] = IF j = k THEN x ELSE turn[j]
  BY <1>1, MessagesAre
<1>8. \A j \in Threads : SeenBy(mood, turn'[j]) /\ HearsAll(rows, turn'[j])
  BY <1>1, <1>3, <1>6, <1>7 DEF ShownInv, SeenBy, HearsAll, Tagged
<1>9. \A j \in Threads : turn'[j].phase \in Moods!Answering =>
                turn[j].phase \in Moods!Answering /\ turn'[j].scope = turn[j].scope
  BY <1>1, <1>3, <1>7 DEF Moods!Answering
<1>10. \A i, j \in Threads : i # j => Apart(turn'[i], turn'[j])
  BY <1>9, ApartStay
<1>11. ASSUME NEW j \in Threads PROVE FirstToTell(announced', turn'[j])
  <2>1. CASE j = k
    BY <1>3, <1>7, <2>1 DEF FirstToTell
  <2>2. CASE j # k
    <3>1. turn'[j] = turn[j] /\ FirstToTell(announced, turn[j])
      BY <1>6, <1>7, <2>2 DEF ShownInv
    <3>2. ASSUME turn[j].scope \in Private, turn[j].phase = "announcing"
          PROVE  announced'[turn[j].scope] = announced[turn[j].scope]
      <4>1. Apart(turn[j], turn[k])
        BY <1>6, <2>2 DEF ShownInv
      <4>2. turn[j].scope # s
        BY <1>1, <3>2, <4>1 DEF Apart, Moods!Answering
      <4>3. turn[j].scope \in Scopes
        BY <3>2, FeelConstants
      <4>. QED
        BY <1>1, <1>2, <4>2, <4>3
    <3>. QED
      BY <3>1, <3>2 DEF FirstToTell
  <2>. QED
    BY <2>1, <2>2
<1>12. ASSUME NEW p \in Private
       PROVE  announced'[p].times <= 1 /\ (~announced'[p].flag => announced'[p].times = 0)
  <2>1. /\ p \in Scopes /\ announced[p].times <= 1
        /\ ~announced[p].flag => announced[p].times = 0
    BY <1>6, FeelConstants DEF ShownInv
  <2>2. CASE p = s
    <3>1. ~announced[s].flag
      BY <1>1, <1>6, <2>2 DEF ShownInv, FirstToTell
    <3>2. announced[s].times = 0
      BY <2>1, <2>2, <3>1
    <3>3. announced'[p] = a
      BY <1>1, <1>2, <2>2
    <3>. QED
      BY <1>5, <3>2, <3>3
  <2>3. CASE p # s
    <3>1. announced'[p] = announced[p]
      BY <1>1, <1>2, <2>1, <2>3
    <3>. QED
      BY <2>1, <3>1
  <2>. QED
    BY <2>2, <2>3
<1>13. ShownInv'
  BY <1>1, <1>6, <1>8, <1>10, <1>11, <1>12 DEF ShownInv
<1>14. ~Noting(x) /\ ~Copied(x) /\ ~Noting(turn[k])
  BY <1>1, <1>3 DEF Noting, Copied
<1>15. BlameInv'
  BY <1>1, <1>3, <1>14, EarlyBlame
<1>16. FeelTyped'
  BY <1>1, <1>3, <1>5 DEF FeelInv, FeelTyped
<1>. QED
  BY <1>13, <1>15, <1>16 DEF FeelInv

\* The answer has the tone of what was heard, and blames whom it met.
LEMMA NextReply == ASSUME FeelInv, NEW k \in Threads, Moods!Reply(k) PROVE FeelInv'
<1>. DEFINE s == turn[k].scope
            b == Moods!Blamed(s)
            d == Moods!Last(heard[s], Window)
            x == [turn[k] EXCEPT !.phase = "replied", !.tone = rows[s], !.due = d, !.blamed = b]
<1>1. /\ turn[k].phase = "replying" /\ turn' = [turn EXCEPT ![k] = x]
      /\ now' = now /\ mood' = mood /\ rows' = rows /\ heard' = heard
      /\ announced' = announced /\ mistakes' = mistakes /\ made' = made /\ waiter' = waiter
  BY DEF Moods!Reply, Moods!In, Moods!Goes, Moods!Tone
<1>2. /\ turn[k] \in Handling /\ "replied" \in FeelPhases /\ s \in Scopes
      /\ rows[s] \in Seq(Int) /\ heard[s] \in Seq(Int)
  BY <1>1, MessagesAre DEF FeelPhases, FeelInv, FeelTyped, Handling
<1>3. d \in Seq(Int)
  BY <1>2, FeelConstants, LastOfSeq
<1>4. b \in BOOLEAN /\ (b => mood.trigger # "none" /\ mood.trigger # s)
  BY DEF Moods!Blamed
<1>. HIDE DEF b, d
<1>5. /\ x \in Handling /\ x.phase = "replied" /\ x.scope = s /\ x.tone = rows[s]
      /\ x.due = d /\ x.blamed = b /\ x.met = turn[k].met
  BY <1>1, <1>2, <1>3, <1>4 DEF Handling, Message
<1>. HIDE DEF x
<1>6. ShownInv
  BY DEF FeelInv
<1>7. SeenBy(mood, x)
  <2>1. ~turn[k].met => mood.trigger = "none" \/ mood.trigger = s
    BY <1>1, <1>6 DEF ShownInv, SeenBy, Tagged
  <2>. QED
    BY <1>4, <1>5, <2>1 DEF SeenBy, Tagged
<1>8. HearsAll(rows, x)
  BY <1>5, <1>6 DEF ShownInv, HearsAll, d
<1>9. FirstToTell(announced, x)
  BY <1>5 DEF FirstToTell
<1>10. turn[k].phase \in Moods!Answering /\ x.phase \in Moods!Answering \cup {"replied"}
  BY <1>1, <1>5 DEF Moods!Answering
<1>. QED
  BY <1>1, <1>5, <1>7, <1>8, <1>9, <1>10, MessageGoesOn

-----------------------------------------------------------------------------
(* Mistakes are recorded and forgiven *)

\* How many are still to be recorded, when one message goes on.
LEMMA PendSame ==
    ASSUME FeelInv, NEW k \in Threads, NEW x, turn' = [turn EXCEPT ![k] = x], NEW s, NEW c,
           Notes(x, s, c) <=> Notes(turn[k], s, c),
           IsFiniteSet(Pend(s, c, turn))
    PROVE  /\ IsFiniteSet(Pend(s, c, turn'))
           /\ Cardinality(Pend(s, c, turn')) = Cardinality(Pend(s, c, turn))
<1>1. \A j \in Threads : turn'[j] = IF j = k THEN x ELSE turn[j]
  BY MessagesAre
<1>2. Pend(s, c, turn') = Pend(s, c, turn)
  BY <1>1 DEF Pend
<1>. QED
  BY <1>2

LEMMA PendMore ==
    ASSUME FeelInv, NEW k \in Threads, NEW x, turn' = [turn EXCEPT ![k] = x], NEW s, NEW c,
           Notes(x, s, c), ~Notes(turn[k], s, c),
           IsFiniteSet(Pend(s, c, turn))
    PROVE  /\ IsFiniteSet(Pend(s, c, turn'))
           /\ Cardinality(Pend(s, c, turn')) = Cardinality(Pend(s, c, turn)) + 1
<1>1. \A j \in Threads : turn'[j] = IF j = k THEN x ELSE turn[j]
  BY MessagesAre
<1>2. Pend(s, c, turn') = Pend(s, c, turn) \cup {k}
  BY <1>1 DEF Pend
<1>3. k \notin Pend(s, c, turn)
  BY DEF Pend
<1>4. /\ IsFiniteSet(Pend(s, c, turn) \cup {k})
      /\ Cardinality(Pend(s, c, turn) \cup {k}) = Cardinality(Pend(s, c, turn)) + 1
  BY <1>3, FS_AddElement
<1>. QED
  BY <1>2, <1>4

LEMMA PendLess ==
    ASSUME FeelInv, NEW k \in Threads, NEW x, turn' = [turn EXCEPT ![k] = x], NEW s, NEW c,
           ~Notes(x, s, c), Notes(turn[k], s, c), IsFiniteSet(Pend(s, c, turn))
    PROVE  /\ IsFiniteSet(Pend(s, c, turn'))
           /\ Cardinality(Pend(s, c, turn')) = Cardinality(Pend(s, c, turn)) - 1
<1>1. \A j \in Threads : turn'[j] = IF j = k THEN x ELSE turn[j]
  BY MessagesAre
<1>2. Pend(s, c, turn') = Pend(s, c, turn) \ {k}
  BY <1>1 DEF Pend
<1>3. k \in Pend(s, c, turn)
  BY DEF Pend
<1>4. /\ IsFiniteSet(Pend(s, c, turn) \ {k})
      /\ Cardinality(Pend(s, c, turn) \ {k}) = Cardinality(Pend(s, c, turn)) - 1
  BY <1>3, FS_RemoveElement
<1>. QED
  BY <1>2, <1>4

LEMMA BlameOf ==
    ASSUME FeelInv, NEW s \in Scopes, NEW c \in Moods!Categories
    PROVE  /\ BlameAt(s, c, mistakes, made, turn, waiter)
           /\ IsFiniteSet(Pend(s, c, turn)) /\ Cardinality(Pend(s, c, turn)) \in Nat
           /\ made[s][c] \in Nat /\ Noted(s, c, made, turn, waiter) \in Int
           /\ mistakes[s] \in Seq(Mistake) /\ Within(mistakes[s], c, Noted(s, c, made, turn, waiter))
<1>1. BlameAt(s, c, mistakes, made, turn, waiter)
  BY DEF FeelInv, BlameInv
<1>2. IsFiniteSet(Pend(s, c, turn)) /\ Cardinality(Pend(s, c, turn)) \in Nat
  BY <1>1, FS_CardinalityType DEF BlameAt
<1>3. made[s][c] \in Nat /\ mistakes[s] \in Seq(Mistake)
  BY DEF FeelInv, FeelTyped
<1>4. Noted(s, c, made, turn, waiter) \in Int
  BY <1>2, <1>3, NotedIsInt
<1>. QED
  BY <1>1, <1>2, <1>3, <1>4 DEF BlameAt

\* Lists that were right are right when no fewer mistakes are noted.
LEMMA BlameGrows ==
    ASSUME FeelInv, NEW s \in Scopes, NEW c \in Moods!Categories, NEW n \in Int,
           n = Noted(s, c, made', turn', waiter'), IsFiniteSet(Pend(s, c, turn')),
           Noted(s, c, made, turn, waiter) <= n,
           mistakes'[s] = mistakes[s] \/ Within(mistakes'[s], c, n),
           \A j \in Threads : Copied(turn'[j]) /\ turn'[j].scope = s =>
             \/ Copied(turn[j]) /\ turn[j].scope = s /\ turn'[j].recs = turn[j].recs
             \/ turn'[j].recs = mistakes[s],
           waiter'.phase = "recorded" /\ waiter'.scope = s =>
             waiter' = waiter \/ waiter'.recs = mistakes[s]
    PROVE  BlameAt(s, c, mistakes', made', turn', waiter')
<1>. DEFINE o == Noted(s, c, made, turn, waiter)
<1>1. /\ BlameAt(s, c, mistakes, made, turn, waiter) /\ o \in Int
      /\ mistakes[s] \in Seq(Mistake) /\ Within(mistakes[s], c, o)
  BY BlameOf
<1>2. \A j \in Threads : Copied(turn[j]) /\ turn[j].scope = s => Within(turn[j].recs, c, o)
  BY <1>1 DEF BlameAt
<1>3. waiter.phase = "recorded" /\ waiter.scope = s => Within(waiter.recs, c, o)
  BY <1>1 DEF BlameAt
<1>4. o <= n
  OBVIOUS
<1>. HIDE DEF o
<1>5. \A l \in Seq(Mistake) : Within(l, c, o) => Within(l, c, n)
  BY <1>1, <1>4, WithinMore
<1>6. Within(mistakes'[s], c, n)
  BY <1>1, <1>5
<1>7. ASSUME NEW j \in Threads, Copied(turn'[j]), turn'[j].scope = s
      PROVE  Within(turn'[j].recs, c, n)
  <2>1. turn[j].recs \in Seq(Mistake)
    BY MessagesAre DEF Message
  <2>2. CASE Copied(turn[j]) /\ turn[j].scope = s /\ turn'[j].recs = turn[j].recs
    BY <1>2, <1>5, <2>1, <2>2
  <2>3. CASE turn'[j].recs = mistakes[s]
    BY <1>1, <1>5, <2>3
  <2>. QED
    BY <1>7, <2>2, <2>3
<1>8. ASSUME waiter'.phase = "recorded", waiter'.scope = s PROVE Within(waiter'.recs, c, n)
  <2>1. waiter.recs \in Seq(Mistake)
    BY DEF FeelInv, FeelTyped, Missing
  <2>2. CASE waiter' = waiter
    BY <1>3, <1>5, <1>8, <2>1, <2>2
  <2>3. CASE waiter'.recs = mistakes[s]
    BY <1>1, <1>5, <2>3
  <2>. QED
    BY <1>8, <2>2, <2>3
<1>. QED
  BY <1>6, <1>7, <1>8 DEF BlameAt

\* A message after the reply goes on.
LEMMA LaterShown ==
    ASSUME FeelInv, NEW k \in Threads, NEW x \in Handling, turn' = [turn EXCEPT ![k] = x],
           mood' = mood, rows' = rows, heard' = heard, announced' = announced,
           x.phase \notin Moods!Answering, x.blamed => x.met, x.tone = x.due
    PROVE  ShownInv'
<1>1. x.phase \notin Tagged /\ x.phase # "hearing" /\ x.phase # "announcing"
  BY DEF Tagged, Moods!Answering
<1>2. SeenBy(mood, x) /\ HearsAll(rows, x) /\ FirstToTell(announced, x)
  BY <1>1 DEF SeenBy, HearsAll, FirstToTell
<1>3. x.phase \in Moods!Answering =>
             turn[k].phase \in Moods!Answering /\ x.scope = turn[k].scope
  OBVIOUS
<1>. QED
  BY <1>2, <1>3, ShownStays

\* A mistake is made, and is to be recorded.
LEMMA NextAfterChat == ASSUME FeelInv, NEW k \in Threads, Moods!AfterChat(k) PROVE FeelInv'
<1>. DEFINE s == turn[k].scope
            text == turn[k].text
            c == Moods!CategoryOf(text)
            p == IF c # "none" THEN "recording"
                 ELSE IF Moods!Apology(text) THEN "apologizing" ELSE "idle"
            x == [Moods!Idle EXCEPT !.phase = p, !.scope = s, !.text = text]
<1>1. /\ turn[k].phase = "replied" /\ turn' = [turn EXCEPT ![k] = x]
      /\ made' = IF c = "none" THEN made ELSE [made EXCEPT ![s][c] = @ + 1]
      /\ now' = now /\ mood' = mood /\ rows' = rows /\ heard' = heard
      /\ announced' = announced /\ mistakes' = mistakes /\ waiter' = waiter
  BY DEF Moods!AfterChat, Moods!In, Moods!Goes
<1>2. /\ turn[k] \in Handling /\ s \in Scopes /\ text \in Moods!Texts \cup {"none"}
      /\ made \in [Scopes -> [Moods!Categories -> Nat]]
  BY <1>1, MessagesAre DEF FeelInv, FeelTyped, Handling, Message
<1>3. c = "none" \/ c \in Moods!Categories
  BY CategoriesAre
<1>4. "none" \notin Moods!Categories
  BY DEF Moods!Categories
<1>. HIDE DEF c
<1>5. p \in FeelPhases /\ p \notin Moods!Answering /\ p \notin {"recorded", "apologized"}
      /\ (p = "recording" <=> c # "none")
  BY DEF FeelPhases, Moods!Answering
<1>. HIDE DEF p
<1>6. /\ x \in Handling /\ x.phase = p /\ x.scope = s /\ x.text = text /\ x.tone = x.due
      /\ x.blamed = FALSE
  BY <1>2, <1>3, <1>5, IdleIsHandled DEF Handling, Message, c
<1>. HIDE DEF x
<1>7. ShownInv'
  BY <1>1, <1>5, <1>6, LaterShown
<1>8. made' \in [Scopes -> [Moods!Categories -> Nat]]
  <2>1. CASE c = "none"
    BY <1>1, <1>2, <2>1
  <2>2. CASE c \in Moods!Categories
    <3>1. made' = [made EXCEPT ![s] = [made[s] EXCEPT ![c] = made[s][c] + 1]]
      BY <1>1, <1>4, <2>2
    <3>2. made[s] \in [Moods!Categories -> Nat] /\ made[s][c] + 1 \in Nat
      BY <1>2, <2>2
    <3>. QED
      BY <1>2, <3>1, <3>2
  <2>. QED
    BY <1>3, <2>1, <2>2
<1>9. FeelTyped'
  BY <1>1, <1>6, <1>8 DEF FeelInv, FeelTyped
<1>10. (Noting(x) <=> c # "none") /\ ~Copied(x) /\ ~Noting(turn[k])
  BY <1>1, <1>5, <1>6 DEF Noting, Copied
<1>11. BlameInv'
  <2>. SUFFICES ASSUME NEW r \in Scopes, NEW d \in Moods!Categories
                PROVE  BlameAt(r, d, mistakes', made', turn', waiter')
    BY DEF BlameInv
  <2>1. /\ IsFiniteSet(Pend(r, d, turn)) /\ Cardinality(Pend(r, d, turn)) \in Nat
        /\ made[r][d] \in Nat /\ Noted(r, d, made, turn, waiter) \in Int
    BY BlameOf
  <2>2. \A j \in Threads : Copied(turn'[j]) /\ turn'[j].scope = r =>
          Copied(turn[j]) /\ turn[j].scope = r /\ turn'[j].recs = turn[j].recs
    BY <1>1, <1>10, MessagesAre
  <2>3. IsFiniteSet(Pend(r, d, turn'))
        /\ Noted(r, d, made', turn', waiter') = Noted(r, d, made, turn, waiter)
    <3>1. CASE r = s /\ d = c
      <4>1. /\ IsFiniteSet(Pend(r, d, turn'))
            /\ Cardinality(Pend(r, d, turn')) = Cardinality(Pend(r, d, turn)) + 1
        <5>1. Notes(x, r, d) /\ ~Notes(turn[k], r, d)
          BY <1>4, <1>6, <1>10, <3>1 DEF c, Notes
        <5>. QED
          <6>1. turn' = [turn EXCEPT ![k] = x]
            BY <1>1
          <6>2. IsFiniteSet(Pend(r, d, turn))
            BY <2>1
          <6>. QED
            BY <5>1, <6>1, <6>2, PendMore
      <4>2. made'[r][d] = made[r][d] + 1
        BY <1>1, <1>2, <1>4, <3>1
      <4>3. Wait(r, d, waiter) \in Int
        BY DEF Wait
      <4>. QED
        BY <1>1, <2>1, <4>1, <4>2, <4>3 DEF Noted
    <3>2. CASE r # s \/ d # c
      <4>1. ~Notes(x, r, d) /\ ~Notes(turn[k], r, d)
        BY <1>6, <1>10, <3>2 DEF c, Notes
      <4>2. Notes(x, r, d) <=> Notes(turn[k], r, d)
        BY <4>1
      <4>3. /\ IsFiniteSet(Pend(r, d, turn'))
            /\ Cardinality(Pend(r, d, turn')) = Cardinality(Pend(r, d, turn))
        <5>1. turn' = [turn EXCEPT ![k] = x]
          BY <1>1
        <5>2. IsFiniteSet(Pend(r, d, turn))
          BY <2>1
        <5>. QED
          BY <4>2, <5>1, <5>2, PendSame
      <4>4. made'[r][d] = made[r][d]
        BY <1>1, <1>2, <3>2
      <4>. QED
        BY <1>1, <2>1, <4>3, <4>4 DEF Noted
    <3>. QED
      BY <3>1, <3>2
  <2>4. Noted(r, d, made, turn, waiter) <= Noted(r, d, made, turn, waiter)
    BY <2>1
  <2>. QED
    BY <1>1, <2>1, <2>2, <2>3, <2>4, BlameGrows
<1>. QED
  BY <1>7, <1>9, <1>11 DEF FeelInv

LEMMA NextReadMistakes == ASSUME FeelInv, NEW k \in Threads, Moods!ReadMistakes(k) PROVE FeelInv'
<1>. DEFINE s == turn[k].scope
            p == IF turn[k].phase = "recording" THEN "recorded" ELSE "apologized"
            x == [turn[k] EXCEPT !.phase = p, !.recs = mistakes[s]]
<1>1. /\ turn[k].phase = "recording" \/ turn[k].phase = "apologizing"
      /\ turn' = [turn EXCEPT ![k] = x]
      /\ now' = now /\ mood' = mood /\ rows' = rows /\ heard' = heard
      /\ announced' = announced /\ mistakes' = mistakes /\ made' = made /\ waiter' = waiter
  BY DEF Moods!ReadMistakes, Moods!Goes
<1>2. /\ turn[k] \in Handling /\ s \in Scopes /\ mistakes[s] \in Seq(Mistake)
  BY <1>1, MessagesAre DEF FeelInv, FeelTyped, Handling
<1>3. /\ p = "recorded" \/ p = "apologized"
      /\ p = "recorded" <=> turn[k].phase = "recording"
      /\ p \in FeelPhases
  BY DEF FeelPhases
<1>. HIDE DEF p
<1>4. /\ x \in Handling /\ x.phase = p /\ x.scope = s /\ x.text = turn[k].text
      /\ x.recs = mistakes[s] /\ x.tone = turn[k].tone /\ x.due = turn[k].due
      /\ x.blamed = turn[k].blamed /\ x.met = turn[k].met
  BY <1>2, <1>3 DEF Handling, Message
<1>. HIDE DEF x
<1>5. ShownInv
  BY DEF FeelInv
<1>6. SeenBy(mood, x)
  BY <1>3, <1>4, <1>5 DEF ShownInv, SeenBy, Tagged
<1>7. HearsAll(rows, x)
  BY <1>3, <1>4, <1>5 DEF ShownInv, HearsAll
<1>8. FirstToTell(announced, x)
  BY <1>3, <1>4 DEF FirstToTell
<1>9. x.phase \notin Moods!Answering
  BY <1>3, <1>4 DEF Moods!Answering
<1>10. ShownInv'
  BY <1>1, <1>4, <1>6, <1>7, <1>8, <1>9, ShownStays
<1>11. FeelTyped'
  BY <1>1, <1>4 DEF FeelInv, FeelTyped
<1>12. \A j \in Threads : turn'[j] = IF j = k THEN x ELSE turn[j]
  BY <1>1, MessagesAre
<1>13. BlameInv'
  <2>. SUFFICES ASSUME NEW r \in Scopes, NEW d \in Moods!Categories
                PROVE  BlameAt(r, d, mistakes', made', turn', waiter')
    BY DEF BlameInv
  <2>1. /\ IsFiniteSet(Pend(r, d, turn)) /\ Cardinality(Pend(r, d, turn)) \in Nat
        /\ made[r][d] \in Nat /\ Noted(r, d, made, turn, waiter) \in Int
    BY BlameOf
  <2>2. Notes(x, r, d) <=> Notes(turn[k], r, d)
    BY <1>1, <1>3, <1>4 DEF Notes, Noting
  <2>3. /\ IsFiniteSet(Pend(r, d, turn'))
        /\ Cardinality(Pend(r, d, turn')) = Cardinality(Pend(r, d, turn))
    <3>1. turn' = [turn EXCEPT ![k] = x]
      BY <1>1
    <3>2. IsFiniteSet(Pend(r, d, turn))
      BY <2>1
    <3>. QED
      BY <2>2, <3>1, <3>2, PendSame
  <2>4. Noted(r, d, made', turn', waiter') = Noted(r, d, made, turn, waiter)
    BY <1>1, <2>3 DEF Noted
  <2>5. \A j \in Threads : Copied(turn'[j]) /\ turn'[j].scope = r =>
             \/ Copied(turn[j]) /\ turn[j].scope = r /\ turn'[j].recs = turn[j].recs
             \/ turn'[j].recs = mistakes[r]
    BY <1>4, <1>12
  <2>6. Noted(r, d, made, turn, waiter) <= Noted(r, d, made, turn, waiter)
    BY <2>1
  <2>. QED
    BY <1>1, <2>1, <2>3, <2>4, <2>5, <2>6, BlameGrows
<1>. QED
  BY <1>10, <1>11, <1>13 DEF FeelInv

\* A copy that grew by what its message made is not above what all have made.
LEMMA NextSaveRecord == ASSUME FeelInv, NEW k \in Threads, Moods!SaveRecord(k) PROVE FeelInv'
<1>. DEFINE s == turn[k].scope
            c == Moods!CategoryOf(turn[k].text)
            l == Moods!Recorded(turn[k].recs, c)
            x == IF Moods!Apology(turn[k].text)
                 THEN [turn[k] EXCEPT !.phase = "apologizing", !.recs = <<>>] ELSE Moods!Idle
<1>1. /\ turn[k].phase = "recorded" /\ turn' = [turn EXCEPT ![k] = x]
      /\ mistakes' = [mistakes EXCEPT ![s] = l]
      /\ now' = now /\ mood' = mood /\ rows' = rows /\ heard' = heard
      /\ announced' = announced /\ made' = made /\ waiter' = waiter
  BY DEF Moods!SaveRecord, Moods!In, Moods!Goes
<1>2. /\ turn[k] \in Handling /\ s \in Scopes /\ c \in Moods!Categories
      /\ turn[k].recs \in Seq(Mistake) /\ mistakes \in [Scopes -> Seq(Mistake)]
  BY <1>1, MessagesAre DEF FeelInv, FeelTyped, Handling, Message
<1>3. <<>> \in Seq(Mistake) /\ "apologizing" \in FeelPhases
  BY DEF FeelPhases
<1>4. ShownInv
  BY DEF FeelInv
<1>5. /\ x \in Handling /\ (x.phase = "apologizing" \/ x.phase = "idle")
      /\ SeenBy(mood, x) /\ HearsAll(rows, x)
  <2>1. CASE Moods!Apology(turn[k].text)
    <3>. DEFINE y == [turn[k] EXCEPT !.phase = "apologizing", !.recs = <<>>]
    <3>1. /\ y \in Handling /\ y.phase = "apologizing" /\ y.scope = s
          /\ y.tone = turn[k].tone /\ y.due = turn[k].due
          /\ y.blamed = turn[k].blamed /\ y.met = turn[k].met
      BY <1>2, <1>3 DEF Handling, Message
    <3>2. x = y
      BY <2>1
    <3>. HIDE DEF x, y
    <3>3. SeenBy(mood, y) /\ HearsAll(rows, y)
      BY <1>4, <3>1 DEF ShownInv, SeenBy, HearsAll, Tagged
    <3>. QED
      BY <3>1, <3>2, <3>3
  <2>2. CASE ~Moods!Apology(turn[k].text)
    <3>1. x = Moods!Idle
      BY <2>2
    <3>. HIDE DEF x
    <3>. QED
      BY <3>1, IdleIsHandled DEF SeenBy, HearsAll, Tagged
  <2>. QED
    BY <2>1, <2>2
<1>. HIDE DEF x
<1>6. FirstToTell(announced, x) /\ x.phase \notin Moods!Answering
  BY <1>5 DEF FirstToTell, Moods!Answering
<1>7. ShownInv'
  BY <1>1, <1>5, <1>6, ShownStays
<1>8. ASSUME NEW d, NEW n \in Int, Within(turn[k].recs, d, n)
      PROVE  l \in Seq(Mistake) /\ Within(l, d, IF c = d THEN n + 1 ELSE n)
  BY <1>2, <1>8, RecordedWithin
<1>9. ~Noting(x) /\ ~Copied(x) /\ Noting(turn[k]) /\ Copied(turn[k])
  BY <1>1, <1>5 DEF Noting, Copied
<1>10. \A j \in Threads : turn'[j] = IF j = k THEN x ELSE turn[j]
  BY <1>1, MessagesAre
<1>11. ASSUME NEW d \in Moods!Categories
       PROVE  Within(turn[k].recs, d, Noted(s, d, made, turn, waiter))
  BY <1>2, <1>9, BlameOf DEF BlameAt
<1>12. l \in Seq(Mistake)
  <2>1. Noted(s, c, made, turn, waiter) \in Int
    BY <1>2, BlameOf
  <2>. QED
    BY <1>2, <1>8, <1>11, <2>1
<1>. HIDE DEF l
<1>13. FeelTyped'
  BY <1>1, <1>2, <1>5, <1>12 DEF FeelInv, FeelTyped
<1>14. BlameInv'
  <2>. SUFFICES ASSUME NEW r \in Scopes, NEW d \in Moods!Categories
                PROVE  BlameAt(r, d, mistakes', made', turn', waiter')
    BY DEF BlameInv
  <2>. DEFINE o == Noted(r, d, made, turn, waiter)
              n == Noted(r, d, made', turn', waiter')
  <2>1. /\ IsFiniteSet(Pend(r, d, turn)) /\ Cardinality(Pend(r, d, turn)) \in Nat
        /\ made[r][d] \in Nat /\ o \in Int
    BY BlameOf
  <2>2. Wait(r, d, waiter) \in Int
    BY DEF Wait
  <2>3. CASE r = s /\ d = c
    <3>1. ~Notes(x, r, d) /\ Notes(turn[k], r, d)
      BY <1>9, <2>3 DEF Notes
    <3>2. /\ IsFiniteSet(Pend(r, d, turn'))
          /\ Cardinality(Pend(r, d, turn')) = Cardinality(Pend(r, d, turn)) - 1
      <4>1. turn' = [turn EXCEPT ![k] = x]
        BY <1>1
      <4>2. IsFiniteSet(Pend(r, d, turn))
        BY <2>1
      <4>. QED
        BY <3>1, <4>1, <4>2, PendLess
    <3>3. n = o + 1
      BY <1>1, <2>1, <2>2, <3>2 DEF Noted
    <3>4. Within(l, d, o + 1)
      BY <1>8, <1>11, <2>1, <2>3
    <3>5. mistakes'[r] = l
      BY <1>1, <1>2, <2>3
    <3>6. \A j \in Threads : Copied(turn'[j]) /\ turn'[j].scope = r =>
             Copied(turn[j]) /\ turn[j].scope = r /\ turn'[j].recs = turn[j].recs
      BY <1>9, <1>10
    <3>. HIDE DEF o, n
    <3>7. n \in Int /\ o <= n /\ Within(mistakes'[r], d, n)
      BY <2>1, <3>3, <3>4, <3>5
    <3>. QED
      BY <1>1, <3>2, <3>6, <3>7, BlameGrows DEF o, n
  <2>4. CASE r # s \/ d # c
    <3>1. Notes(x, r, d) <=> Notes(turn[k], r, d)
      BY <1>9, <2>4 DEF Notes
    <3>2. /\ IsFiniteSet(Pend(r, d, turn'))
          /\ Cardinality(Pend(r, d, turn')) = Cardinality(Pend(r, d, turn))
      <4>1. turn' = [turn EXCEPT ![k] = x]
        BY <1>1
      <4>2. IsFiniteSet(Pend(r, d, turn))
        BY <2>1
      <4>. QED
        BY <3>1, <4>1, <4>2, PendSame
    <3>3. n = o
      BY <1>1, <2>1, <2>2, <3>2 DEF Noted
    <3>4. mistakes'[r] = mistakes[r] \/ Within(mistakes'[r], d, o)
      <4>1. CASE r = s
        <5>1. d # c /\ mistakes'[r] = l
          BY <1>1, <1>2, <2>4, <4>1
        <5>2. Within(l, d, o)
          BY <1>8, <1>11, <2>1, <4>1, <5>1
        <5>. QED
          BY <5>1, <5>2
      <4>2. CASE r # s
        BY <1>1, <1>2, <4>2
      <4>. QED
        BY <4>1, <4>2
    <3>5. \A j \in Threads : Copied(turn'[j]) /\ turn'[j].scope = r =>
             Copied(turn[j]) /\ turn[j].scope = r /\ turn'[j].recs = turn[j].recs
      BY <1>9, <1>10
    <3>. HIDE DEF o, n
    <3>6. n \in Int /\ o <= n /\ (mistakes'[r] = mistakes[r] \/ Within(mistakes'[r], d, n))
      BY <2>1, <3>3, <3>4
    <3>. QED
      BY <1>1, <3>2, <3>5, <3>6, BlameGrows DEF o, n
  <2>. QED
    BY <2>3, <2>4
<1>. QED
  BY <1>7, <1>13, <1>14 DEF FeelInv

LEMMA NextSaveApology == ASSUME FeelInv, NEW k \in Threads, Moods!SaveApology(k) PROVE FeelInv'
<1>. DEFINE s == turn[k].scope
            x == Moods!Idle
<1>1. /\ turn[k].phase = "apologized" /\ turn' = [turn EXCEPT ![k] = x]
      /\ now' = now /\ mood' = mood /\ rows' = rows /\ heard' = heard
      /\ announced' = announced /\ made' = made /\ waiter' = waiter
  BY DEF Moods!SaveApology, Moods!In, Moods!Goes
<1>2. PICK forgiven :
        mistakes' = [mistakes EXCEPT ![s] = Moods!Apologized(turn[k].recs, forgiven)]
  BY DEF Moods!SaveApology
<1>. DEFINE l == Moods!Apologized(turn[k].recs, forgiven)
<1>3. /\ turn[k] \in Handling /\ s \in Scopes
      /\ turn[k].recs \in Seq(Mistake) /\ mistakes \in [Scopes -> Seq(Mistake)]
  BY <1>1, MessagesAre DEF FeelInv, FeelTyped, Handling, Message
<1>4. l \in Seq(Mistake) /\ \A d, n : Within(turn[k].recs, d, n) => Within(l, d, n)
  BY <1>3, ApologizedWithin
<1>5. mistakes' = [mistakes EXCEPT ![s] = l]
  BY <1>2
<1>. HIDE DEF l
<1>6. /\ x \in Handling /\ x.phase = "idle" /\ x.blamed = FALSE /\ x.tone = x.due
  BY IdleIsHandled
<1>. HIDE DEF x
<1>7. x.phase \notin Moods!Answering
  BY <1>6 DEF Moods!Answering
<1>8. ShownInv'
  BY <1>1, <1>6, <1>7, LaterShown
<1>9. FeelTyped'
  BY <1>1, <1>3, <1>4, <1>5, <1>6 DEF FeelInv, FeelTyped
<1>10. ~Noting(x) /\ ~Copied(x) /\ ~Noting(turn[k]) /\ Copied(turn[k])
  BY <1>1, <1>6 DEF Noting, Copied
<1>11. \A j \in Threads : turn'[j] = IF j = k THEN x ELSE turn[j]
  BY <1>1, MessagesAre
<1>12. BlameInv'
  <2>. SUFFICES ASSUME NEW r \in Scopes, NEW d \in Moods!Categories
                PROVE  BlameAt(r, d, mistakes', made', turn', waiter')
    BY DEF BlameInv
  <2>. DEFINE o == Noted(r, d, made, turn, waiter)
              n == Noted(r, d, made', turn', waiter')
  <2>1. /\ IsFiniteSet(Pend(r, d, turn)) /\ Cardinality(Pend(r, d, turn)) \in Nat
        /\ made[r][d] \in Nat /\ o \in Int /\ BlameAt(r, d, mistakes, made, turn, waiter)
    BY BlameOf
  <2>2. Notes(x, r, d) <=> Notes(turn[k], r, d)
    BY <1>10 DEF Notes
  <2>3. /\ IsFiniteSet(Pend(r, d, turn'))
        /\ Cardinality(Pend(r, d, turn')) = Cardinality(Pend(r, d, turn))
    <3>1. turn' = [turn EXCEPT ![k] = x]
      BY <1>1
    <3>2. IsFiniteSet(Pend(r, d, turn))
      BY <2>1
    <3>. QED
      BY <2>2, <3>1, <3>2, PendSame
  <2>4. n = o
    BY <1>1, <2>1, <2>3 DEF Noted
  <2>5. mistakes'[r] = mistakes[r] \/ Within(mistakes'[r], d, o)
    <3>1. CASE r = s
      <4>1. Within(turn[k].recs, d, o)
        BY <1>10, <2>1, <3>1 DEF BlameAt
      <4>2. mistakes'[r] = l
        BY <1>3, <1>5, <3>1
      <4>. QED
        BY <1>4, <4>1, <4>2
    <3>2. CASE r # s
      BY <1>3, <1>5, <3>2
    <3>. QED
      BY <3>1, <3>2
  <2>6. \A j \in Threads : Copied(turn'[j]) /\ turn'[j].scope = r =>
           Copied(turn[j]) /\ turn[j].scope = r /\ turn'[j].recs = turn[j].recs
    BY <1>10, <1>11
  <2>. HIDE DEF o, n
  <2>7. n \in Int /\ o <= n /\ (mistakes'[r] = mistakes[r] \/ Within(mistakes'[r], d, n))
    BY <2>1, <2>4, <2>5
  <2>. QED
    BY <1>1, <2>3, <2>6, <2>7, BlameGrows DEF o, n
<1>. QED
  BY <1>8, <1>9, <1>12 DEF FeelInv

\* What the messages show does not depend on the loop of appointments.
LEMMA LoopShows ==
    ASSUME FeelInv, turn' = turn, mood' = mood, rows' = rows, heard' = heard,
           announced' = announced
    PROVE  ShownInv'
BY DEF FeelInv, ShownInv

LEMMA NextMiss == ASSUME FeelInv, NEW s \in Scopes, Moods!Miss(s) PROVE FeelInv'
<1>. DEFINE w == [phase |-> "recorded", scope |-> s, recs |-> mistakes[s]]
<1>1. /\ waiter.phase = "idle" /\ made' = [made EXCEPT ![s]["late"] = @ + 1]
      /\ waiter' = w
      /\ now' = now /\ mood' = mood /\ rows' = rows /\ heard' = heard
      /\ announced' = announced /\ mistakes' = mistakes /\ turn' = turn
  BY DEF Moods!Miss
<1>2. /\ mistakes[s] \in Seq(Mistake) /\ made \in [Scopes -> [Moods!Categories -> Nat]]
      /\ "late" \in Moods!Categories
  BY DEF FeelInv, FeelTyped, Moods!Categories
<1>3. w \in Missing /\ w.phase = "recorded" /\ w.scope = s /\ w.recs = mistakes[s]
  BY <1>2 DEF Missing
<1>. HIDE DEF w
<1>4. made' \in [Scopes -> [Moods!Categories -> Nat]]
  <2>1. made' = [made EXCEPT ![s] = [made[s] EXCEPT !["late"] = made[s]["late"] + 1]]
    BY <1>1
  <2>2. made[s] \in [Moods!Categories -> Nat] /\ made[s]["late"] + 1 \in Nat
    BY <1>2
  <2>. QED
    BY <1>2, <2>1, <2>2
<1>5. FeelTyped'
  BY <1>1, <1>3, <1>4 DEF FeelInv, FeelTyped
<1>6. ShownInv'
  BY <1>1, LoopShows
<1>7. BlameInv'
  <2>. SUFFICES ASSUME NEW r \in Scopes, NEW d \in Moods!Categories
                PROVE  BlameAt(r, d, mistakes', made', turn', waiter')
    BY DEF BlameInv
  <2>. DEFINE o == Noted(r, d, made, turn, waiter)
              n == Noted(r, d, made', turn', waiter')
  <2>1. /\ IsFiniteSet(Pend(r, d, turn)) /\ Cardinality(Pend(r, d, turn)) \in Nat
        /\ made[r][d] \in Nat /\ o \in Int
    BY BlameOf
  <2>2. Pend(r, d, turn') = Pend(r, d, turn)
    BY <1>1
  <2>3. Wait(r, d, waiter) = 0
    BY <1>1 DEF Wait
  <2>4. n = o
    <3>1. CASE r = s /\ d = "late"
      <4>1. made'[r][d] = made[r][d] + 1
        BY <1>1, <1>2, <3>1
      <4>2. Wait(r, d, waiter') = 1
        BY <1>1, <1>3, <3>1 DEF Wait
      <4>. QED
        BY <2>1, <2>2, <2>3, <4>1, <4>2 DEF Noted
    <3>2. CASE r # s \/ d # "late"
      <4>1. made'[r][d] = made[r][d]
        BY <1>1, <1>2, <3>2
      <4>2. Wait(r, d, waiter') = 0
        BY <1>1, <1>3, <3>2 DEF Wait
      <4>. QED
        BY <2>1, <2>2, <2>3, <4>1, <4>2 DEF Noted
    <3>. QED
      BY <3>1, <3>2
  <2>5. \A j \in Threads : Copied(turn'[j]) /\ turn'[j].scope = r =>
           Copied(turn[j]) /\ turn[j].scope = r /\ turn'[j].recs = turn[j].recs
    BY <1>1
  <2>6. waiter'.phase = "recorded" /\ waiter'.scope = r =>
             waiter' = waiter \/ waiter'.recs = mistakes[r]
    BY <1>1, <1>3
  <2>7. IsFiniteSet(Pend(r, d, turn')) /\ mistakes'[r] = mistakes[r]
    BY <1>1, <2>1, <2>2
  <2>. HIDE DEF o, n
  <2>8. n \in Int /\ o <= n
    BY <2>1, <2>4
  <2>. QED
    BY <2>5, <2>6, <2>7, <2>8, BlameGrows DEF o, n
<1>. QED
  BY <1>5, <1>6, <1>7 DEF FeelInv

LEMMA NextSaveNoShow == ASSUME FeelInv, Moods!SaveNoShow PROVE FeelInv'
<1>. DEFINE s == waiter.scope
            l == Moods!Recorded(waiter.recs, "late")
<1>1. /\ waiter.phase = "recorded" /\ mistakes' = [mistakes EXCEPT ![s] = l]
      /\ waiter' = Moods!NoWaiter
      /\ now' = now /\ mood' = mood /\ rows' = rows /\ heard' = heard
      /\ announced' = announced /\ made' = made /\ turn' = turn
  BY DEF Moods!SaveNoShow
<1>2. /\ s \in Scopes /\ waiter.recs \in Seq(Mistake)
      /\ mistakes \in [Scopes -> Seq(Mistake)] /\ "late" \in Moods!Categories
  BY <1>1 DEF FeelInv, FeelTyped, Missing, Moods!Categories
<1>3. waiter' \in Missing /\ waiter'.phase = "idle"
  <2>1. <<>> \in Seq(Mistake)
    OBVIOUS
  <2>. QED
    BY <1>1, <2>1 DEF Moods!NoWaiter, Missing
<1>4. ASSUME NEW d \in Moods!Categories
      PROVE  /\ Noted(s, d, made, turn, waiter) \in Int
             /\ l \in Seq(Mistake)
             /\ Within(l, d, IF "late" = d THEN Noted(s, d, made, turn, waiter) + 1
                             ELSE Noted(s, d, made, turn, waiter))
  <2>1. Noted(s, d, made, turn, waiter) \in Int
    BY <1>2, BlameOf
  <2>2. Within(waiter.recs, d, Noted(s, d, made, turn, waiter))
    BY <1>1, <1>2, BlameOf DEF BlameAt
  <2>. QED
    BY <1>2, <2>1, <2>2, RecordedWithin
<1>5. l \in Seq(Mistake)
  BY <1>2, <1>4
<1>. HIDE DEF l
<1>6. FeelTyped'
  BY <1>1, <1>2, <1>3, <1>5 DEF FeelInv, FeelTyped
<1>7. ShownInv'
  BY <1>1, LoopShows
<1>8. BlameInv'
  <2>. SUFFICES ASSUME NEW r \in Scopes, NEW d \in Moods!Categories
                PROVE  BlameAt(r, d, mistakes', made', turn', waiter')
    BY DEF BlameInv
  <2>. DEFINE o == Noted(r, d, made, turn, waiter)
              n == Noted(r, d, made', turn', waiter')
  <2>1. /\ IsFiniteSet(Pend(r, d, turn)) /\ Cardinality(Pend(r, d, turn)) \in Nat
        /\ made[r][d] \in Nat /\ o \in Int
    BY BlameOf
  <2>2. Pend(r, d, turn') = Pend(r, d, turn)
    BY <1>1
  <2>3. Wait(r, d, waiter') = 0
    BY <1>3 DEF Wait
  <2>4. n \in Int /\ o <= n /\ (mistakes'[r] = mistakes[r] \/ Within(mistakes'[r], d, n))
    <3>1. CASE r = s /\ d = "late"
      <4>1. Wait(r, d, waiter) = 1
        BY <1>1, <3>1 DEF Wait
      <4>2. n = o + 1
        BY <1>1, <2>1, <2>2, <2>3, <4>1 DEF Noted
      <4>3. Within(l, d, o + 1)
        BY <1>4, <3>1
      <4>4. mistakes'[r] = l
        BY <1>1, <1>2, <3>1
      <4>. HIDE DEF o, n
      <4>. QED
        BY <2>1, <4>2, <4>3, <4>4
    <3>2. CASE r # s \/ d # "late"
      <4>1. Wait(r, d, waiter) = 0
        BY <1>1, <3>2 DEF Wait
      <4>2. n = o
        BY <1>1, <2>1, <2>2, <2>3, <4>1 DEF Noted
      <4>3. mistakes'[r] = mistakes[r] \/ Within(mistakes'[r], d, o)
        <5>1. CASE r = s
          <6>1. d # "late" /\ mistakes'[r] = l
            BY <1>1, <1>2, <3>2, <5>1
          <6>2. Within(l, d, o)
            BY <1>4, <5>1, <6>1
          <6>. QED
            BY <6>1, <6>2
        <5>2. CASE r # s
          BY <1>1, <1>2, <5>2
        <5>. QED
          BY <5>1, <5>2
      <4>. HIDE DEF o, n
      <4>. QED
        BY <2>1, <4>2, <4>3
    <3>. QED
      BY <3>1, <3>2
  <2>5. \A j \in Threads : Copied(turn'[j]) /\ turn'[j].scope = r =>
           Copied(turn[j]) /\ turn[j].scope = r /\ turn'[j].recs = turn[j].recs
    BY <1>1
  <2>6. ~(waiter'.phase = "recorded")
    BY <1>3
  <2>7. IsFiniteSet(Pend(r, d, turn'))
    BY <2>1, <2>2
  <2>. HIDE DEF o, n
  <2>. QED
    BY <2>4, <2>5, <2>6, <2>7, BlameGrows DEF o, n
<1>. QED
  BY <1>6, <1>7, <1>8 DEF FeelInv

-----------------------------------------------------------------------------

LEMMA NextOfFeelings == ASSUME FeelInv, Moods!Next PROVE FeelInv'
<1>1. ASSUME NEW k \in Threads, NEW s \in Scopes, NEW text \in Moods!Texts,
             Moods!Begin(k, s, text)
      PROVE  FeelInv'
  BY <1>1, NextBegin
<1>2. ASSUME NEW k \in Threads,
             \/ Moods!SaveMood(k) \/ Moods!ReadSaved(k) \/ Moods!TagMood(k)
             \/ Moods!ReadRows(k) \/ Moods!Observe(k) \/ Moods!CheckReturn(k)
             \/ Moods!Announce(k) \/ Moods!Reply(k)
      PROVE  FeelInv'
  BY <1>2, NextSaveMood, NextReadSaved, NextTagMood, NextReadRows, NextObserve,
     NextCheckReturn, NextAnnounce, NextReply
<1>3. ASSUME NEW k \in Threads,
             \/ Moods!AfterChat(k) \/ Moods!ReadMistakes(k) \/ Moods!SaveRecord(k)
             \/ Moods!SaveApology(k)
      PROVE  FeelInv'
  BY <1>3, NextAfterChat, NextReadMistakes, NextSaveRecord, NextSaveApology
<1>4. ASSUME NEW s \in Scopes, Moods!Miss(s) PROVE FeelInv'
  BY <1>4, NextMiss
<1>. QED
  BY <1>1, <1>2, <1>3, <1>4, NextTick, NextSaveNoShow DEF Moods!Next

LEMMA StutterFeelings == ASSUME FeelInv, UNCHANGED <<now, feelingVars>> PROVE FeelInv'
<1>1. /\ now' = now /\ mood' = mood /\ rows' = rows /\ heard' = heard
      /\ announced' = announced /\ mistakes' = mistakes /\ made' = made /\ turn' = turn
      /\ waiter' = waiter
  BY DEF feelingVars
<1>2. FeelTyped'
  BY <1>1 DEF FeelInv, FeelTyped
<1>3. ShownInv'
  BY <1>1, LoopShows
<1>4. BlameInv'
  BY <1>1 DEF FeelInv, BlameInv
<1>. QED
  BY <1>2, <1>3, <1>4 DEF FeelInv

LEMMA FeelingsMean ==
    ASSUME FeelInv
    PROVE  /\ Moods!BlamedOnlyInOverlap /\ Moods!ToneIsCurrent /\ Moods!BlamedForHisOwn
           /\ Moods!ReturnToldOnce
<1>1. ShownInv
  BY DEF FeelInv
<1>2. Moods!BlamedOnlyInOverlap
  BY <1>1 DEF ShownInv, SeenBy, Moods!BlamedOnlyInOverlap
<1>3. Moods!ToneIsCurrent
  BY <1>1 DEF ShownInv, HearsAll, Moods!ToneIsCurrent
<1>4. Moods!ReturnToldOnce
  BY <1>1 DEF ShownInv, Moods!ReturnToldOnce
<1>5. Moods!BlamedForHisOwn
  <2>. SUFFICES ASSUME NEW s \in Scopes, NEW c \in Moods!Categories
                PROVE  LET his == {i \in DOMAIN mistakes[s] : mistakes[s][i].cat = c}
                           Count(i) == mistakes[s][i].count
                       IN  /\ Moods!Cardinality(his) <= made[s][c]
                           /\ \A i, j \in his :
                                Count(i) + (IF i = j THEN 0 ELSE Count(j)) <= made[s][c]
    BY DEF Moods!BlamedForHisOwn
  <2>. DEFINE l == mistakes[s]
              o == Noted(s, c, made, turn, waiter)
  <2>1. /\ l \in Seq(Mistake) /\ Within(l, c, o) /\ o \in Int /\ made[s][c] \in Nat
        /\ Cardinality(Pend(s, c, turn)) \in Nat
    BY BlameOf
  <2>2. Wait(s, c, waiter) \in Nat
    BY DEF Wait
  <2>3. o <= made[s][c]
    BY <2>1, <2>2 DEF Noted
  <2>. HIDE DEF o
  <2>4. Within(l, c, made[s][c])
    BY <2>1, <2>3, WithinMore
  <2>5. DOMAIN l = 1..Len(l)
    BY <2>1, LenProperties
  <2>6. {i \in DOMAIN mistakes[s] : mistakes[s][i].cat = c} = Those(l, c)
    BY <2>5 DEF Those
  <2>7. Moods!Cardinality(Those(l, c)) <= made[s][c]
    BY <2>4, SameCount DEF Within
  <2>8. \A i \in Those(l, c) : l[i].count \in Nat
    BY <2>1, ThoseAreFew
  <2>9. \A i, j \in Those(l, c) :
           l[i].count + (IF i = j THEN 0 ELSE l[j].count) <= made[s][c]
    <3>. SUFFICES ASSUME NEW i \in Those(l, c), NEW j \in Those(l, c)
                  PROVE  l[i].count + (IF i = j THEN 0 ELSE l[j].count) <= made[s][c]
      OBVIOUS
    <3>1. CASE i = j
      BY <2>4, <2>8, <3>1 DEF Within
    <3>2. CASE i # j
      BY <2>4, <2>8, <3>2 DEF Within
    <3>. QED
      BY <3>1, <3>2
  <2>. QED
    BY <2>6, <2>7, <2>9
<1>. QED
  BY <1>2, <1>3, <1>4, <1>5

-----------------------------------------------------------------------------
(* What feelings are bounded by *)

TimesBounded ==
    /\ now \in 0..MaxTime
    /\ lastmsg \in [Scopes -> {Moods!Never} \cup 0..MaxTime]
    /\ \A s \in Scopes : Len(rows[s]) <= Window

\* The messages after which nothing is recorded yet, and those that are not over.
IsEarly(x) == x.phase \in Moods!Answering \cup {"replied"}
GoesOn(x) == x.phase # "idle"
Early(tn) == {k \in Threads : IsEarly(tn[k])}
Still(tn) == {k \in Threads : GoesOn(tn[k])}

\* No mistake of a list was apologized for more than n times.
Sorry(l, n) == \A i \in 1..Len(l) : l[i].count >= 1 /\ l[i].apologies <= n

\* A message makes one mistake at most after its reply, and apologizes once at its end.
CountsBounded ==
    /\ turns \in 0..MaxTurns /\ waits \in 0..MaxWaits
    /\ IsFiniteSet(Early(turn)) /\ IsFiniteSet(Still(turn))
    /\ Cardinality(Still(turn)) <= turns
    /\ \A s \in Scopes, c \in Moods!Categories :
         made[s][c] <= turns + waits - Cardinality(Early(turn))
    /\ \A s \in Scopes : Sorry(mistakes[s], turns - Cardinality(Still(turn)))
    /\ \A k \in Threads : Sorry(turn[k].recs, turns - Cardinality(Still(turn)))
    /\ Sorry(waiter.recs, turns - Cardinality(Still(turn)))

FeelBounded == TimesBounded /\ CountsBounded

LEMMA FeelCounts == MaxTurns \in Nat /\ MaxWaits \in Nat /\ MaxTime \in Nat
BY BoundsAssumption

LEMMA NothingIsSorry == \A n : Sorry(<<>>, n)
<1>1. Len(<<>>) = 0
  BY EmptySeq
<1>. QED
  BY <1>1 DEF Sorry

LEMMA IdleIsOver == /\ Moods!Idle.recs = <<>> /\ ~IsEarly(Moods!Idle) /\ ~GoesOn(Moods!Idle)
                    /\ Moods!NoWaiter.recs = <<>>
BY DEF Moods!Idle, Moods!NoWaiter, IsEarly, GoesOn, Moods!Answering

LEMMA SorryMore ==
    ASSUME NEW l \in Seq(Mistake), NEW n \in Int, NEW m \in Int, n <= m, Sorry(l, n)
    PROVE  Sorry(l, m)
<1>1. \A i \in 1..Len(l) : l[i] \in Mistake
  BY ElementOfSeq
<1>. SUFFICES ASSUME NEW i \in 1..Len(l) PROVE l[i].count >= 1 /\ l[i].apologies <= m
  BY DEF Sorry
<1>2. l[i].apologies \in Nat /\ l[i].apologies <= n /\ l[i].count >= 1
  BY <1>1 DEF Sorry, Mistake
<1>. QED
  BY <1>2

\* What is recorded is a mistake nobody apologized for, or counts one more.
LEMMA RecordedSorry ==
    ASSUME NEW l \in Seq(Mistake), NEW c \in Moods!Categories, NEW n \in Nat, Sorry(l, n)
    PROVE  Sorry(Moods!Recorded(l, c), n)
<1>. DEFINE active == {i \in DOMAIN l : l[i].cat = c /\ l[i].status = "active"}
            first == CHOOSE i \in active : \A j \in active : i <= j
            r == [cat |-> c, count |-> 1, apologies |-> 0, status |-> "active"]
<1>1. Moods!Recorded(l, c) =
        IF active = {} THEN Append(l, r) ELSE [l EXCEPT ![first].count = @ + 1]
  BY DEF Moods!Recorded
<1>2. DOMAIN l = 1..Len(l) /\ Len(l) \in Nat /\ \A i \in 1..Len(l) : l[i] \in Mistake
  BY LenProperties, ElementOfSeq
<1>3. CASE active = {}
  <2>1. r \in Mistake /\ r.count = 1 /\ r.apologies = 0
    BY DEF Mistake
  <2>. DEFINE m == Append(l, r)
  <2>. HIDE DEF r
  <2>2. /\ Len(m) = Len(l) + 1 /\ m[Len(l) + 1] = r
        /\ \A i \in 1..Len(l) : m[i] = l[i]
    BY <2>1, AppendProperties
  <2>. HIDE DEF m
  <2>3. \A i \in 1..Len(m) : i \in 1..Len(l) \/ i = Len(l) + 1
    BY <1>2, <2>2
  <2>4. Sorry(m, n)
    BY <2>1, <2>2, <2>3 DEF Sorry
  <2>. QED
    BY <1>1, <1>3, <2>4 DEF m
<1>4. CASE active # {}
  <2>1. active \in SUBSET Nat
    BY <1>2
  <2>2. \A i \in active : i \in 1..Len(l)
    BY <1>2
  <2>. HIDE DEF active
  <2>3. first \in 1..Len(l)
    BY <1>4, <2>1, <2>2, FirstOfThem
  <2>. HIDE DEF first
  <2>. DEFINE x == [l[first] EXCEPT !.count = l[first].count + 1]
              m == [l EXCEPT ![first] = x]
  <2>4. [l EXCEPT ![first].count = @ + 1] = m
    OBVIOUS
  <2>5. l[first] \in Mistake /\ l[first].count + 1 \in Nat /\ l[first].count \in Nat
        /\ l[first].count >= 1 /\ l[first].apologies <= n
    BY <1>2, <2>3 DEF Mistake, Sorry
  <2>6. x \in Mistake /\ x.count = l[first].count + 1 /\ x.apologies = l[first].apologies
    BY <2>5 DEF Mistake
  <2>. HIDE DEF x
  <2>7. x.count >= 1 /\ x.apologies <= n
    BY <2>5, <2>6
  <2>8. Len(m) = Len(l) /\ \A i \in 1..Len(l) : m[i] = IF i = first THEN x ELSE l[i]
    BY <2>3, <2>6, ExceptSeq
  <2>. HIDE DEF m
  <2>9. Sorry(m, n)
    BY <2>7, <2>8 DEF Sorry
  <2>. QED
    BY <1>1, <1>4, <2>4, <2>9
<1>. QED
  BY <1>3, <1>4

LEMMA ApologizedSorry ==
    ASSUME NEW l \in Seq(Mistake), NEW forgiven, NEW n \in Nat, Sorry(l, n)
    PROVE  Sorry(Moods!Apologized(l, forgiven), n + 1)
<1>. DEFINE r(i) == IF l[i].status # "active" THEN l[i]
                    ELSE [l[i] EXCEPT !.apologies = @ + 1,
                                      !.status = IF i \in forgiven THEN "forgiven" ELSE @]
            m == [i \in DOMAIN l |-> r(i)]
<1>1. Moods!Apologized(l, forgiven) = m
  BY DEF Moods!Apologized
<1>2. DOMAIN l = 1..Len(l) /\ Len(l) \in Nat /\ \A i \in 1..Len(l) : l[i] \in Mistake
  BY LenProperties, ElementOfSeq
<1>3. \A i \in 1..Len(l) : r(i) \in Mistake /\ r(i).count >= 1 /\ r(i).apologies <= n + 1
  <2>. SUFFICES ASSUME NEW i \in 1..Len(l)
                PROVE  r(i) \in Mistake /\ r(i).count >= 1 /\ r(i).apologies <= n + 1
    OBVIOUS
  <2>. DEFINE was == l[i]
              said == IF i \in forgiven THEN "forgiven" ELSE was.status
  <2>1. was \in Mistake /\ was.count >= 1 /\ was.apologies <= n
    BY <1>2 DEF Sorry
  <2>2. r(i) = IF was.status # "active" THEN was
               ELSE [was EXCEPT !.apologies = was.apologies + 1, !.status = said]
    OBVIOUS
  <2>3. was.apologies + 1 \in Nat /\ said \in {"active", "forgiven"} /\ was.apologies \in Nat
    BY <2>1 DEF Mistake
  <2>. HIDE DEF r, was, said
  <2>4. CASE was.status # "active"
    <3>1. r(i) = was
      BY <2>2, <2>4
    <3>2. was.apologies <= n + 1
      BY <2>1, <2>3
    <3>. QED
      BY <2>1, <3>1, <3>2
  <2>5. CASE was.status = "active"
    <3>1. r(i) = [was EXCEPT !.apologies = was.apologies + 1, !.status = said]
      BY <2>2, <2>5
    <3>2. r(i) \in Mistake /\ r(i).count = was.count /\ r(i).apologies = was.apologies + 1
      BY <2>1, <2>3, <3>1 DEF Mistake
    <3>3. was.apologies + 1 <= n + 1
      BY <2>1, <2>3
    <3>. QED
      BY <2>1, <3>2, <3>3
  <2>. QED
    BY <2>4, <2>5
<1>. HIDE DEF r
<1>4. m \in [1..Len(l) -> Mistake]
  BY <1>2, <1>3
<1>5. m \in Seq(Mistake) /\ DOMAIN m = 1..Len(l) /\ \A i \in 1..Len(l) : m[i] = r(i)
  BY <1>2, <1>4, SeqDef
<1>. HIDE DEF m
<1>6. 1..Len(m) = 1..Len(l)
  BY <1>5, LenProperties
<1>7. Sorry(m, n + 1)
  BY <1>3, <1>5, <1>6 DEF Sorry
<1>. QED
  BY <1>1, <1>7

LEMMA FeelBoundedStarts == Moods!Init => FeelBounded
<1>. SUFFICES ASSUME Moods!Init PROVE FeelBounded
  OBVIOUS
<1>1. /\ now = 0 /\ turns = 0 /\ waits = 0
      /\ rows = [s \in Scopes |-> IF s \in Private THEN Moods!Last(<<-7, -7>>, Window) ELSE <<>>]
      /\ lastmsg = [s \in Scopes |-> IF s \in Private THEN 0 ELSE Moods!Never]
      /\ mistakes = [s \in Scopes |-> <<>>]
      /\ made = [s \in Scopes |-> [c \in Moods!Categories |-> 0]]
      /\ turn = [k \in Threads |-> Moods!Idle] /\ waiter = Moods!NoWaiter
  BY DEF Moods!Init
<1>2. 0 \in 0..MaxTime /\ 0 \in 0..MaxTurns /\ 0 \in 0..MaxWaits
  BY FeelCounts
<1>3. Len(Moods!Last(<<-7, -7>>, Window)) <= Window
  <2>. DEFINE sad == <<-7, -7>>
  <2>1. sad \in Seq(Int) /\ Len(sad) = 2
    OBVIOUS
  <2>. HIDE DEF sad
  <2>2. Len(Moods!Last(sad, Window)) = IF Len(sad) > Window THEN Window ELSE Len(sad)
    BY <2>1, FeelConstants, LastOfSeq
  <2>3. Len(Moods!Last(sad, Window)) <= Window
    BY <2>1, <2>2, FeelConstants
  <2>. QED
    BY <2>3 DEF sad
<1>4. TimesBounded
  <2>1. lastmsg \in [Scopes -> {Moods!Never} \cup 0..MaxTime]
    BY <1>1, <1>2
  <2>2. \A s \in Scopes : Len(rows[s]) <= Window
    <3>. SUFFICES ASSUME NEW s \in Scopes PROVE Len(rows[s]) <= Window
      OBVIOUS
    <3>1. CASE s \in Private
      <4>1. rows[s] = Moods!Last(<<-7, -7>>, Window)
        BY <1>1, <3>1
      <4>. QED
        BY <1>3, <4>1
    <3>2. CASE s \notin Private
      <4>1. rows[s] = <<>>
        BY <1>1, <3>2
      <4>. QED
        BY <4>1, EmptySeq, FeelConstants
    <3>. QED
      BY <3>1, <3>2
  <2>. QED
    BY <1>1, <1>2, <2>1, <2>2 DEF TimesBounded
<1>5. Early(turn) = {} /\ Still(turn) = {}
  BY <1>1, IdleIsOver DEF Early, Still
<1>6. /\ IsFiniteSet(Early(turn)) /\ IsFiniteSet(Still(turn))
      /\ Cardinality(Early(turn)) = 0 /\ Cardinality(Still(turn)) = 0
  BY <1>5, FS_EmptySet
<1>7. /\ \A s \in Scopes : mistakes[s] = <<>> /\ \A c \in Moods!Categories : made[s][c] = 0
      /\ \A k \in Threads : turn[k].recs = <<>>
      /\ waiter.recs = <<>>
  BY <1>1, IdleIsOver
<1>8. CountsBounded
  BY <1>1, <1>2, <1>6, <1>7, NothingIsSorry DEF CountsBounded
<1>. QED
  BY <1>4, <1>8 DEF FeelBounded

\* How a set changes that may gain or lose k.
LEMMA OneMoves ==
    ASSUME NEW S, NEW T, NEW k, IsFiniteSet(S), \A j : j # k => (j \in S <=> j \in T)
    PROVE  /\ IsFiniteSet(T) /\ Cardinality(S) \in Nat /\ Cardinality(T) \in Nat
           /\ Cardinality(T) + (IF k \in S THEN 1 ELSE 0)
              = Cardinality(S) + (IF k \in T THEN 1 ELSE 0)
<1>1. Cardinality(S) \in Nat
  BY FS_CardinalityType
<1>2. CASE k \in S <=> k \in T
  <2>1. S = T
    BY <1>2
  <2>. QED
    BY <1>1, <2>1
<1>3. CASE k \in S /\ k \notin T
  <2>1. T = S \ {k}
    BY <1>3
  <2>2. IsFiniteSet(T) /\ Cardinality(T) = Cardinality(S) - 1
    BY <1>3, <2>1, FS_RemoveElement
  <2>3. Cardinality(T) \in Nat
    BY <2>2, FS_CardinalityType
  <2>. QED
    BY <1>1, <1>3, <2>2, <2>3
<1>4. CASE k \notin S /\ k \in T
  <2>1. T = S \cup {k}
    BY <1>4
  <2>2. IsFiniteSet(T) /\ Cardinality(T) = Cardinality(S) + 1
    BY <1>4, <2>1, FS_AddElement
  <2>. QED
    BY <1>1, <1>4, <2>2
<1>. QED
  BY <1>2, <1>3, <1>4

One(b) == IF b THEN 1 ELSE 0

\* A message goes on: it counts as it did, or makes the mistake it may make; m is what a list
\* may be apologized for then.
LEMMA CountsGo ==
    ASSUME FeelInv, FeelInv', CountsBounded, NEW k \in Threads,
           \A j \in Threads : j # k => turn'[j].phase = turn[j].phase /\ turn'[j].recs = turn[j].recs,
           turns' \in 0..MaxTurns, waits' = waits, waiter' = waiter,
           \A s \in Scopes, c \in Moods!Categories :
             made'[s][c] + One(IsEarly(turn'[k])) <= made[s][c] + One(IsEarly(turn[k]))
                                                     + (turns' - turns),
           NEW m \in Int,
           m = turns - Cardinality(Still(turn)) + (turns' - turns) + One(GoesOn(turn[k]))
               - One(GoesOn(turn'[k])),
           turns - Cardinality(Still(turn)) <= m,
           \A s \in Scopes : mistakes'[s] = mistakes[s] \/ Sorry(mistakes'[s], m),
           Sorry(turn'[k].recs, m)
    PROVE  CountsBounded'
<1>. DEFINE e == Cardinality(Early(turn))
            f == Cardinality(Early(turn'))
            g == Cardinality(Still(turn))
            h == Cardinality(Still(turn'))
            n == turns - g
<1>1. /\ \A j : j # k => (j \in Early(turn) <=> j \in Early(turn'))
      /\ \A j : j # k => (j \in Still(turn) <=> j \in Still(turn'))
      /\ k \in Early(turn) <=> IsEarly(turn[k])
      /\ k \in Early(turn') <=> IsEarly(turn'[k])
      /\ k \in Still(turn) <=> GoesOn(turn[k])
      /\ k \in Still(turn') <=> GoesOn(turn'[k])
  BY DEF Early, Still, IsEarly, GoesOn
<1>2. IsFiniteSet(Early(turn)) /\ IsFiniteSet(Still(turn))
  BY DEF CountsBounded
<1>3. /\ IsFiniteSet(Early(turn')) /\ e \in Nat /\ f \in Nat
      /\ f + One(IsEarly(turn[k])) = e + One(IsEarly(turn'[k]))
  BY <1>1, <1>2, OneMoves DEF One
<1>4. /\ IsFiniteSet(Still(turn')) /\ g \in Nat /\ h \in Nat
      /\ h + One(GoesOn(turn[k])) = g + One(GoesOn(turn'[k]))
  BY <1>1, <1>2, OneMoves DEF One
<1>5. /\ turns \in 0..MaxTurns /\ waits \in 0..MaxWaits /\ g <= turns
      /\ turns \in Int /\ waits \in Int /\ turns' \in Int
      /\ \A s \in Scopes, c \in Moods!Categories : made[s][c] <= turns + waits - e
      /\ \A s \in Scopes : Sorry(mistakes[s], n)
      /\ \A j \in Threads : Sorry(turn[j].recs, n)
      /\ Sorry(waiter.recs, n)
  BY FeelCounts DEF CountsBounded
<1>6. /\ mistakes \in [Scopes -> Seq(Mistake)] /\ waiter.recs \in Seq(Mistake)
      /\ \A j \in Threads : turn[j].recs \in Seq(Mistake)
      /\ \A s \in Scopes, c \in Moods!Categories : made[s][c] \in Nat /\ made'[s][c] \in Nat
  <2>1. waiter.recs \in Seq(Mistake)
    BY DEF FeelInv, FeelTyped, Missing
  <2>2. \A j \in Threads : turn[j].recs \in Seq(Mistake)
    BY MessagesAre DEF Message
  <2>3. made' \in [Scopes -> [Moods!Categories -> Nat]]
    BY DEF FeelInv, FeelTyped
  <2>. QED
    BY <2>1, <2>2, <2>3 DEF FeelInv, FeelTyped
<1>7. m = n + (turns' - turns) + One(GoesOn(turn[k])) - One(GoesOn(turn'[k])) /\ n <= m
  OBVIOUS
<1>. HIDE DEF e, f, g, h
<1>8. /\ One(IsEarly(turn[k])) \in Int /\ One(IsEarly(turn'[k])) \in Int
      /\ One(GoesOn(turn[k])) \in Int /\ One(GoesOn(turn'[k])) \in Int
  BY DEF One
<1>9. turns' - h = m /\ n \in Int /\ h <= turns'
  BY <1>4, <1>5, <1>7, <1>8
<1>10. \A s \in Scopes, c \in Moods!Categories : made'[s][c] <= turns' + waits' - f
  <2>. SUFFICES ASSUME NEW s \in Scopes, NEW c \in Moods!Categories
                PROVE  made'[s][c] <= turns' + waits' - f
    OBVIOUS
  <2>. DEFINE a == made[s][c]
              b == made'[s][c]
              u == One(IsEarly(turn[k]))
              v == One(IsEarly(turn'[k]))
  <2>1. a \in Nat /\ b \in Nat /\ a <= turns + waits - e /\ b + v <= a + u + (turns' - turns)
        /\ u \in Int /\ v \in Int /\ f + u = e + v
    BY <1>3, <1>5, <1>6, <1>8
  <2>. HIDE DEF a, b, u, v
  <2>2. b <= turns' + waits' - f
    BY <1>3, <1>5, <2>1
  <2>. QED
    BY <2>2 DEF b
<1>. HIDE DEF n
<1>11. \A l \in Seq(Mistake) : Sorry(l, n) => Sorry(l, m)
  BY <1>7, <1>9, SorryMore
<1>12. /\ \A s \in Scopes : Sorry(mistakes'[s], m)
       /\ \A j \in Threads : Sorry(turn'[j].recs, m)
       /\ Sorry(waiter'.recs, m)
  BY <1>5, <1>6, <1>11
<1>13. turns' - Cardinality(Still(turn')) = m /\ Cardinality(Still(turn')) <= turns'
  BY <1>9 DEF h
<1>14. waits' \in 0..MaxWaits
  BY <1>5
<1>. QED
  BY <1>3, <1>4, <1>10, <1>12, <1>13, <1>14 DEF CountsBounded, f

\* The loop of appointments makes a mistake, or records one.
LEMMA LoopCounts ==
    ASSUME FeelInv, FeelInv', CountsBounded, turn' = turn, turns' = turns, waits' \in 0..MaxWaits,
           \A s \in Scopes, c \in Moods!Categories :
             made'[s][c] <= made[s][c] + (waits' - waits),
           \A s \in Scopes : \/ mistakes'[s] = mistakes[s]
                             \/ Sorry(mistakes'[s], turns - Cardinality(Still(turn))),
           Sorry(waiter'.recs, turns - Cardinality(Still(turn)))
    PROVE  CountsBounded'
<1>. DEFINE e == Cardinality(Early(turn))
            n == turns - Cardinality(Still(turn))
<1>1. /\ e \in Nat /\ turns \in Int /\ waits \in Int /\ waits' \in Int
      /\ \A s \in Scopes, c \in Moods!Categories : made[s][c] <= turns + waits - e
  BY FeelCounts, FS_CardinalityType DEF CountsBounded
<1>2. \A s \in Scopes, c \in Moods!Categories : made[s][c] \in Nat /\ made'[s][c] \in Nat
  <2>1. made' \in [Scopes -> [Moods!Categories -> Nat]]
    BY DEF FeelInv, FeelTyped
  <2>. QED
    BY <2>1 DEF FeelInv, FeelTyped
<1>. HIDE DEF e
<1>3. \A s \in Scopes, c \in Moods!Categories : made'[s][c] <= turns + waits' - e
  <2>. SUFFICES ASSUME NEW s \in Scopes, NEW c \in Moods!Categories
                PROVE  made'[s][c] <= turns + waits' - e
    OBVIOUS
  <2>. DEFINE a == made[s][c]
              b == made'[s][c]
              w == waits'
  <2>1. /\ a \in Nat /\ b \in Nat /\ a <= turns + waits - e /\ b <= a + (w - waits)
        /\ e \in Nat /\ turns \in Int /\ waits \in Int /\ w \in Int
    BY <1>1, <1>2
  <2>. HIDE DEF a, b, w
  <2>3. b <= turns + w - e
    BY <2>1
  <2>2. b <= turns + waits' - e
    BY <2>3 DEF w
  <2>. QED
    BY <2>2 DEF b
<1>4. \A s \in Scopes : Sorry(mistakes'[s], n)
  BY DEF CountsBounded
<1>. QED
  BY <1>3, <1>4 DEF CountsBounded, e

\* A step that only moves a message on.
LEMMA CountsStay ==
    ASSUME FeelInv, FeelInv', CountsBounded, NEW k \in Threads,
           \A j \in Threads : j # k => turn'[j].phase = turn[j].phase /\ turn'[j].recs = turn[j].recs,
           IsEarly(turn'[k]) <=> IsEarly(turn[k]), GoesOn(turn'[k]) <=> GoesOn(turn[k]),
           turn'[k].recs = turn[k].recs \/ \E s \in Scopes : turn'[k].recs = mistakes[s],
           turns' = turns, waits' = waits, waiter' = waiter, made' = made, mistakes' = mistakes
    PROVE  CountsBounded'
<1>. DEFINE m == turns - Cardinality(Still(turn))
<1>1. /\ turns \in 0..MaxTurns /\ turns \in Int
      /\ \A s \in Scopes : Sorry(mistakes[s], m)
      /\ \A j \in Threads : Sorry(turn[j].recs, m)
  BY FeelCounts DEF CountsBounded
<1>2. Cardinality(Still(turn)) \in Nat
  BY FS_CardinalityType DEF CountsBounded
<1>3. One(IsEarly(turn'[k])) = One(IsEarly(turn[k])) /\ One(GoesOn(turn'[k])) = One(GoesOn(turn[k]))
      /\ One(IsEarly(turn[k])) \in Int /\ One(GoesOn(turn[k])) \in Int
  BY DEF One
<1>4. m \in Int /\ m <= m /\ turns' - turns = 0
      /\ m = turns - Cardinality(Still(turn)) + (turns' - turns) + One(GoesOn(turn[k]))
               - One(GoesOn(turn'[k]))
  BY <1>1, <1>2, <1>3
<1>5. \A s \in Scopes, c \in Moods!Categories :
             made'[s][c] + One(IsEarly(turn'[k])) <= made[s][c] + One(IsEarly(turn[k]))
                                                     + (turns' - turns)
  <2>. SUFFICES ASSUME NEW s \in Scopes, NEW c \in Moods!Categories
                PROVE  made'[s][c] + One(IsEarly(turn'[k])) <= made[s][c] + One(IsEarly(turn[k]))
                                                     + (turns' - turns)
    OBVIOUS
  <2>. DEFINE a == made[s][c]
              u == One(IsEarly(turn[k]))
  <2>1. a \in Nat
    BY DEF FeelInv, FeelTyped
  <2>2. u \in Int /\ made'[s][c] = a /\ One(IsEarly(turn'[k])) = u
    BY <1>3
  <2>. HIDE DEF a, u
  <2>3. a + u <= a + u + 0
    BY <2>1, <2>2
  <2>. QED
    BY <1>4, <2>2, <2>3 DEF a, u
<1>6. Sorry(turn'[k].recs, m)
  BY <1>1
<1>7. turns' \in 0..MaxTurns /\ turns - Cardinality(Still(turn)) <= m
  BY <1>1, <1>4
<1>. HIDE DEF m
<1>. QED
  BY <1>4, <1>5, <1>6, <1>7, CountsGo

LEMMA TimesStay == ASSUME TimesBounded, UNCHANGED <<now, lastmsg, rows>> PROVE TimesBounded'
BY DEF TimesBounded

LEMMA TickBounded == ASSUME FeelInv, FeelBounded, Moods!Tick PROVE FeelBounded'
<1>1. /\ now < MaxTime /\ now' = now + 1 /\ lastmsg' = lastmsg /\ rows' = rows
      /\ turns' = turns /\ waits' = waits /\ turn' = turn /\ waiter' = waiter
      /\ made' = made /\ mistakes' = mistakes
  BY DEF Moods!Tick
<1>2. now' \in 0..MaxTime
  BY <1>1, FeelCounts DEF FeelBounded, TimesBounded
<1>3. TimesBounded'
  BY <1>1, <1>2 DEF FeelBounded, TimesBounded
<1>4. CountsBounded'
  BY <1>1 DEF FeelBounded, CountsBounded
<1>. QED
  BY <1>3, <1>4 DEF FeelBounded

LEMMA BeginBounded ==
    ASSUME FeelInv, FeelInv', FeelBounded, NEW k \in Threads, NEW s \in Scopes,
           NEW text \in Moods!Texts, Moods!Begin(k, s, text)
    PROVE  FeelBounded'
<1>. DEFINE x == [Moods!Idle EXCEPT !.phase = "feeling", !.scope = s, !.text = text]
            m == turns - Cardinality(Still(turn))
<1>1. /\ turn[k].phase = "idle" /\ turns < MaxTurns /\ turns' = turns + 1
      /\ turn' = [turn EXCEPT ![k] = x] /\ waits' = waits /\ waiter' = waiter
      /\ made' = made /\ mistakes' = mistakes /\ now' = now /\ lastmsg' = lastmsg /\ rows' = rows
  BY DEF Moods!Begin, Moods!In, Moods!Goes
<1>2. x.phase = "feeling" /\ x.recs = <<>>
  BY DEF Moods!Idle
<1>. HIDE DEF x
<1>3. turn'[k] = x /\ \A j \in Threads : j # k => turn'[j] = turn[j]
  BY <1>1, MessagesAre
<1>4. /\ IsEarly(turn'[k]) /\ GoesOn(turn'[k]) /\ ~IsEarly(turn[k]) /\ ~GoesOn(turn[k])
  BY <1>1, <1>2, <1>3 DEF IsEarly, GoesOn, Moods!Answering
<1>5. /\ One(IsEarly(turn'[k])) = 1 /\ One(GoesOn(turn'[k])) = 1
      /\ One(IsEarly(turn[k])) = 0 /\ One(GoesOn(turn[k])) = 0
  BY <1>4 DEF One
<1>6. turns \in 0..MaxTurns /\ Cardinality(Still(turn)) \in Nat
  BY FS_CardinalityType DEF FeelBounded, CountsBounded
<1>7. turns' \in 0..MaxTurns /\ turns' - turns = 1 /\ turns \in Int
  BY <1>1, <1>6, FeelCounts
<1>8. \A r \in Scopes, c \in Moods!Categories : made[r][c] \in Nat
  BY DEF FeelInv, FeelTyped
<1>9. \A r \in Scopes, c \in Moods!Categories :
        made'[r][c] + One(IsEarly(turn'[k])) <= made[r][c] + One(IsEarly(turn[k])) + (turns' - turns)
  BY <1>1, <1>5, <1>7, <1>8
<1>10. m \in Int
  BY <1>6, <1>7
<1>. HIDE DEF m
<1>14. turns - Cardinality(Still(turn)) <= m /\ m = m + 1 + 0 - 1
  BY <1>10 DEF m
<1>15. m = turns - Cardinality(Still(turn)) + (turns' - turns) + One(GoesOn(turn[k]))
           - One(GoesOn(turn'[k]))
  BY <1>5, <1>7, <1>14 DEF m
<1>11. Sorry(turn'[k].recs, m)
  BY <1>2, <1>3, NothingIsSorry
<1>12. CountsBounded'
  BY <1>1, <1>3, <1>7, <1>9, <1>10, <1>11, <1>14, <1>15, CountsGo DEF FeelBounded
<1>13. TimesBounded'
  BY <1>1, TimesStay DEF FeelBounded
<1>. QED
  BY <1>12, <1>13 DEF FeelBounded

\* Before the reply, nothing is counted.
LEMMA EarlyBounded ==
    ASSUME FeelInv, FeelInv', FeelBounded, NEW k \in Threads,
           \/ Moods!SaveMood(k) \/ Moods!ReadSaved(k) \/ Moods!TagMood(k) \/ Moods!ReadRows(k)
           \/ Moods!Observe(k) \/ Moods!CheckReturn(k) \/ Moods!Announce(k) \/ Moods!Reply(k)
    PROVE  CountsBounded'
<1>1. /\ turns' = turns /\ waits' = waits /\ waiter' = waiter /\ made' = made
      /\ mistakes' = mistakes
  BY DEF Moods!SaveMood, Moods!ReadSaved, Moods!TagMood, Moods!ReadRows, Moods!Observe,
         Moods!CheckReturn, Moods!Announce, Moods!Reply
<1>2. turn \in [Threads -> Handling] /\ turn[k] \in Message
  BY MessagesAre
<1>3. turn[k].phase \in Moods!Answering
  BY DEF Moods!SaveMood, Moods!ReadSaved, Moods!TagMood, Moods!ReadRows, Moods!Observe,
         Moods!CheckReturn, Moods!Announce, Moods!Reply, Moods!In, Moods!Answering
<1>4. /\ turn'[k].phase \in Moods!Answering \cup {"replied"} /\ turn'[k].recs = turn[k].recs
      /\ \A j \in Threads : j # k => turn'[j].phase = turn[j].phase /\ turn'[j].recs = turn[j].recs
  <2>1. CASE Moods!SaveMood(k)
    <3>1. turn' = [turn EXCEPT ![k] = [turn[k] EXCEPT !.phase = "saved"]]
      BY <2>1 DEF Moods!SaveMood, Moods!Step, Moods!Goes
    <3>. QED
      BY <1>2, <3>1 DEF Message, Moods!Answering
  <2>2. CASE Moods!ReadSaved(k)
    <3>1. turn' = [turn EXCEPT ![k] = [turn[k] EXCEPT !.phase = "tagging", !.mood = mood]]
      BY <2>2 DEF Moods!ReadSaved, Moods!Goes
    <3>. QED
      BY <1>2, <3>1 DEF Message, Moods!Answering
  <2>3. CASE Moods!TagMood(k)
    <3>1. turn' = [j \in Threads |->
                     IF j = k THEN [turn[k] EXCEPT !.phase = "listening", !.mood = Moods!Calm]
                     ELSE [turn[j] EXCEPT !.met = @ \/ turn[j].phase \in Moods!Answering]]
      BY <2>3 DEF Moods!TagMood
    <3>2. turn'[k] = [turn[k] EXCEPT !.phase = "listening", !.mood = Moods!Calm]
      BY <3>1
    <3>3. turn'[k].phase = "listening" /\ turn'[k].recs = turn[k].recs
      BY <1>2, <3>2 DEF Message
    <3>4. ASSUME NEW j \in Threads, j # k
          PROVE  turn'[j].phase = turn[j].phase /\ turn'[j].recs = turn[j].recs
      <4>1. turn[j] \in Message
        BY MessagesAre
      <4>2. turn'[j] = [turn[j] EXCEPT !.met = @ \/ turn[j].phase \in Moods!Answering]
        BY <3>1, <3>4
      <4>. QED
        BY <4>1, <4>2 DEF Message
    <3>. QED
      BY <3>3, <3>4 DEF Moods!Answering
  <2>4. CASE Moods!ReadRows(k)
    <3>1. turn' = [turn EXCEPT ![k] = [turn[k] EXCEPT !.phase = "hearing",
                                                      !.read = rows[turn[k].scope]]]
      BY <2>4 DEF Moods!ReadRows, Moods!Goes
    <3>. QED
      BY <1>2, <3>1 DEF Message, Moods!Answering
  <2>5. CASE Moods!Observe(k)
    <3>1. turn' = [turn EXCEPT ![k] = [turn[k] EXCEPT !.phase = "returning", !.read = <<>>]]
      BY <2>5 DEF Moods!Observe, Moods!Goes
    <3>. QED
      BY <1>2, <3>1 DEF Message, Moods!Answering
  <2>6. CASE Moods!CheckReturn(k)
    <3>. DEFINE p == IF Moods!Returns(turn[k].scope) THEN "announcing" ELSE "replying"
    <3>1. turn' = [turn EXCEPT ![k] = [turn[k] EXCEPT !.phase = p]]
      BY <2>6 DEF Moods!CheckReturn, Moods!Step, Moods!Goes
    <3>2. p \in Moods!Answering
      BY DEF Moods!Answering
    <3>. HIDE DEF p
    <3>. QED
      BY <1>2, <3>1, <3>2 DEF Message
  <2>7. CASE Moods!Announce(k)
    <3>1. turn' = [turn EXCEPT ![k] = [turn[k] EXCEPT !.phase = "replying"]]
      BY <2>7 DEF Moods!Announce, Moods!Step, Moods!Goes
    <3>. QED
      BY <1>2, <3>1 DEF Message, Moods!Answering
  <2>8. CASE Moods!Reply(k)
    <3>1. turn' = [turn EXCEPT ![k] =
                     [turn[k] EXCEPT !.phase = "replied", !.tone = Moods!Tone(turn[k].scope),
                                     !.due = Moods!Last(heard[turn[k].scope], Window),
                                     !.blamed = Moods!Blamed(turn[k].scope)]]
      BY <2>8 DEF Moods!Reply, Moods!Goes
    <3>. QED
      BY <1>2, <3>1 DEF Message
  <2>. QED
    BY <2>1, <2>2, <2>3, <2>4, <2>5, <2>6, <2>7, <2>8
<1>5. /\ IsEarly(turn[k]) /\ IsEarly(turn'[k]) /\ GoesOn(turn[k]) /\ GoesOn(turn'[k])
  BY <1>3, <1>4 DEF IsEarly, GoesOn, Moods!Answering
<1>. QED
  BY <1>1, <1>4, <1>5, CountsStay DEF FeelBounded

LEMMA HeardBounded ==
    ASSUME FeelInv, FeelBounded, NEW k \in Threads,
           \/ Moods!SaveMood(k) \/ Moods!ReadSaved(k) \/ Moods!TagMood(k) \/ Moods!ReadRows(k)
           \/ Moods!Observe(k) \/ Moods!CheckReturn(k) \/ Moods!Announce(k) \/ Moods!Reply(k)
    PROVE  TimesBounded'
<1>1. CASE \/ Moods!SaveMood(k) \/ Moods!ReadSaved(k) \/ Moods!TagMood(k) \/ Moods!ReadRows(k)
           \/ Moods!CheckReturn(k) \/ Moods!Announce(k) \/ Moods!Reply(k)
  <2>1. now' = now /\ lastmsg' = lastmsg /\ rows' = rows
    BY <1>1 DEF Moods!SaveMood, Moods!ReadSaved, Moods!TagMood, Moods!ReadRows,
                Moods!CheckReturn, Moods!Announce, Moods!Reply
  <2>. QED
    BY <2>1, TimesStay DEF FeelBounded
<1>2. CASE Moods!Observe(k)
  <2>. DEFINE s == turn[k].scope
              v == Moods!Judge(turn[k].text, turn[k].read)
              r == Moods!Last(Append(turn[k].read, v), Window)
  <2>1. /\ turn[k].phase = "hearing" /\ rows' = [rows EXCEPT ![s] = r]
        /\ now' = now /\ lastmsg' = lastmsg
    BY <1>2 DEF Moods!Observe, Moods!In, Moods!Kept
  <2>2. turn[k].read \in Seq(Int) /\ rows \in [Scopes -> Seq(Int)] /\ v \in Int
    BY MessagesAre, JudgedInt DEF FeelInv, FeelTyped, Message
  <2>. HIDE DEF v
  <2>. DEFINE a == Append(turn[k].read, v)
  <2>3. a \in Seq(Int) /\ Len(a) \in Nat
    BY <2>2, AppendProperties, LenProperties
  <2>. HIDE DEF a
  <2>4. Len(Moods!Last(a, Window)) = IF Len(a) > Window THEN Window ELSE Len(a)
    BY <2>3, FeelConstants, LastOfSeq
  <2>5. Len(Moods!Last(a, Window)) <= Window
    BY <2>3, <2>4, FeelConstants
  <2>6. Len(r) <= Window
    BY <2>5 DEF a
  <2>. HIDE DEF r, s
  <2>7. \A q \in Scopes : Len(rows'[q]) <= Window
    BY <2>1, <2>2, <2>6 DEF FeelBounded, TimesBounded
  <2>. QED
    BY <2>1, <2>7 DEF FeelBounded, TimesBounded
<1>. QED
  BY <1>1, <1>2

LEMMA AfterChatBounded ==
    ASSUME FeelInv, FeelInv', FeelBounded, NEW k \in Threads, Moods!AfterChat(k)
    PROVE  FeelBounded'
<1>. DEFINE s == turn[k].scope
            text == turn[k].text
            c == Moods!CategoryOf(text)
            p == IF c # "none" THEN "recording"
                 ELSE IF Moods!Apology(text) THEN "apologizing" ELSE "idle"
            x == [Moods!Idle EXCEPT !.phase = p, !.scope = s, !.text = text]
            n == turns - Cardinality(Still(turn))
            m == n + 1 - One(GoesOn(x))
<1>1. /\ turn[k].phase = "replied" /\ turn' = [turn EXCEPT ![k] = x]
      /\ made' = IF c = "none" THEN made ELSE [made EXCEPT ![s][c] = @ + 1]
      /\ lastmsg' = [lastmsg EXCEPT ![s] = now]
      /\ now' = now /\ rows' = rows /\ mistakes' = mistakes /\ waiter' = waiter
      /\ turns' = turns /\ waits' = waits
  BY DEF Moods!AfterChat, Moods!In, Moods!Goes
<1>2. /\ s \in Scopes /\ made \in [Scopes -> [Moods!Categories -> Nat]]
  BY <1>1, MessagesAre DEF FeelInv, FeelTyped, Handling
<1>3. p \notin Moods!Answering /\ p # "replied"
  BY DEF Moods!Answering
<1>. HIDE DEF c, p
<1>4. x.phase = p /\ x.recs = <<>>
  BY DEF Moods!Idle
<1>. HIDE DEF x
<1>5. turn'[k] = x /\ \A j \in Threads : j # k => turn'[j] = turn[j]
  BY <1>1, MessagesAre
<1>6. ~IsEarly(turn'[k]) /\ IsEarly(turn[k]) /\ GoesOn(turn[k])
  BY <1>1, <1>3, <1>4, <1>5 DEF IsEarly, GoesOn
<1>7. /\ One(IsEarly(turn'[k])) = 0 /\ One(IsEarly(turn[k])) = 1 /\ One(GoesOn(turn[k])) = 1
      /\ One(GoesOn(turn'[k])) = One(GoesOn(x)) /\ One(GoesOn(x)) \in {0, 1}
  BY <1>5, <1>6 DEF One
<1>8. turns \in 0..MaxTurns /\ Cardinality(Still(turn)) \in Nat
  BY FS_CardinalityType DEF FeelBounded, CountsBounded
<1>9. turns' \in 0..MaxTurns /\ turns' - turns = 0 /\ n \in Int
  BY <1>1, <1>8, FeelCounts
<1>10. \A r \in Scopes, d \in Moods!Categories : made'[r][d] <= made[r][d] + 1
  BY <1>1, <1>2
<1>11. \A r \in Scopes, d \in Moods!Categories :
         made'[r][d] + One(IsEarly(turn'[k])) <= made[r][d] + One(IsEarly(turn[k])) + (turns' - turns)
  <2>. SUFFICES ASSUME NEW r \in Scopes, NEW d \in Moods!Categories
                PROVE  made'[r][d] + One(IsEarly(turn'[k]))
                         <= made[r][d] + One(IsEarly(turn[k])) + (turns' - turns)
    OBVIOUS
  <2>1. made' \in [Scopes -> [Moods!Categories -> Nat]]
    BY DEF FeelInv, FeelTyped
  <2>. DEFINE a == made[r][d]
              b == made'[r][d]
  <2>2. a \in Nat /\ b \in Nat /\ b <= a + 1
    BY <1>2, <1>10, <2>1
  <2>. HIDE DEF a, b
  <2>3. b + 0 <= a + 1 + 0
    BY <2>2
  <2>. QED
    BY <1>7, <1>9, <2>3 DEF a, b
<1>. HIDE DEF n
<1>12. m \in Int /\ n <= m /\ m = n + 0 + 1 - One(GoesOn(x))
  BY <1>7, <1>9
<1>13. m = n + (turns' - turns) + One(GoesOn(turn[k])) - One(GoesOn(turn'[k]))
  BY <1>7, <1>9
<1>. HIDE DEF m
<1>14. Sorry(turn'[k].recs, m)
  BY <1>4, <1>5, NothingIsSorry
<1>15. CountsBounded'
  BY <1>1, <1>5, <1>9, <1>11, <1>12, <1>13, <1>14, CountsGo DEF FeelBounded, n
<1>16. TimesBounded'
  BY <1>1, <1>2 DEF FeelBounded, TimesBounded
<1>. QED
  BY <1>15, <1>16 DEF FeelBounded

LEMMA ReadMistakesBounded ==
    ASSUME FeelInv, FeelInv', FeelBounded, NEW k \in Threads, Moods!ReadMistakes(k)
    PROVE  FeelBounded'
<1>. DEFINE s == turn[k].scope
            p == IF turn[k].phase = "recording" THEN "recorded" ELSE "apologized"
            x == [turn[k] EXCEPT !.phase = p, !.recs = mistakes[s]]
<1>1. /\ turn[k].phase = "recording" \/ turn[k].phase = "apologizing"
      /\ turn' = [turn EXCEPT ![k] = x] /\ turns' = turns /\ waits' = waits
      /\ now' = now /\ lastmsg' = lastmsg /\ rows' = rows /\ mistakes' = mistakes
      /\ made' = made /\ waiter' = waiter
  BY DEF Moods!ReadMistakes, Moods!Goes
<1>2. turn[k] \in Message /\ s \in Scopes
  BY <1>1, MessagesAre DEF Handling
<1>3. p = "recorded" \/ p = "apologized"
  OBVIOUS
<1>. HIDE DEF p
<1>4. x.phase = p /\ x.recs = mistakes[s]
  BY <1>2 DEF Message
<1>. HIDE DEF x
<1>5. turn'[k] = x /\ \A j \in Threads : j # k => turn'[j] = turn[j]
  BY <1>1, MessagesAre
<1>6. ~IsEarly(turn'[k]) /\ GoesOn(turn'[k]) /\ ~IsEarly(turn[k]) /\ GoesOn(turn[k])
  BY <1>1, <1>3, <1>4, <1>5 DEF IsEarly, GoesOn, Moods!Answering
<1>7. CountsBounded'
  BY <1>1, <1>2, <1>4, <1>5, <1>6, CountsStay DEF FeelBounded
<1>. QED
  BY <1>1, <1>7, TimesStay DEF FeelBounded

\* A list is saved, by a message that goes on with x.
LEMMA SavedBounded ==
    ASSUME NEW k \in Threads, NEW x, NEW m \in Int, FeelInv, FeelInv', FeelBounded,
           turn[k].phase \in {"recorded", "apologized"}, turn' = [turn EXCEPT ![k] = x],
           ~IsEarly(x), x.recs = <<>>,
           UNCHANGED <<now, lastmsg, rows, turns, waits, made, waiter>>,
           m = turns - Cardinality(Still(turn)) + 1 - One(GoesOn(x)),
           \A s \in Scopes : mistakes'[s] = mistakes[s] \/ Sorry(mistakes'[s], m)
    PROVE  FeelBounded'
<1>1. turn'[k] = x /\ \A j \in Threads : j # k => turn'[j] = turn[j]
  BY MessagesAre
<1>2. ~IsEarly(turn'[k]) /\ ~IsEarly(turn[k]) /\ GoesOn(turn[k])
  BY <1>1 DEF IsEarly, GoesOn, Moods!Answering
<1>3. /\ One(IsEarly(turn'[k])) = 0 /\ One(IsEarly(turn[k])) = 0 /\ One(GoesOn(turn[k])) = 1
      /\ One(GoesOn(turn'[k])) = One(GoesOn(x)) /\ One(GoesOn(x)) \in {0, 1}
  BY <1>1, <1>2 DEF One
<1>4. turns \in 0..MaxTurns /\ Cardinality(Still(turn)) \in Nat
  BY FS_CardinalityType DEF FeelBounded, CountsBounded
<1>5. turns' \in 0..MaxTurns /\ turns' - turns = 0 /\ turns \in Int
  BY <1>4, FeelCounts
<1>6. \A r \in Scopes, d \in Moods!Categories : made[r][d] \in Nat
  BY DEF FeelInv, FeelTyped
<1>7. \A r \in Scopes, d \in Moods!Categories :
         made'[r][d] + One(IsEarly(turn'[k])) <= made[r][d] + One(IsEarly(turn[k])) + (turns' - turns)
  BY <1>3, <1>5, <1>6
<1>8. turns - Cardinality(Still(turn)) <= m
  BY <1>3, <1>4, <1>5
<1>9. m = turns - Cardinality(Still(turn)) + (turns' - turns) + One(GoesOn(turn[k]))
          - One(GoesOn(turn'[k]))
  BY <1>3, <1>4, <1>5
<1>10. Sorry(turn'[k].recs, m)
  BY <1>1, NothingIsSorry
<1>11. CountsBounded'
  BY <1>1, <1>5, <1>7, <1>8, <1>9, <1>10, CountsGo DEF FeelBounded
<1>12. TimesBounded'
  BY TimesStay DEF FeelBounded
<1>. QED
  BY <1>11, <1>12 DEF FeelBounded

\* What a list was apologized for, and that it goes on.
LEMMA SorryIsNat ==
    ASSUME FeelInv, FeelBounded
    PROVE  /\ turns - Cardinality(Still(turn)) \in Nat
           /\ \A k \in Threads : /\ turn[k].recs \in Seq(Mistake)
                                 /\ Sorry(turn[k].recs, turns - Cardinality(Still(turn)))
           /\ waiter.recs \in Seq(Mistake)
           /\ Sorry(waiter.recs, turns - Cardinality(Still(turn)))
<1>1. turns \in 0..MaxTurns /\ Cardinality(Still(turn)) \in Nat /\ Cardinality(Still(turn)) <= turns
  BY FS_CardinalityType DEF FeelBounded, CountsBounded
<1>2. turns - Cardinality(Still(turn)) \in Nat
  BY <1>1, FeelCounts
<1>3. waiter.recs \in Seq(Mistake)
  BY DEF FeelInv, FeelTyped, Missing
<1>4. \A k \in Threads : turn[k].recs \in Seq(Mistake)
  BY MessagesAre DEF Message
<1>. QED
  BY <1>2, <1>3, <1>4 DEF FeelBounded, CountsBounded

LEMMA SaveRecordBounded ==
    ASSUME FeelInv, FeelInv', FeelBounded, NEW k \in Threads, Moods!SaveRecord(k)
    PROVE  FeelBounded'
<1>. DEFINE c == Moods!CategoryOf(turn[k].text)
            l == Moods!Recorded(turn[k].recs, c)
            x == IF Moods!Apology(turn[k].text)
                 THEN [turn[k] EXCEPT !.phase = "apologizing", !.recs = <<>>] ELSE Moods!Idle
            n == turns - Cardinality(Still(turn))
<1>1. /\ turn[k].phase = "recorded" /\ turn' = [turn EXCEPT ![k] = x]
      /\ mistakes' = [mistakes EXCEPT ![turn[k].scope] = l]
      /\ turns' = turns /\ waits' = waits /\ now' = now /\ lastmsg' = lastmsg /\ rows' = rows
      /\ made' = made /\ waiter' = waiter
  BY DEF Moods!SaveRecord, Moods!In, Moods!Goes
<1>2. turn[k] \in Message /\ c \in Moods!Categories
  BY <1>1, MessagesAre DEF Handling
<1>3. /\ n \in Nat /\ turn[k].recs \in Seq(Mistake) /\ Sorry(turn[k].recs, n)
  BY SorryIsNat
<1>. HIDE DEF c, n
<1>4. l \in Seq(Mistake) /\ Sorry(l, n)
  <2>1. Sorry(l, n)
    BY <1>2, <1>3, RecordedSorry
  <2>2. mistakes' \in [Scopes -> Seq(Mistake)] /\ turn[k].scope \in Scopes
        /\ mistakes \in [Scopes -> Seq(Mistake)]
    BY <1>1, MessagesAre DEF FeelInv, FeelTyped, Handling
  <2>3. mistakes'[turn[k].scope] = l
    BY <1>1, <2>2
  <2>. QED
    BY <2>1, <2>2, <2>3
<1>5. x.recs = <<>> /\ (x.phase = "apologizing" \/ x.phase = "idle")
  BY <1>2, IdleIsOver, IdleIsHandled DEF Message
<1>. HIDE DEF x, l
<1>6. ~IsEarly(x)
  BY <1>5 DEF IsEarly, Moods!Answering
<1>. DEFINE m == n + 1 - One(GoesOn(x))
<1>7. m \in Int /\ n <= m /\ n \in Int
  BY <1>3 DEF One
<1>8. m = turns - Cardinality(Still(turn)) + 1 - One(GoesOn(x))
  BY DEF n
<1>. HIDE DEF m
<1>9. Sorry(l, m)
  BY <1>4, <1>7, SorryMore
<1>10. \A s \in Scopes : mistakes'[s] = mistakes[s] \/ Sorry(mistakes'[s], m)
  BY <1>1, <1>9 DEF FeelInv, FeelTyped
<1>11. turn[k].phase \in {"recorded", "apologized"}
  BY <1>1
<1>. QED
  BY <1>1, <1>5, <1>6, <1>7, <1>8, <1>10, <1>11, SavedBounded

LEMMA SaveApologyBounded ==
    ASSUME FeelInv, FeelInv', FeelBounded, NEW k \in Threads, Moods!SaveApology(k)
    PROVE  FeelBounded'
<1>. DEFINE n == turns - Cardinality(Still(turn))
<1>1. /\ turn[k].phase = "apologized" /\ turn' = [turn EXCEPT ![k] = Moods!Idle]
      /\ turns' = turns /\ waits' = waits /\ now' = now /\ lastmsg' = lastmsg /\ rows' = rows
      /\ made' = made /\ waiter' = waiter
  BY DEF Moods!SaveApology, Moods!In, Moods!Goes
<1>2. PICK forgiven :
        mistakes' = [mistakes EXCEPT ![turn[k].scope] = Moods!Apologized(turn[k].recs, forgiven)]
  BY DEF Moods!SaveApology
<1>. DEFINE l == Moods!Apologized(turn[k].recs, forgiven)
<1>3. /\ n \in Nat /\ turn[k].recs \in Seq(Mistake) /\ Sorry(turn[k].recs, n)
  BY SorryIsNat
<1>. HIDE DEF n
<1>4. Sorry(l, n + 1)
  BY <1>3, ApologizedSorry
<1>5. mistakes' = [mistakes EXCEPT ![turn[k].scope] = l]
  BY <1>2
<1>. HIDE DEF l
<1>6. One(GoesOn(Moods!Idle)) = 0
  BY IdleIsOver DEF One
<1>. DEFINE m == n + 1
<1>7. m \in Int /\ n + 1 - 0 = m
  BY <1>3
<1>8. m = turns - Cardinality(Still(turn)) + 1 - One(GoesOn(Moods!Idle))
  BY <1>6, <1>7 DEF n
<1>9. \A s \in Scopes : mistakes'[s] = mistakes[s] \/ Sorry(mistakes'[s], m)
  BY <1>4, <1>5 DEF FeelInv, FeelTyped
<1>. HIDE DEF m
<1>10. turn[k].phase \in {"recorded", "apologized"}
  BY <1>1
<1>. QED
  BY <1>1, <1>7, <1>8, <1>9, <1>10, IdleIsOver, SavedBounded

LEMMA MissBounded ==
    ASSUME FeelInv, FeelInv', FeelBounded, NEW s \in Scopes, Moods!Miss(s)
    PROVE  FeelBounded'
<1>1. /\ waits < MaxWaits /\ waits' = waits + 1 /\ made' = [made EXCEPT ![s]["late"] = @ + 1]
      /\ waiter' = [phase |-> "recorded", scope |-> s, recs |-> mistakes[s]]
      /\ now' = now /\ rows' = rows /\ lastmsg' = lastmsg /\ mistakes' = mistakes
      /\ turn' = turn /\ turns' = turns
  BY DEF Moods!Miss
<1>2. waits \in 0..MaxWaits /\ made \in [Scopes -> [Moods!Categories -> Nat]]
  BY DEF FeelBounded, CountsBounded, FeelInv, FeelTyped
<1>3. waits' \in 0..MaxWaits /\ waits' - waits = 1
  BY <1>1, <1>2, FeelCounts
<1>4. \A r \in Scopes, d \in Moods!Categories : made'[r][d] <= made[r][d] + 1
  BY <1>1, <1>2
<1>5. Sorry(waiter'.recs, turns - Cardinality(Still(turn)))
  BY <1>1 DEF FeelBounded, CountsBounded
<1>6. CountsBounded'
  BY <1>1, <1>3, <1>4, <1>5, LoopCounts DEF FeelBounded
<1>. QED
  BY <1>1, <1>6, TimesStay DEF FeelBounded

LEMMA SaveNoShowBounded ==
    ASSUME FeelInv, FeelInv', FeelBounded, Moods!SaveNoShow
    PROVE  FeelBounded'
<1>. DEFINE l == Moods!Recorded(waiter.recs, "late")
            n == turns - Cardinality(Still(turn))
<1>1. /\ mistakes' = [mistakes EXCEPT ![waiter.scope] = l] /\ waiter' = Moods!NoWaiter
      /\ now' = now /\ rows' = rows /\ lastmsg' = lastmsg /\ made' = made
      /\ turn' = turn /\ turns' = turns /\ waits' = waits
  BY DEF Moods!SaveNoShow
<1>2. n \in Nat /\ waiter.recs \in Seq(Mistake) /\ Sorry(waiter.recs, n)
  BY SorryIsNat
<1>. HIDE DEF n
<1>3. Sorry(l, n)
  BY <1>2, RecordedSorry DEF Moods!Categories
<1>. HIDE DEF l
<1>4. mistakes \in [Scopes -> Seq(Mistake)]
      /\ \A s \in Scopes, c \in Moods!Categories : made[s][c] \in Nat
  BY DEF FeelInv, FeelTyped
<1>5. \A s \in Scopes : mistakes'[s] = mistakes[s] \/ Sorry(mistakes'[s], n)
  BY <1>1, <1>3, <1>4
<1>6. waits' \in 0..MaxWaits /\ waits' - waits = 0
  BY <1>1, FeelCounts DEF FeelBounded, CountsBounded
<1>7. \A s \in Scopes, c \in Moods!Categories : made'[s][c] <= made[s][c] + (waits' - waits)
  BY <1>1, <1>4, <1>6
<1>8. Sorry(waiter'.recs, n)
  BY <1>1, IdleIsOver, NothingIsSorry
<1>9. CountsBounded'
  BY <1>1, <1>5, <1>6, <1>7, <1>8, LoopCounts DEF FeelBounded, n
<1>. QED
  BY <1>1, <1>9, TimesStay DEF FeelBounded

LEMMA NextFeelBounded == ASSUME FeelInv, FeelBounded, Moods!Next PROVE FeelBounded'
<1>. FeelInv'
  BY NextOfFeelings
<1>1. ASSUME NEW k \in Threads, NEW s \in Scopes, NEW text \in Moods!Texts,
             Moods!Begin(k, s, text)
      PROVE  FeelBounded'
  BY <1>1, BeginBounded
<1>2. ASSUME NEW k \in Threads,
             \/ Moods!SaveMood(k) \/ Moods!ReadSaved(k) \/ Moods!TagMood(k)
             \/ Moods!ReadRows(k) \/ Moods!Observe(k) \/ Moods!CheckReturn(k)
             \/ Moods!Announce(k) \/ Moods!Reply(k)
      PROVE  FeelBounded'
  BY <1>2, EarlyBounded, HeardBounded DEF FeelBounded
<1>3. ASSUME NEW k \in Threads,
             \/ Moods!AfterChat(k) \/ Moods!ReadMistakes(k) \/ Moods!SaveRecord(k)
             \/ Moods!SaveApology(k)
      PROVE  FeelBounded'
  BY <1>3, AfterChatBounded, ReadMistakesBounded, SaveRecordBounded, SaveApologyBounded
<1>4. ASSUME NEW s \in Scopes, Moods!Miss(s) PROVE FeelBounded'
  BY <1>4, MissBounded
<1>. QED
  BY <1>1, <1>2, <1>3, <1>4, TickBounded, SaveNoShowBounded DEF Moods!Next

LEMMA StutterFeelBounded ==
    ASSUME FeelBounded, UNCHANGED <<now, turns, feelingVars>> PROVE FeelBounded'
BY DEF FeelBounded, TimesBounded, CountsBounded, feelingVars

LEMMA FeelBoundedMeans == ASSUME FeelInv, FeelBounded PROVE Moods!TypeOK
<1>1. mood.by \in Scopes \cup {"none"} /\ mood.trigger \in Scopes \cup {"none"}
  BY DEF FeelInv, FeelTyped, Mood
<1>2. ASSUME NEW s \in Scopes, NEW i \in DOMAIN mistakes[s]
      PROVE  mistakes[s][i] \in Moods!Record
  <2>. DEFINE l == mistakes[s]
              x == l[i]
  <2>1. l \in Seq(Mistake)
    BY DEF FeelInv, FeelTyped
  <2>2. i \in 1..Len(l)
    BY <2>1, LenProperties
  <2>3. x \in Mistake
    BY <2>1, <2>2, ElementOfSeq
  <2>4. Sorry(l, turns - Cardinality(Still(turn)))
    BY DEF FeelBounded, CountsBounded
  <2>5. x.count >= 1 /\ x.apologies <= turns - Cardinality(Still(turn))
    BY <2>2, <2>4 DEF Sorry
  <2>. HIDE DEF l
  <2>. DEFINE c == x.cat
  <2>6. c \in Moods!Categories /\ x.count \in Nat /\ x.apologies \in Nat
    BY <2>3 DEF Mistake
  <2>7. x.count <= Noted(s, c, made, turn, waiter)
    <3>1. Within(l, c, Noted(s, c, made, turn, waiter))
      BY <2>6, BlameOf DEF l
    <3>2. i \in Those(l, c)
      BY <2>2 DEF Those
    <3>. QED
      BY <3>1, <3>2 DEF Within
  <2>. HIDE DEF x
  <2>8. Noted(s, c, made, turn, waiter) \in Int /\ Noted(s, c, made, turn, waiter) <= made[s][c]
        /\ made[s][c] \in Nat
    <3>1. /\ Noted(s, c, made, turn, waiter) \in Int /\ made[s][c] \in Nat
          /\ Cardinality(Pend(s, c, turn)) \in Nat
      BY <2>6, BlameOf
    <3>2. Wait(s, c, waiter) \in Nat
      BY DEF Wait
    <3>. QED
      BY <3>1, <3>2 DEF Noted
  <2>9. /\ turns \in 0..MaxTurns /\ waits \in 0..MaxWaits
        /\ made[s][c] <= turns + waits - Cardinality(Early(turn))
        /\ Cardinality(Early(turn)) \in Nat /\ Cardinality(Still(turn)) \in Nat
    BY <2>6, FS_CardinalityType DEF FeelBounded, CountsBounded
  <2>. HIDE DEF c
  <2>10. x.count \in 1..(MaxTurns + MaxWaits)
    <3>. DEFINE a == made[s][c]
                o == Noted(s, c, made, turn, waiter)
                y == x.count
                e == Cardinality(Early(turn))
    <3>1. /\ y \in Nat /\ y >= 1 /\ y <= o /\ o \in Int /\ o <= a /\ a \in Nat
          /\ a <= turns + waits - e /\ e \in Nat
      BY <2>5, <2>6, <2>7, <2>8, <2>9
    <3>. HIDE DEF a, o, y, e
    <3>2. y \in 1..(MaxTurns + MaxWaits)
      BY <2>9, <3>1, FeelCounts
    <3>. QED
      BY <3>2 DEF y
  <2>11. x.apologies \in 0..MaxTurns
    <3>. DEFINE y == x.apologies
                g == Cardinality(Still(turn))
    <3>1. y \in Nat /\ y <= turns - g /\ g \in Nat
      BY <2>5, <2>6, <2>9
    <3>. HIDE DEF y, g
    <3>2. y \in 0..MaxTurns
      BY <2>9, <3>1, FeelCounts
    <3>. QED
      BY <3>2 DEF y
  <2>12. x \in Moods!Record
    BY <2>3, <2>10, <2>11 DEF Mistake, Moods!Record
  <2>. QED
    BY <2>12 DEF x, l
<1>. QED
  BY <1>1, <1>2 DEF FeelBounded, TimesBounded, Moods!TypeOK

-----------------------------------------------------------------------------
(* Around her *)

Weathers == {"", "service", "made up"}
Looking == [pc : {"idle", "weather", "fetch", "sync", "write", "store"},
            chat : Circles \cup {""}, slot : 0..Around!Slot(MaxHour), seen : 0..MaxHour,
            place : Places \cup {""}, people : SUBSET Cast, old : Around!Snaps,
            prev : Weathers, fresh : Weathers, copy : Around!Snaps]

AroundTyped ==
    /\ hour \in 0..MaxHour /\ where \in Places
    /\ named \in [Circles -> SUBSET Cast]
    /\ snap \in Around!Snaps
    /\ weather \in [source : Weathers, ts : 0..MaxHour]
    /\ look \in [Threads -> Looking]
    /\ served \in [Threads -> [snap : Around!Snaps, at : 0..MaxHour]]
    /\ told \subseteq (Cast \X {"in", "out"}) \cup ({"service", "made up"} \X {"weather"})
    /\ looks \in 0..MaxLooks

\* A snapshot of the table bears the time it was made and the slot of what was seen for it;
\* none is of the road.
SnapRight(s) ==
    /\ s.known \subseteq s.people
    /\ s.place # "" => s.ts = s.built /\ s.slot = Around!Slot(s.seen) /\ s.place # "road"

\* What a thread saw is of the slot it notes, and a copy it holds is a snapshot of the table.
LookRight(l) ==
    /\ l.slot = Around!Slot(l.seen) /\ SnapRight(l.copy)
    /\ l.pc = "store" => l.place # ""

\* What was served was of the slot it was asked in, and not too old.
ServedRight(x) ==
    LET s == x.snap
    IN s.place # "" =>
           /\ Around!Slot(s.seen) = Around!Slot(x.at)
           /\ x.at - s.built < SnapTtl
           /\ s.place # "road"

AroundInv ==
    /\ AroundTyped
    /\ SnapRight(snap)
    /\ \A k \in Threads : LookRight(look[k])
    /\ \A k \in Threads : ServedRight(served[k])

LEMMA AroundConstants ==
    /\ SlotLength \in Nat \ {0} /\ SnapTtl \in Nat /\ WeatherTtl \in Nat
    /\ MaxHour \in Nat /\ MaxLooks \in Nat /\ "" \notin Places
    /\ Company \in [0..MaxHour -> [Places -> SUBSET Cast]]
BY ConstantsAssumption DEF Around!LifetimesAssumption

LEMMA AroundNumbers ==
    SlotLength \in Nat /\ SlotLength # 0 /\ SnapTtl \in Nat /\ WeatherTtl \in Nat /\ MaxHour \in Nat
    /\ MaxLooks \in Nat
BY AroundConstants

LEMMA TimesGrows == \A k, m, n \in Nat : m <= n => k * m <= k * n
<1>. SUFFICES ASSUME NEW k \in Nat, NEW m \in Nat, NEW n \in Nat, m <= n
              PROVE  k * m <= k * n
  OBVIOUS
<1>. DEFINE d == n - m
<1>1. d \in Nat /\ n = m + d
  OBVIOUS
<1>. HIDE DEF d
<1>2. k * d \in Nat /\ k * (m + d) = k * m + k * d /\ k * m \in Nat
  BY <1>1
<1>3. k * n = k * m + k * d
  BY <1>1, <1>2
<1>. QED
  BY <1>2, <1>3

LEMMA SlotsGrow ==
    ASSUME NEW t \in 0..MaxHour
    PROVE  Around!Slot(t) \in 0..Around!Slot(MaxHour)
<1>. DEFINE L == SlotLength
            q == t \div L
            r == MaxHour \div L
<1>1. L \in Nat /\ L > 0 /\ t \in Nat /\ MaxHour \in Nat /\ t <= MaxHour
  BY AroundNumbers
<1>2. q \in Nat /\ r \in Nat
  BY <1>1
<1>3. L * q <= t /\ MaxHour < L * (r + 1)
  BY <1>1
<1>. HIDE DEF q, r
<1>4. \A k, m, n \in Nat : m <= n => k * m <= k * n
  BY TimesGrows
<1>5. r + 1 <= q => L * (r + 1) <= L * q
  BY <1>1, <1>2, <1>4
<1>6. L * q \in Nat /\ L * (r + 1) \in Nat
  BY <1>1, <1>2
<1>. DEFINE x == L * q
            y == L * (r + 1)
<1>7. x \in Nat /\ y \in Nat /\ x <= t /\ MaxHour < y /\ (r + 1 <= q => y <= x)
  BY <1>3, <1>5, <1>6
<1>. HIDE DEF x, y
<1>8. q < r + 1
  BY <1>1, <1>2, <1>7
<1>. QED
  BY <1>2, <1>8 DEF Around!Slot, q, r
LEMMA NoSnapRight == Around!NoSnap \in Around!Snaps /\ SnapRight(Around!NoSnap)
<1>1. 0 \in 0..MaxHour
  BY AroundNumbers
<1>2. 0 \in 0..Around!Slot(MaxHour) /\ Around!Slot(0) = 0
  <2>1. Around!Slot(0) = 0
    BY AroundNumbers DEF Around!Slot
  <2>. QED
    BY <1>1, <2>1, SlotsGrow
<1>. QED
  BY <1>1, <1>2 DEF Around!NoSnap, Around!Snaps, SnapRight

LEMMA IdleLooks == Around!Idle \in Looking /\ LookRight(Around!Idle)
<1>1. 0 \in 0..MaxHour
  BY AroundNumbers
<1>2. Around!Slot(0) = 0
  BY AroundNumbers DEF Around!Slot
<1>3. 0 \in 0..Around!Slot(MaxHour)
  BY <1>1, <1>2, SlotsGrow
<1>. QED
  BY <1>1, <1>2, <1>3, NoSnapRight DEF Around!Idle, Looking, Weathers, LookRight

LEMMA AroundStarts == Around!Init => AroundInv
<1>. SUFFICES ASSUME Around!Init PROVE AroundInv
  OBVIOUS
<1>1. /\ hour = 0 /\ where \in Places /\ named = [c \in Circles |-> {}]
      /\ snap = Around!NoSnap /\ weather = Around!NoWeather
      /\ look = [k \in Threads |-> Around!Idle]
      /\ served = [k \in Threads |-> [snap |-> Around!NoSnap, at |-> 0]]
      /\ told = {} /\ looks = 0
  BY DEF Around!Init
<1>2. 0 \in 0..MaxHour /\ 0 \in 0..MaxLooks
  BY AroundNumbers
<1>3. weather \in [source : Weathers, ts : 0..MaxHour]
  BY <1>1, <1>2 DEF Around!NoWeather, Weathers
<1>4. AroundTyped
  BY <1>1, <1>2, <1>3, NoSnapRight, IdleLooks DEF AroundTyped
<1>5. \A k \in Threads : ServedRight(served[k])
  BY <1>1 DEF ServedRight, Around!NoSnap
<1>. QED
  BY <1>1, <1>4, <1>5, NoSnapRight, IdleLooks DEF AroundInv

LEMMA OneMore ==
    \A m \in Nat : \A x \in 0..m : \A y : x < m /\ y = x + 1 => y \in 0..m
OBVIOUS

LEMMA AroundCounts ==
    ASSUME AroundInv
    PROVE  /\ hour \in 0..MaxHour /\ looks \in 0..MaxLooks
           /\ told \subseteq (Cast \X {"in", "out"}) \cup ({"service", "made up"} \X {"weather"})
BY DEF AroundInv, AroundTyped

LEMMA ClockStep == ASSUME AroundInv, Around!Tick PROVE AroundInv'
<1>1. /\ hour < MaxHour /\ hour' = hour + 1 /\ where' \in Places
      /\ UNCHANGED <<named, snap, weather, look, served, told, looks>>
  BY DEF Around!Tick
<1>2. hour' \in 0..MaxHour
  BY <1>1, AroundNumbers, AroundCounts, OneMore
<1>. QED
  BY <1>1, <1>2 DEF AroundInv, AroundTyped

LEMMA MentionStep ==
    ASSUME AroundInv, NEW c \in Circles, NEW name \in Cast, Around!Mention(c, name)
    PROVE  AroundInv'
<1>1. /\ named' = [named EXCEPT ![c] = @ \cup {name}]
      /\ UNCHANGED <<hour, where, snap, weather, look, served, told, looks>>
  BY DEF Around!Mention
<1>2. named' \in [Circles -> SUBSET Cast]
  BY <1>1 DEF AroundInv, AroundTyped
<1>. QED
  BY <1>1, <1>2 DEF AroundInv, AroundTyped

LEMMA ServeStep == ASSUME AroundInv, NEW k \in Threads, Around!Serve(k) PROVE AroundInv'
<1>. DEFINE x == [snap |-> snap, at |-> hour]
<1>1. /\ looks < MaxLooks /\ looks' = looks + 1 /\ served' = [served EXCEPT ![k] = x]
      /\ snap.place # "" /\ snap.slot = Around!Slot(hour) /\ hour - snap.ts < SnapTtl
      /\ UNCHANGED <<hour, where, named, snap, weather, look, told>>
  BY DEF Around!Serve, Around!Usable
<1>2. looks' \in 0..MaxLooks
  BY <1>1, AroundNumbers, AroundCounts, OneMore
<1>3. x \in [snap : Around!Snaps, at : 0..MaxHour] /\ ServedRight(x)
  BY <1>1 DEF AroundInv, AroundTyped, SnapRight, ServedRight
<1>. HIDE DEF x
<1>4. /\ served' \in [Threads -> [snap : Around!Snaps, at : 0..MaxHour]]
      /\ \A j \in Threads : ServedRight(served'[j])
  BY <1>1, <1>3 DEF AroundInv, AroundTyped
<1>. QED
  BY <1>1, <1>2, <1>4 DEF AroundInv, AroundTyped

LEMMA LooksAre ==
    ASSUME AroundInv, NEW k \in Threads
    PROVE  look[k] \in Looking /\ LookRight(look[k])
BY DEF AroundInv, AroundTyped

\* A thread goes on to a look that is right, the table and the clock as they are.
LEMMA LookGoes ==
    ASSUME AroundInv, NEW k \in Threads, NEW l \in Looking, LookRight(l),
           look' = [look EXCEPT ![k] = l],
           snap' \in Around!Snaps, SnapRight(snap'),
           weather' \in [source : Weathers, ts : 0..MaxHour],
           told' \subseteq (Cast \X {"in", "out"}) \cup ({"service", "made up"} \X {"weather"}),
           looks' \in 0..MaxLooks,
           hour' = hour /\ where' = where /\ named' = named /\ served' = served
    PROVE  AroundInv'
<1>1. look' \in [Threads -> Looking] /\ \A j \in Threads : LookRight(look'[j])
  BY DEF AroundInv, AroundTyped
<1>. QED
  BY <1>1 DEF AroundInv, AroundTyped

LEMMA LookStep ==
    ASSUME AroundInv, NEW k \in Threads, NEW c \in Circles, Around!Look(k, c)
    PROVE  AroundInv'
<1>. DEFINE l == [Around!Idle EXCEPT
                     !.pc = "weather", !.chat = c, !.slot = Around!Slot(hour), !.seen = hour,
                     !.place = where, !.people = Company[hour][where], !.old = snap]
<1>1. /\ looks < MaxLooks /\ looks' = looks + 1 /\ look' = [look EXCEPT ![k] = l]
      /\ UNCHANGED <<hour, where, named, snap, weather, served, told>>
  BY DEF Around!Look
<1>2. looks' \in 0..MaxLooks
  BY <1>1, AroundNumbers, AroundCounts, OneMore
<1>3. hour \in 0..MaxHour /\ where \in Places /\ snap \in Around!Snaps
  BY DEF AroundInv, AroundTyped
<1>4. Company[hour] \in [Places -> SUBSET Cast]
  BY <1>3, AroundConstants
<1>5. Company[hour][where] \in SUBSET Cast
  BY <1>3, <1>4
<1>6. l \in Looking
  BY <1>3, <1>5, SlotsGrow, IdleLooks DEF Looking
<1>7. /\ l.slot = Around!Slot(hour) /\ l.seen = hour /\ l.pc = "weather"
      /\ l.copy = Around!Idle.copy
  BY IdleLooks DEF Looking
<1>. HIDE DEF l
<1>8. LookRight(l)
  BY <1>7, IdleLooks DEF LookRight
<1>. QED
  BY <1>1, <1>2, <1>6, <1>8, LookGoes DEF AroundInv, AroundTyped

LEMMA AskWeatherStep ==
    ASSUME AroundInv, NEW k \in Threads, Around!AskWeather(k) PROVE AroundInv'
<1>. DEFINE l == [Around!Idle EXCEPT !.pc = "weather"]
<1>1. /\ looks < MaxLooks /\ looks' = looks + 1 /\ look' = [look EXCEPT ![k] = l]
      /\ UNCHANGED <<hour, where, named, snap, weather, served, told>>
  BY DEF Around!AskWeather
<1>2. looks' \in 0..MaxLooks
  BY <1>1, AroundNumbers, AroundCounts, OneMore
<1>3. l \in Looking /\ LookRight(l)
  BY IdleLooks DEF Looking, LookRight
<1>. HIDE DEF l
<1>. QED
  BY <1>1, <1>2, <1>3, LookGoes DEF AroundInv, AroundTyped

\* What has its weather goes on to be stored, or ends.
LEMMA OnwardLooks ==
    ASSUME NEW l \in Looking, LookRight(l)
    PROVE  Around!Onward(l) \in Looking /\ LookRight(Around!Onward(l))
<1>1. CASE l.place = ""
  BY <1>1, IdleLooks DEF Around!Onward
<1>2. CASE l.place # ""
  <2>. DEFINE m == [l EXCEPT !.pc = "store", !.copy = Around!NoSnap]
  <2>1. m \in Looking
    BY NoSnapRight DEF Looking
  <2>2. m.slot = l.slot /\ m.seen = l.seen /\ m.copy = Around!NoSnap /\ m.place = l.place
    BY DEF Looking
  <2>3. Around!Onward(l) = m
    BY <1>2 DEF Around!Onward
  <2>. HIDE DEF m
  <2>4. LookRight(m)
    BY <1>2, <2>2, NoSnapRight DEF LookRight
  <2>. QED
    BY <2>1, <2>3, <2>4
<1>. QED
  BY <1>1, <1>2

LEMMA CachedStep == ASSUME AroundInv, NEW k \in Threads, Around!Cached(k) PROVE AroundInv'
<1>. DEFINE l == [look[k] EXCEPT !.fresh = weather.source]
<1>1. /\ look[k].pc = "weather" /\ look' = [look EXCEPT ![k] = Around!Onward(l)]
      /\ UNCHANGED <<hour, where, named, snap, weather, served, told, looks>>
  BY DEF Around!Cached
<1>2. weather.source \in Weathers
  BY DEF AroundInv, AroundTyped
<1>3. l \in Looking
  BY <1>2, LooksAre DEF Looking
<1>4. /\ l.slot = look[k].slot /\ l.seen = look[k].seen /\ l.copy = look[k].copy
      /\ l.place = look[k].place /\ l.pc = "weather"
  BY <1>1, LooksAre DEF Looking
<1>. HIDE DEF l
<1>5. LookRight(l)
  BY <1>4, LooksAre DEF LookRight
<1>6. Around!Onward(l) \in Looking /\ LookRight(Around!Onward(l))
  BY <1>3, <1>5, OnwardLooks
<1>. QED
  BY <1>1, <1>6, LookGoes DEF AroundInv, AroundTyped

LEMMA FetchBeginsStep ==
    ASSUME AroundInv, NEW k \in Threads, Around!FetchBegins(k) PROVE AroundInv'
<1>. DEFINE l == [look[k] EXCEPT !.pc = "fetch", !.prev = weather.source]
<1>1. /\ look' = [look EXCEPT ![k] = l]
      /\ UNCHANGED <<hour, where, named, snap, weather, served, told, looks>>
  BY LooksAre DEF Around!FetchBegins, AroundInv, AroundTyped, Looking
<1>2. weather.source \in Weathers
  BY DEF AroundInv, AroundTyped
<1>3. l \in Looking
  BY <1>2, LooksAre DEF Looking
<1>4. /\ l.slot = look[k].slot /\ l.seen = look[k].seen /\ l.copy = look[k].copy
      /\ l.pc = "fetch"
  BY <1>1, LooksAre DEF Looking
<1>. HIDE DEF l
<1>5. LookRight(l)
  BY <1>4, LooksAre DEF LookRight
<1>. QED
  BY <1>1, <1>3, <1>5, LookGoes DEF AroundInv, AroundTyped

LEMMA FetchedStep ==
    ASSUME AroundInv, NEW k \in Threads, NEW source \in {"service", "made up"},
           Around!Fetched(k, source)
    PROVE  AroundInv'
<1>. DEFINE l == [look[k] EXCEPT !.pc = "sync", !.fresh = source, !.prev = ""]
<1>1. /\ look' = [look EXCEPT ![k] = l]
      /\ weather' = [source |-> source, ts |-> hour]
      /\ told' = IF look[k].prev \notin {"", source} THEN told \cup {<<source, "weather">>}
                 ELSE told
      /\ UNCHANGED <<hour, where, named, snap, served, looks>>
  BY LooksAre DEF Around!Fetched, AroundInv, AroundTyped, Looking
<1>2. weather' \in [source : Weathers, ts : 0..MaxHour]
  BY <1>1 DEF AroundInv, AroundTyped, Weathers
<1>3. told' \subseteq (Cast \X {"in", "out"}) \cup ({"service", "made up"} \X {"weather"})
  <2>1. told' = told \/ told' = told \cup {<<source, "weather">>}
    BY <1>1
  <2>2. <<source, "weather">> \in {"service", "made up"} \X {"weather"}
    OBVIOUS
  <2>. QED
    BY <2>1, <2>2, AroundCounts
<1>4. l \in Looking
  BY LooksAre DEF Looking, Weathers
<1>5. /\ l.slot = look[k].slot /\ l.seen = look[k].seen /\ l.copy = look[k].copy
      /\ l.pc = "sync"
  BY <1>1, LooksAre DEF Looking
<1>. HIDE DEF l
<1>6. LookRight(l)
  BY <1>5, LooksAre DEF LookRight
<1>. QED
  BY <1>1, <1>2, <1>3, <1>4, <1>6, LookGoes DEF AroundInv, AroundTyped

LEMMA SyncReadStep == ASSUME AroundInv, NEW k \in Threads, Around!SyncRead(k) PROVE AroundInv'
<1>. DEFINE m == [look[k] EXCEPT !.pc = "write", !.copy = snap]
            l == IF snap.place = "" THEN Around!Onward(look[k]) ELSE m
<1>1. /\ look' = [look EXCEPT ![k] = l]
      /\ UNCHANGED <<hour, where, named, snap, weather, served, told, looks>>
  BY DEF Around!SyncRead
<1>2. snap \in Around!Snaps /\ SnapRight(snap)
  BY DEF AroundInv, AroundTyped
<1>3. m \in Looking
  BY <1>2, LooksAre DEF Looking
<1>4. m.slot = look[k].slot /\ m.seen = look[k].seen /\ m.copy = snap /\ m.pc = "write"
  BY LooksAre DEF Looking
<1>. HIDE DEF m
<1>5. LookRight(m)
  BY <1>2, <1>4, LooksAre DEF LookRight
<1>6. l \in Looking /\ LookRight(l)
  BY <1>3, <1>5, LooksAre, OnwardLooks
<1>. HIDE DEF l
<1>. QED
  BY <1>1, <1>6, LookGoes DEF AroundInv, AroundTyped

LEMMA SyncWriteStep ==
    ASSUME AroundInv, NEW k \in Threads, Around!SyncWrite(k) PROVE AroundInv'
<1>1. /\ snap' = [look[k].copy EXCEPT !.weather = weather.source]
      /\ look' = [look EXCEPT ![k] = Around!Onward(look[k])]
      /\ UNCHANGED <<hour, where, named, weather, served, told, looks>>
  BY DEF Around!SyncWrite, Around!WithWeather
<1>2. weather.source \in {"", "service", "made up"}
  BY DEF AroundInv, AroundTyped, Weathers
<1>3. look[k].copy \in Around!Snaps /\ SnapRight(look[k].copy)
  BY LooksAre DEF Looking, LookRight
<1>4. snap' \in Around!Snaps
  BY <1>1, <1>2, <1>3 DEF Around!Snaps
<1>5. SnapRight(snap')
  <2>. DEFINE s == look[k].copy
              n == [s EXCEPT !.weather = weather.source]
  <2>1. /\ n.known = s.known /\ n.people = s.people /\ n.place = s.place /\ n.ts = s.ts
        /\ n.built = s.built /\ n.slot = s.slot /\ n.seen = s.seen
    BY <1>3 DEF Around!Snaps
  <2>2. SnapRight(n)
    BY <1>3, <2>1 DEF SnapRight
  <2>. QED
    BY <1>1, <2>2
<1>6. Around!Onward(look[k]) \in Looking /\ LookRight(Around!Onward(look[k]))
  BY LooksAre, OnwardLooks
<1>. QED
  BY <1>1, <1>4, <1>5, <1>6, LookGoes DEF AroundInv, AroundTyped

LEMMA StoreStep == ASSUME AroundInv, NEW k \in Threads, Around!Store(k) PROVE AroundInv'
<1>. DEFINE l == look[k]
            new == [slot |-> l.slot, ts |-> hour, place |-> l.place, people |-> l.people,
                    known |-> l.people \cap named[l.chat], weather |-> l.fresh,
                    seen |-> l.seen, built |-> hour]
<1>1. /\ l.pc = "store"
      /\ told' = told \cup ((l.people \ l.old.people) \X {"in"})
                      \cup ((l.old.people \ l.people) \X {"out"})
      /\ snap' = IF l.place = "road" THEN snap ELSE new
      /\ look' = [look EXCEPT ![k] = Around!Idle]
      /\ UNCHANGED <<hour, where, named, weather, served, looks>>
  BY DEF Around!Store
<1>2. l \in Looking /\ LookRight(l) /\ hour \in 0..MaxHour
      /\ snap \in Around!Snaps /\ SnapRight(snap)
  BY LooksAre DEF AroundInv, AroundTyped
<1>3. /\ l.slot \in 0..Around!Slot(MaxHour) /\ l.place \in Places \cup {""}
      /\ l.people \in SUBSET Cast /\ l.fresh \in {"", "service", "made up"}
      /\ l.seen \in 0..MaxHour /\ l.old.people \in SUBSET Cast
  BY <1>2 DEF Looking, Weathers, Around!Snaps
<1>4. l.slot = Around!Slot(l.seen)
  BY <1>2 DEF LookRight
<1>. HIDE DEF l
<1>5. new \in Around!Snaps
  BY <1>2, <1>3 DEF Around!Snaps
<1>6. l.place # "road" => SnapRight(new)
  BY <1>4 DEF SnapRight
<1>7. snap' \in Around!Snaps /\ SnapRight(snap')
  BY <1>1, <1>2, <1>5, <1>6
<1>8. told' \subseteq (Cast \X {"in", "out"}) \cup ({"service", "made up"} \X {"weather"})
  BY <1>1, <1>3 DEF AroundInv, AroundTyped
<1>. QED
  BY <1>1, <1>7, <1>8, IdleLooks, LookGoes DEF AroundInv, AroundTyped

LEMMA NextAroundHer == ASSUME AroundInv, Around!Next PROVE AroundInv'
BY ClockStep, MentionStep, ServeStep, LookStep, AskWeatherStep, CachedStep, FetchBeginsStep,
   FetchedStep, SyncReadStep, SyncWriteStep, StoreStep DEF Around!Next

LEMMA StutterAround == ASSUME AroundInv, UNCHANGED aroundVars PROVE AroundInv'
BY DEF aroundVars, AroundInv, AroundTyped

LEMMA AroundMeans == ASSUME AroundInv PROVE Around!TypeOK /\ Around!ServedIsOfNow
<1>1. \A k \in Threads : /\ look[k] \in Looking
                         /\ served[k] \in [snap : Around!Snaps, at : 0..MaxHour]
                         /\ ServedRight(served[k])
  BY DEF AroundInv, AroundTyped
<1>2. \A k \in Threads : /\ look[k].pc \in {"idle", "weather", "fetch", "sync", "write", "store"}
                         /\ look[k].copy \in Around!Snaps /\ served[k].snap \in Around!Snaps
  BY <1>1 DEF Looking
<1>3. snap.known \subseteq snap.people
  BY DEF AroundInv, SnapRight
<1>4. Around!TypeOK
  BY <1>2, <1>3 DEF AroundInv, AroundTyped, Around!TypeOK
<1>5. Around!ServedIsOfNow
  BY <1>1 DEF ServedRight, Around!ServedIsOfNow
<1>. QED
  BY <1>4, <1>5

-----------------------------------------------------------------------------
(* Recursion over numbers *)

\* The values from s on, up to place n, when h leads from a value and its place to the next.
Steps(g, T, s, n, h) ==
    /\ g \in [0..n -> T] /\ g[0] = s
    /\ \A i \in 1..n : g[i] = h[<<g[i - 1], i - 1>>]

LEMMA RecursionExists ==
    ASSUME NEW T, NEW s \in T, NEW n \in Nat, NEW h \in [T \X Nat -> T]
    PROVE  \E g : Steps(g, T, s, n, h)
<1>. DEFINE Right(g, m) == /\ g \in [0..m -> T] /\ g[0] = s
                           /\ \A i \in 1..m : g[i] = h[<<g[i - 1], i - 1>>]
            B == {m \in Nat : ~\E g : Right(g, m)}
<1>. SUFFICES n \notin B
  BY DEF Steps
<1>1. ASSUME B # {} PROVE FALSE
  <2>1. PICK m \in B : \A k \in B : m <= k
    BY <1>1, FirstOfThem
  <2>2. m # 0
    <3>. DEFINE g == [i \in 0..0 |-> s]
    <3>1. Right(g, 0)
      OBVIOUS
    <3>. QED
      BY <3>1
  <2>3. m - 1 \in Nat /\ m \in Nat
    BY <2>2
  <2>4. m - 1 \notin B
    BY <2>1, <2>3
  <2>5. PICK g : Right(g, m - 1)
    BY <2>3, <2>4
  <2>. DEFINE f == [i \in 0..m |-> IF i = m THEN h[<<g[m - 1], m - 1>>] ELSE g[i]]
  <2>6. g[m - 1] \in T
    BY <2>3, <2>5
  <2>7. h[<<g[m - 1], m - 1>>] \in T
    BY <2>3, <2>6
  <2>8. f \in [0..m -> T]
    BY <2>3, <2>5, <2>7
  <2>9. f[0] = s
    BY <2>2, <2>3, <2>5
  <2>10. \A i \in 1..m : f[i] = h[<<f[i - 1], i - 1>>]
    <3>. SUFFICES ASSUME NEW i \in 1..m PROVE f[i] = h[<<f[i - 1], i - 1>>]
      OBVIOUS
    <3>1. f[i - 1] = g[i - 1]
      BY <2>3
    <3>2. i # m => f[i] = g[i] /\ i \in 1..(m - 1)
      BY <2>3
    <3>3. i = m => f[i] = h[<<g[m - 1], m - 1>>]
      BY <2>3
    <3>. QED
      BY <2>5, <3>1, <3>2, <3>3
  <2>11. Right(f, m)
    BY <2>8, <2>9, <2>10
  <2>. QED
    BY <2>1, <2>11
<1>. QED
  BY <1>1

-----------------------------------------------------------------------------
(* Her week *)

Week == Cardinality(Days)

LEMMA WeekConstants ==
    /\ Week \in Nat \ {0} /\ Days = 0..(Week - 1) /\ 0 \in Days
    /\ "home_rest" \in AtHome /\ "home_rest" \in Plans!Activities
    /\ Pool \subseteq Plans!Activities /\ Tiring \subseteq Plans!Activities
    /\ Tiring # {} /\ Tiring \cap AtHome = {}
    /\ \A d \in Days : \A s \in DOMAIN Fixed[d] : Fixed[d][s] \in Plans!Activities \cup {""}
    /\ Before \in [Plans!Activities -> Plans!Activities \cup {""}]
    /\ After \in [Plans!Activities -> Plans!Activities \cup {""}]
    /\ \A a \in Plans!Activities : Before[a] # "" => After[Before[a]] = ""
    /\ MaxWeek \in Nat /\ MaxStarts \in Nat
<1>1. \A S : Plans!Cardinality(S) = Cardinality(S)
  BY DEF Plans!Cardinality, Cardinality
<1>2. \A S : Plans!IsFiniteSet(S) = IsFiniteSet(S)
  BY DEF Plans!IsFiniteSet, IsFiniteSet
<1>3. Plans!WeekAssumption
  BY ConstantsAssumption
<1>4. IsFiniteSet(Days) /\ Days = 0..(Week - 1) /\ Days # {}
  BY <1>1, <1>2, <1>3 DEF Plans!WeekAssumption, Week
<1>5. Week \in Nat
  BY <1>4, FS_CardinalityType DEF Week
<1>6. Week # 0 /\ 0 \in Days
  BY <1>4, <1>5
<1>. QED
  BY <1>3, <1>4, <1>5, <1>6 DEF Plans!WeekAssumption
LEMMA DaysFollow ==
    /\ \A d \in Days : Plans!Following(d) \in Days /\ Plans!Previous(d) \in Days
    /\ \A d, e \in Days : Plans!Following(d) = Plans!Following(e) => d = e
<1>1. \A S : Plans!Cardinality(S) = Cardinality(S)
  BY DEF Plans!Cardinality, Cardinality
<1>2. Plans!Cardinality(Days) = Week
  BY <1>1 DEF Week
<1>3. Week \in Nat /\ Week # 0
  BY WeekConstants
<1>4. \A d : d \in Days <=> d \in 0..(Week - 1)
  BY WeekConstants
<1>. DEFINE n == Week
<1>. HIDE DEF n
<1>5. \A d \in 0..(n - 1) : n \in Nat /\ n # 0 =>
         /\ (IF d + 1 \in 0..(n - 1) THEN d + 1 ELSE 0) \in 0..(n - 1)
         /\ (IF d = 0 THEN n - 1 ELSE d - 1) \in 0..(n - 1)
  OBVIOUS
<1>6. \A d, e \in 0..(n - 1) : n \in Nat /\ n # 0 =>
         ((IF d + 1 \in 0..(n - 1) THEN d + 1 ELSE 0) = (IF e + 1 \in 0..(n - 1) THEN e + 1 ELSE 0)
            => d = e)
  OBVIOUS
<1>7. \A d \in Days : Plans!Following(d) = (IF d + 1 \in 0..(n - 1) THEN d + 1 ELSE 0)
                      /\ Plans!Previous(d) = (IF d = 0 THEN n - 1 ELSE d - 1)
  BY <1>2, <1>4 DEF Plans!Following, Plans!Previous, n
<1>. QED
  BY <1>3, <1>4, <1>5, <1>6, <1>7 DEF n

LEMMA SlotsAre == Plans!Slots = 0..3 /\ Plans!Morning = 0 /\ Plans!Evening = 2 /\ Plans!Night = 3
BY DEF Plans!Slots, Plans!Morning, Plans!Evening, Plans!Night

\* What is planned for a slot of a day.
LEMMA PlansAre ==
    ASSUME NEW p \in Plans!Plans, NEW d \in Days, NEW s \in 0..3
    PROVE  p[d] \in [Plans!Slots -> Plans!Activities] /\ p[d][s] \in Plans!Activities
           /\ After[p[d][s]] \in Plans!Activities \cup {""}
           /\ Before[p[d][s]] \in Plans!Activities \cup {""}
<1>1. p[d] \in [Plans!Slots -> Plans!Activities]
  BY DEF Plans!Plans
<1>2. p[d][s] \in Plans!Activities
  BY <1>1, SlotsAre
<1>. QED
  BY <1>1, <1>2, WeekConstants

\* A slot of a day becomes an activity, and nothing else changes.
SlotOf(p, d, s, a) == [p EXCEPT ![d][s] = a]
OthersStay(p, q, d, s) == \A e \in Days, r \in 0..3 : e # d \/ r # s => q[e][r] = p[e][r]

LEMMA SlotPut ==
    ASSUME NEW p \in Plans!Plans, NEW d \in Days, NEW s \in 0..3, NEW a \in Plans!Activities,
           NEW q, q = SlotOf(p, d, s, a)
    PROVE  q \in Plans!Plans /\ q[d][s] = a /\ OthersStay(p, q, d, s)
<1>1. p \in [Days -> [0..3 -> Plans!Activities]]
  BY SlotsAre DEF Plans!Plans
<1>2. q = [p EXCEPT ![d] = [p[d] EXCEPT ![s] = a]]
  BY <1>1 DEF SlotOf
<1>3. p[d] \in [0..3 -> Plans!Activities]
  BY <1>1
<1>. DEFINE x == [p[d] EXCEPT ![s] = a]
<1>4. x \in [0..3 -> Plans!Activities] /\ x[s] = a /\ \A r \in 0..3 : r # s => x[r] = p[d][r]
  BY <1>3
<1>. HIDE DEF x
<1>5. q \in [Days -> [0..3 -> Plans!Activities]] /\ q[d] = x /\ \A e \in Days : e # d => q[e] = p[e]
  BY <1>1, <1>2, <1>4 DEF x
<1>6. q \in Plans!Plans
  BY <1>5, SlotsAre DEF Plans!Plans
<1>. QED
  BY <1>4, <1>5, <1>6 DEF OthersStay

\* Nights as they were, evenings too but for those that ask for no morning any more.
Nights(p, q) == \A d \in Days : q[d][3] = p[d][3]

\* The morning after d is what the night of d asks for, or else what its evening does.
Asked(p, d) ==
    IF After[p[d][3]] # "" THEN p[Plans!Following(d)][0] = After[p[d][3]]
    ELSE After[p[d][2]] \in {"", p[Plans!Following(d)][0]}

\* A morning is planned after a slot of d; other mornings stay.
MorningMoved(p, q, f, a) ==
    /\ \A e \in Days : q[e][1] = p[e][1] /\ q[e][2] = p[e][2] /\ q[e][3] = p[e][3]
    /\ \A e \in Days : e # f => q[e][0] = p[e][0]
    /\ q[f][0] = IF a = "" THEN p[f][0] ELSE a

LEMMA MorningPut ==
    ASSUME NEW p \in Plans!Plans, NEW d \in Days, NEW s \in {2, 3},
           NEW q, q = Plans!MorningAfter(p, d, s)
    PROVE  q \in Plans!Plans /\ MorningMoved(p, q, Plans!Following(d), After[p[d][s]])
<1>. DEFINE f == Plans!Following(d)
            a == After[p[d][s]]
<1>0. s \in 0..3
  OBVIOUS
<1>1. f \in Days /\ a \in Plans!Activities \cup {""}
  BY <1>0, DaysFollow, PlansAre
<1>2. q = IF a = "" THEN p ELSE SlotOf(p, f, 0, a)
  BY SlotsAre DEF Plans!MorningAfter, SlotOf
<1>. HIDE DEF f, a
<1>3. CASE a = ""
  BY <1>2, <1>3 DEF MorningMoved, f, a
<1>4. CASE a # ""
  <2>1. q = SlotOf(p, f, 0, a) /\ a \in Plans!Activities
    BY <1>1, <1>2, <1>4
  <2>2. q \in Plans!Plans /\ q[f][0] = a /\ OthersStay(p, q, f, 0)
    <3>1. 0 \in 0..3
      OBVIOUS
    <3>. QED
      BY <1>1, <2>1, <3>1, SlotPut
  <2>3. \A e \in Days, r \in 0..3 : e # f \/ r # 0 => q[e][r] = p[e][r]
    BY <2>2 DEF OthersStay
  <2>4. MorningMoved(p, q, f, a)
    <3>1. \A e \in Days, r \in {1, 2, 3} : q[e][r] = p[e][r]
      BY <2>3
    <3>2. \A e \in Days : q[e][1] = p[e][1] /\ q[e][2] = p[e][2] /\ q[e][3] = p[e][3]
      BY <3>1
    <3>3. \A e \in Days : e # f => q[e][0] = p[e][0]
      BY <2>3
    <3>. QED
      BY <1>4, <2>2, <3>2, <3>3 DEF MorningMoved
  <2>. QED
    BY <2>2, <2>4 DEF f, a
<1>. QED
  BY <1>3, <1>4

\* The evening before an activity may become its rehearsal, which asks for no morning.
EveningMoved(p, q) ==
    /\ \A e \in Days : q[e][0] = p[e][0] /\ q[e][1] = p[e][1] /\ q[e][3] = p[e][3]
    /\ \A e \in Days : q[e][2] = p[e][2] \/ After[q[e][2]] = ""

LEMMA EveningPut ==
    ASSUME NEW p \in Plans!Plans, NEW d \in Days, NEW act \in Plans!Activities,
           NEW q, q = Plans!EveningBefore(p, d, act)
    PROVE  q \in Plans!Plans /\ EveningMoved(p, q)
<1>. DEFINE f == Plans!Previous(d)
            a == Before[act]
<1>1. f \in Days /\ a \in Plans!Activities \cup {""}
  BY DaysFollow, WeekConstants
<1>2. q = p \/ (a # "" /\ q = SlotOf(p, f, 2, a))
  BY SlotsAre DEF Plans!EveningBefore, SlotOf
<1>3. a # "" => After[a] = ""
  BY WeekConstants
<1>4. CASE q = p
  BY <1>4 DEF EveningMoved
<1>5. CASE a # "" /\ q = SlotOf(p, f, 2, a)
  <2>. HIDE DEF f, a
  <2>1. q = SlotOf(p, f, 2, a) /\ a \in Plans!Activities
    BY <1>1, <1>5
  <2>2. q \in Plans!Plans /\ q[f][2] = a /\ OthersStay(p, q, f, 2)
    <3>1. 2 \in 0..3
      OBVIOUS
    <3>. QED
      BY <1>1, <2>1, <3>1, SlotPut
  <2>3. \A e \in Days, r \in 0..3 : e # f \/ r # 2 => q[e][r] = p[e][r]
    BY <2>2 DEF OthersStay
  <2>4. After[q[f][2]] = ""
    BY <1>3, <1>5, <2>2
  <2>5. EveningMoved(p, q)
    <3>1. \A e \in Days, r \in {0, 1, 3} : q[e][r] = p[e][r]
      BY <2>3
    <3>2. \A e \in Days : q[e][0] = p[e][0] /\ q[e][1] = p[e][1] /\ q[e][3] = p[e][3]
      BY <3>1
    <3>3. \A e \in Days : e # f => q[e][2] = p[e][2]
      BY <2>3
    <3>. QED
      BY <2>4, <3>2, <3>3 DEF EveningMoved
  <2>. QED
    BY <2>2, <2>5
<1>. QED
  BY <1>2, <1>4, <1>5

\* The chains of a day leave the nights, ask what they ask of the morning after, and leave
\* what other days ask for.
LEMMA ChainsKeep ==
    ASSUME NEW p \in Plans!Plans, NEW d \in Days, NEW q, q = Plans!ChainsOf(p, d)
    PROVE  /\ q \in Plans!Plans /\ Nights(p, q) /\ Asked(q, d)
           /\ \A e \in Days \ {d} : Asked(p, e) => Asked(q, e)
<1>. DEFINE a == Plans!MorningAfter(p, d, 2)
            b == Plans!EveningBefore(a, d, p[d][2])
            f == Plans!Following(d)
<1>1. q = Plans!MorningAfter(b, d, 3)
  BY SlotsAre DEF Plans!ChainsOf
<1>0. 2 \in {2, 3} /\ 3 \in {2, 3} /\ 2 \in 0..3
  OBVIOUS
<1>2. f \in Days /\ p[d][2] \in Plans!Activities
  BY <1>0, DaysFollow, PlansAre
<1>. HIDE DEF a, b, f
<1>3. a \in Plans!Plans /\ MorningMoved(p, a, f, After[p[d][2]])
  BY <1>0, MorningPut DEF a, f
<1>4. b \in Plans!Plans /\ EveningMoved(a, b)
  BY <1>2, <1>3, EveningPut DEF b
<1>5. q \in Plans!Plans /\ MorningMoved(b, q, f, After[b[d][3]])
  BY <1>0, <1>1, <1>4, MorningPut DEF f
<1>6. \A e \in Days : q[e][3] = p[e][3] /\ b[e][3] = p[e][3]
  BY <1>3, <1>4, <1>5 DEF MorningMoved, EveningMoved
<1>7. \A e \in Days : q[e][2] = p[e][2] \/ After[q[e][2]] = ""
  BY <1>3, <1>4, <1>5 DEF MorningMoved, EveningMoved
<1>8. \A e \in Days : e # f => q[e][0] = p[e][0]
  BY <1>3, <1>4, <1>5 DEF MorningMoved, EveningMoved
<1>9. q[f][0] = IF After[p[d][3]] # "" THEN After[p[d][3]]
                ELSE IF After[p[d][2]] = "" THEN p[f][0] ELSE After[p[d][2]]
  BY <1>2, <1>3, <1>4, <1>5, <1>6 DEF MorningMoved, EveningMoved
<1>10. Nights(p, q)
  BY <1>6 DEF Nights
<1>11. Asked(q, d)
  <2>1. CASE After[q[d][3]] # ""
    BY <1>6, <1>9, <2>1 DEF Asked, f
  <2>2. CASE After[q[d][3]] = ""
    <3>1. After[p[d][3]] = ""
      BY <1>6, <2>2
    <3>2. CASE After[q[d][2]] = ""
      BY <2>2, <3>2 DEF Asked
    <3>3. CASE After[q[d][2]] # ""
      <4>1. q[d][2] = p[d][2]
        BY <1>7, <3>3
      <4>2. q[f][0] = After[q[d][2]]
        BY <1>9, <3>1, <3>3, <4>1
      <4>. QED
        BY <2>2, <4>2 DEF Asked, f
    <3>. QED
      BY <3>2, <3>3
  <2>. QED
    BY <2>1, <2>2
<1>12. ASSUME NEW e \in Days \ {d}, Asked(p, e) PROVE Asked(q, e)
  <2>. DEFINE g == Plans!Following(e)
  <2>1. g \in Days /\ g # f
    BY <1>12, DaysFollow DEF f
  <2>2. q[g][0] = p[g][0] /\ q[e][3] = p[e][3]
    BY <1>6, <1>8, <2>1
  <2>3. q[e][2] = p[e][2] \/ After[q[e][2]] = ""
    BY <1>7
  <2>. QED
    BY <1>12, <2>2, <2>3 DEF Asked
<1>. QED
  BY <1>5, <1>10, <1>11, <1>12
LEMMA ChainedKeeps ==
    ASSUME NEW p \in Plans!Plans
    PROVE  /\ Plans!Chained(p) \in Plans!Plans /\ Nights(p, Plans!Chained(p))
           /\ \A d \in Days : Asked(Plans!Chained(p), d)
<1>. DEFINE n == Plans!Cardinality(Days)
            h == [x \in Plans!Plans \X Nat |->
                     IF x[2] \in Days THEN Plans!ChainsOf(x[1], x[2]) ELSE x[1]]
            Up(g) == g = [k \in 0..n |-> IF k = 0 THEN p ELSE Plans!ChainsOf(g[k - 1], k - 1)]
            c == CHOOSE g : Up(g)
<1>1. n = Week /\ n \in Nat /\ Days = 0..(n - 1)
  <2>1. \A S : Plans!Cardinality(S) = Cardinality(S)
    BY DEF Plans!Cardinality, Cardinality
  <2>2. n = Week
    BY <2>1 DEF Week
  <2>. QED
    BY <2>2, WeekConstants
<1>2. Plans!Chained(p) = c[n]
  BY DEF Plans!Chained
<1>. HIDE DEF n
<1>3. h \in [Plans!Plans \X Nat -> Plans!Plans]
  BY ChainsKeep
<1>4. PICK g \in [0..n -> Plans!Plans] :
          g[0] = p /\ \A i \in 1..n : g[i] = h[<<g[i - 1], i - 1>>]
  <2>. HIDE DEF h
  <2>1. \E g : Steps(g, Plans!Plans, p, n, h)
    BY <1>1, <1>3, RecursionExists
  <2>. QED
    BY <2>1 DEF Steps
<1>5. \A i \in 1..n : g[i] = Plans!ChainsOf(g[i - 1], i - 1)
  <2>. SUFFICES ASSUME NEW i \in 1..n PROVE g[i] = Plans!ChainsOf(g[i - 1], i - 1)
    OBVIOUS
  <2>1. i - 1 \in Days /\ i - 1 \in Nat /\ i - 1 \in 0..n
    BY <1>1
  <2>2. g[i - 1] \in Plans!Plans
    BY <2>1
  <2>3. h[<<g[i - 1], i - 1>>] = Plans!ChainsOf(g[i - 1], i - 1)
    BY <2>1, <2>2
  <2>. QED
    BY <1>4, <2>3
<1>6. Up(g)
  <2>1. DOMAIN g = 0..n
    OBVIOUS
  <2>2. \A k \in 0..n : g[k] = IF k = 0 THEN p ELSE Plans!ChainsOf(g[k - 1], k - 1)
    <3>. SUFFICES ASSUME NEW k \in 0..n
                  PROVE  g[k] = IF k = 0 THEN p ELSE Plans!ChainsOf(g[k - 1], k - 1)
      OBVIOUS
    <3>1. k # 0 => k \in 1..n
      BY <1>1
    <3>. QED
      BY <1>4, <1>5, <3>1
  <2>. QED
    BY <2>2
<1>7. Up(c)
  BY <1>6
<1>8. c[0] = p /\ \A k \in 1..n : c[k] = Plans!ChainsOf(c[k - 1], k - 1)
  <2>. HIDE DEF c
  <2>1. 0 \in 0..n /\ \A k \in 1..n : k \in 0..n /\ k # 0
    BY <1>1
  <2>. QED
    BY <1>7, <2>1
<1>. HIDE DEF c, h
<1>. DEFINE Good(k) == /\ c[k] \in Plans!Plans /\ Nights(p, c[k])
                       /\ \A d \in Days : d < k => Asked(c[k], d)
            B == {k \in 0..n : ~Good(k)}
<1>9. ASSUME B # {} PROVE FALSE
  <2>1. B \in SUBSET Nat
    BY <1>1
  <2>2. PICK k \in B : \A m \in B : k <= m
    BY <1>9, <2>1, FirstOfThem
  <2>3. k \in 0..n /\ ~Good(k)
    OBVIOUS
  <2>4. k # 0
    <3>1. Nights(p, p)
      BY DEF Nights
    <3>2. \A d \in Days : ~(d < 0)
      BY <1>1
    <3>3. Good(0)
      BY <1>8, <3>1, <3>2
    <3>. QED
      BY <2>3, <3>3
  <2>. DEFINE m == k - 1
  <2>5. m \in 0..n /\ m < k /\ m \in Days /\ k \in 1..n
    BY <1>1, <2>3, <2>4
  <2>6. Good(m)
    BY <2>2, <2>5
  <2>7. c[k] = Plans!ChainsOf(c[m], m)
    BY <1>8, <2>5
  <2>8. /\ c[k] \in Plans!Plans /\ Nights(c[m], c[k]) /\ Asked(c[k], m)
        /\ \A e \in Days \ {m} : Asked(c[m], e) => Asked(c[k], e)
    BY <2>5, <2>6, <2>7, ChainsKeep
  <2>9. Nights(p, c[k])
    BY <2>6, <2>8 DEF Nights
  <2>10. ASSUME NEW d \in Days, d < k PROVE Asked(c[k], d)
    <3>1. d # m => d < m
      BY <1>1, <2>3, <2>10
    <3>. QED
      BY <2>6, <2>8, <3>1
  <2>11. Good(k)
    BY <2>8, <2>9, <2>10
  <2>. QED
    BY <2>3, <2>11
<1>10. Good(n)
  BY <1>1, <1>9
<1>11. \A d \in Days : d < n
  BY <1>1
<1>. QED
  BY <1>2, <1>10, <1>11

LEMMA FilledPlans ==
    ASSUME NEW x \in Plans!Draws
    PROVE  /\ Plans!Filled(x) \in Plans!Plans
           /\ \A d \in Days : Plans!Given(d, 3) \/ Plans!Filled(x)[d][3] \in AtHome
<1>1. x \in [Days -> [Plans!Slots -> Pool \cup {"home_rest"}]]
  BY DEF Plans!Draws
<1>2. \A d \in Days, s \in Plans!Slots :
         x[d][s] \in (IF Plans!Given(d, s) THEN {"home_rest"} ELSE Plans!DrawnFrom(s))
  BY DEF Plans!Draws
<1>3. ASSUME NEW d \in Days, NEW s \in Plans!Slots, Plans!Given(d, s)
      PROVE  Fixed[d][s] \in Plans!Activities
  BY <1>3, WeekConstants DEF Plans!Given
<1>4. ASSUME NEW d \in Days, NEW s \in Plans!Slots PROVE x[d][s] \in Plans!Activities
  <2>1. x[d] \in [Plans!Slots -> Pool \cup {"home_rest"}]
    BY <1>1
  <2>2. x[d][s] \in Pool \cup {"home_rest"}
    BY <2>1
  <2>. QED
    BY <2>2, WeekConstants
<1>5. Plans!Filled(x) \in Plans!Plans
  BY <1>3, <1>4 DEF Plans!Filled, Plans!Plans
<1>6. ASSUME NEW d \in Days, ~Plans!Given(d, 3) PROVE Plans!Filled(x)[d][3] \in AtHome
  <2>1. 3 \in Plans!Slots /\ Plans!Night = 3
    BY SlotsAre
  <2>2. Plans!Filled(x)[d][3] = x[d][3]
    BY <1>6, <2>1 DEF Plans!Filled
  <2>3. x[d][3] \in Plans!DrawnFrom(3)
    BY <1>2, <1>6, <2>1
  <2>4. Plans!DrawnFrom(3) \subseteq AtHome
    BY <2>1, WeekConstants DEF Plans!DrawnFrom
  <2>. QED
    BY <2>2, <2>3, <2>4
<1>. QED
  BY <1>5, <1>6

LEMMA RestedPlans ==
    ASSUME NEW p \in Plans!Plans
    PROVE  /\ Plans!Rested(p) \in Plans!Plans
           /\ \A d \in Days : Plans!Rested(p)[d][3] = p[d][3] \/ Plans!Rested(p)[d][3] \in AtHome
<1>1. \A d \in Days : Plans!Rested(p)[d] = p[d]
                      \/ \E m : Plans!Rested(p)[d] = [p[d] EXCEPT ![m] = "home_rest"]
  BY DEF Plans!Rested
<1>2. ASSUME NEW d \in Days
      PROVE  /\ Plans!Rested(p)[d] \in [0..3 -> Plans!Activities]
             /\ Plans!Rested(p)[d][3] = p[d][3] \/ Plans!Rested(p)[d][3] \in AtHome
  <2>1. p[d] \in [0..3 -> Plans!Activities]
    BY SlotsAre DEF Plans!Plans
  <2>2. CASE Plans!Rested(p)[d] = p[d]
    BY <2>1, <2>2
  <2>3. ASSUME NEW m, Plans!Rested(p)[d] = [p[d] EXCEPT ![m] = "home_rest"]
        PROVE  /\ Plans!Rested(p)[d] \in [0..3 -> Plans!Activities]
               /\ Plans!Rested(p)[d][3] = p[d][3] \/ Plans!Rested(p)[d][3] \in AtHome
    <3>1. "home_rest" \in AtHome /\ "home_rest" \in Plans!Activities
      BY WeekConstants
    <3>. DEFINE x == [p[d] EXCEPT ![m] = "home_rest"]
    <3>2. x \in [0..3 -> Plans!Activities]
      BY <2>1, <3>1
    <3>3. 3 \in DOMAIN p[d]
      BY <2>1
    <3>4. x[3] = p[d][3] \/ x[3] = "home_rest"
      BY <3>3
    <3>. HIDE DEF x
    <3>5. Plans!Rested(p)[d] = x
      BY <2>3 DEF x
    <3>. QED
      BY <3>1, <3>2, <3>4, <3>5
  <2>. QED
    BY <1>1, <2>2, <2>3
<1>3. \E f : Plans!Rested(p) = [d \in Days |-> f[d]]
  <2>1. Plans!Rested(p) = [d \in Days |-> Plans!Rested(p)[d]]
    BY DEF Plans!Rested
  <2>. QED
    BY <2>1
<1>4. Plans!Rested(p) \in [Days -> [0..3 -> Plans!Activities]]
  <2>1. PICK f : Plans!Rested(p) = [d \in Days |-> f[d]]
    BY <1>3
  <2>. QED
    BY <1>2, <2>1
<1>. QED
  BY <1>2, <1>4, SlotsAre DEF Plans!Plans

\* The plan of a week is a plan, its nights are at home or given, and its mornings are asked for.
Sound(p) ==
    /\ p \in Plans!Plans
    /\ \A d \in Days : Plans!Given(d, 3) \/ p[d][3] \in AtHome
    /\ \A d \in Days : Asked(p, d)

LEMMA WeekIsDrawn == ASSUME draw \in Plans!Draws PROVE Sound(Plans!GenerateWeek)
<1>. DEFINE f == Plans!Filled(draw)
            r == Plans!Rested(f)
<1>1. f \in Plans!Plans /\ \A d \in Days : Plans!Given(d, 3) \/ f[d][3] \in AtHome
  BY FilledPlans
<1>. HIDE DEF f
<1>2. r \in Plans!Plans /\ \A d \in Days : r[d][3] = f[d][3] \/ r[d][3] \in AtHome
  BY <1>1, RestedPlans
<1>. HIDE DEF r
<1>3. /\ Plans!Chained(r) \in Plans!Plans /\ Nights(r, Plans!Chained(r))
      /\ \A d \in Days : Asked(Plans!Chained(r), d)
  BY <1>2, ChainedKeeps
<1>4. Plans!GenerateWeek = Plans!Chained(r)
  BY DEF Plans!GenerateWeek, r, f
<1>5. \A d \in Days : Plans!Given(d, 3) \/ Plans!Chained(r)[d][3] \in AtHome
  BY <1>1, <1>2, <1>3 DEF Nights
<1>. QED
  BY <1>3, <1>4, <1>5 DEF Sound
LEMMA WeekNumbers == MaxWeek \in Nat /\ MaxStarts \in Nat
BY WeekConstants

Entries == {Plans!Nothing} \cup [week : 0..MaxWeek, plan : Plans!Plans]

WeekTyped ==
    /\ week \in 0..MaxWeek /\ draw \in Plans!Draws /\ starts \in 0..MaxStarts
    /\ table \in Entries
    /\ cache \in [Threads -> Entries]

\* An entry is of no later week (w); one of this week is the plan that was drawn.
OfWeek(e, w, plan) == e.week \in -1..w /\ (e.week = w => e.plan = plan)

\* What a process draws or keeps for this week is the plan the week draws, and so is what the
\* table has of it, unless an older version left it there with a night out.
WeekInv ==
    /\ WeekTyped
    /\ table.week \in -1..week
    /\ table.week = week /\ Plans!NightOk(table.plan) => table.plan = Plans!GenerateWeek
    /\ \A p \in Threads : OfWeek(cache[p], week, Plans!GenerateWeek)
    /\ \A p \in Threads : drawn[p] \in {Plans!NoPlan, Plans!GenerateWeek}
    /\ drawn \in [Threads -> {Plans!NoPlan} \cup Plans!Plans]

LEMMA NothingKept ==
    /\ Plans!Nothing \in Entries /\ Plans!Nothing.week = -1
    /\ \A w \in Nat : \A p : OfWeek(Plans!Nothing, w, p)
<1>1. Plans!Nothing.week = -1
  BY DEF Plans!Nothing
<1>2. \A w \in Nat : -1 \in -1..w /\ w # -1
  OBVIOUS
<1>. QED
  BY <1>1, <1>2 DEF Entries, OfWeek

LEMMA WeekCounts ==
    ASSUME WeekInv PROVE week \in Nat /\ week \in 0..MaxWeek /\ starts \in 0..MaxStarts
                         /\ table.week \in -1..week
<1>1. week \in 0..MaxWeek /\ starts \in 0..MaxStarts /\ table.week \in -1..week
  BY DEF WeekInv, WeekTyped
<1>. QED
  BY <1>1, WeekNumbers

LEMMA PlanDrawn == ASSUME WeekInv PROVE Sound(Plans!GenerateWeek)
BY WeekIsDrawn DEF WeekInv, WeekTyped

LEMMA WeekStarts == Plans!Init => WeekInv
<1>. SUFFICES ASSUME Plans!Init PROVE WeekInv
  OBVIOUS
<1>. DEFINE old == [d \in Days |-> [s \in Plans!Slots |->
                       IF d = 0 /\ s = Plans!Night THEN CHOOSE a \in Tiring : TRUE
                       ELSE "home_rest"]]
<1>1. /\ week = 0 /\ draw \in Plans!Draws /\ table \in {Plans!Nothing, [week |-> 0, plan |-> old]}
      /\ cache = [p \in Threads |-> Plans!Nothing]
      /\ drawn = [p \in Threads |-> Plans!NoPlan] /\ starts = 0
  BY DEF Plans!Init
<1>2. 0 \in 0..MaxWeek /\ 0 \in 0..MaxStarts /\ 0 \in Nat /\ 0 \in -1..0 /\ -1 \in -1..0
  BY WeekNumbers
<1>3. old \in Plans!Plans /\ ~Plans!NightOk(old)
  <2>. DEFINE out == CHOOSE a \in Tiring : TRUE
  <2>1. out \in Tiring /\ out \in Plans!Activities /\ out \notin AtHome
    BY WeekConstants
  <2>. HIDE DEF out
  <2>2. old \in Plans!Plans
    BY <2>1, WeekConstants DEF Plans!Plans, out
  <2>3. 0 \in Days /\ 3 \in Plans!Slots /\ Plans!Night = 3
    <3>1. 3 \in 0..3
      OBVIOUS
    <3>2. 0 \in Days
      BY WeekConstants
    <3>. QED
      BY <3>1, <3>2, SlotsAre
  <2>4. old[0][3] = out
    BY <2>3 DEF out
  <2>. HIDE DEF old
  <2>. QED
    BY <2>1, <2>2, <2>3, <2>4 DEF Plans!NightOk
<1>. HIDE DEF old
<1>. DEFINE e == [week |-> 0, plan |-> old]
<1>4. e \in [week : 0..MaxWeek, plan : Plans!Plans] /\ e.week = 0 /\ e.plan = old
  BY <1>2, <1>3
<1>. HIDE DEF e
<1>5. table \in Entries /\ table.week \in -1..week /\ (table.week = week => table.plan = old)
  BY <1>1, <1>2, <1>4, NothingKept DEF Entries, e
<1>6. WeekTyped
  BY <1>1, <1>2, <1>5, NothingKept DEF WeekTyped
<1>7. \A p \in Threads : OfWeek(cache[p], week, Plans!GenerateWeek)
  BY <1>1, <1>2, NothingKept
<1>. QED
  BY <1>1, <1>3, <1>5, <1>6, <1>7 DEF WeekInv

\* A step within the week leaves what the week draws.
LEMMA WeekGoesOn ==
    ASSUME WeekInv, week' = week, draw' = draw, starts' \in 0..MaxStarts,
           table' = table \/ (table' \in Entries /\ table'.week = week
                                /\ table'.plan = Plans!GenerateWeek),
           cache' \in [Threads -> Entries],
           \A p \in Threads : cache'[p] = cache[p] \/ OfWeek(cache'[p], week, Plans!GenerateWeek),
           drawn' \in [Threads -> {Plans!NoPlan} \cup Plans!Plans],
           \A p \in Threads : drawn'[p] \in {drawn[p], Plans!NoPlan, Plans!GenerateWeek}
    PROVE  WeekInv'
<1>. DEFINE g == Plans!GenerateWeek
<1>1. g' = g
  BY DEF Plans!GenerateWeek
<1>2. WeekTyped'
  BY DEF WeekInv, WeekTyped
<1>3. \A p \in Threads : OfWeek(cache'[p], week, g)
  BY DEF WeekInv
<1>4. \A p \in Threads : drawn'[p] \in {Plans!NoPlan, g}
  BY DEF WeekInv
<1>5. table'.week \in -1..week
  <2>1. week \in -1..week
    BY WeekCounts
  <2>. QED
    BY <2>1, WeekCounts
<1>6. table'.week = week /\ Plans!NightOk(table'.plan) => table'.plan = g
  BY DEF WeekInv
<1>. HIDE DEF g
<1>. QED
  BY <1>1, <1>2, <1>3, <1>4, <1>5, <1>6 DEF WeekInv, g, Plans!NightOk

LEMMA TakeOverStep == ASSUME WeekInv, NEW k \in Threads, Plans!TakeOver(k) PROVE WeekInv'
<1>1. /\ table.week = week /\ Plans!NightOk(table.plan)
      /\ cache' = [cache EXCEPT ![k] = table]
      /\ UNCHANGED <<week, draw, table, drawn, starts>>
  BY DEF Plans!TakeOver, Plans!InTable
<1>2. table \in Entries /\ table.plan = Plans!GenerateWeek /\ cache \in [Threads -> Entries]
      /\ drawn \in [Threads -> {Plans!NoPlan} \cup Plans!Plans]
  BY <1>1 DEF WeekInv, WeekTyped
<1>3. OfWeek(table, week, Plans!GenerateWeek)
  BY <1>2, WeekCounts DEF OfWeek
<1>4. cache' \in [Threads -> Entries]
      /\ \A p \in Threads : cache'[p] = cache[p] \/ OfWeek(cache'[p], week, Plans!GenerateWeek)
  BY <1>1, <1>2, <1>3
<1>. QED
  BY <1>1, <1>2, <1>4, WeekCounts, WeekGoesOn

LEMMA DrawStep == ASSUME WeekInv, NEW k \in Threads, Plans!Draw(k) PROVE WeekInv'
<1>1. /\ drawn' = [drawn EXCEPT ![k] = Plans!GenerateWeek]
      /\ UNCHANGED <<week, draw, table, cache, starts>>
  BY DEF Plans!Draw
<1>2. Plans!GenerateWeek \in Plans!Plans
  BY PlanDrawn DEF Sound
<1>3. cache \in [Threads -> Entries] /\ drawn \in [Threads -> {Plans!NoPlan} \cup Plans!Plans]
  BY DEF WeekInv, WeekTyped
<1>4. /\ drawn' \in [Threads -> {Plans!NoPlan} \cup Plans!Plans]
      /\ \A p \in Threads : drawn'[p] \in {drawn[p], Plans!NoPlan, Plans!GenerateWeek}
  BY <1>1, <1>2, <1>3
<1>. QED
  BY <1>1, <1>3, <1>4, WeekCounts, WeekGoesOn

LEMMA KeepStep == ASSUME WeekInv, NEW k \in Threads, Plans!Keep(k) PROVE WeekInv'
<1>1. /\ drawn[k] # Plans!NoPlan
      /\ table' = [week |-> week, plan |-> drawn[k]]
      /\ cache' = [cache EXCEPT ![k] = table']
      /\ drawn' = [drawn EXCEPT ![k] = Plans!NoPlan]
      /\ UNCHANGED <<week, draw, starts>>
  BY DEF Plans!Keep
<1>2. drawn[k] = Plans!GenerateWeek /\ cache \in [Threads -> Entries]
      /\ drawn \in [Threads -> {Plans!NoPlan} \cup Plans!Plans]
  BY <1>1 DEF WeekInv, WeekTyped
<1>3. Plans!GenerateWeek \in Plans!Plans
  BY PlanDrawn DEF Sound
<1>4. table'.week = week /\ table'.plan = Plans!GenerateWeek /\ table' \in Entries
  BY <1>1, <1>2, <1>3, WeekCounts DEF Entries
<1>5. OfWeek(table', week, Plans!GenerateWeek)
  <2>1. week \in -1..week
    BY WeekCounts
  <2>. QED
    BY <1>4, <2>1 DEF OfWeek
<1>6. cache' \in [Threads -> Entries]
      /\ \A p \in Threads : cache'[p] = cache[p] \/ OfWeek(cache'[p], week, Plans!GenerateWeek)
  BY <1>1, <1>2, <1>4, <1>5
<1>7. drawn' \in [Threads -> {Plans!NoPlan} \cup Plans!Plans]
      /\ \A p \in Threads : drawn'[p] \in {drawn[p], Plans!NoPlan, Plans!GenerateWeek}
  BY <1>1, <1>2
<1>. QED
  BY <1>1, <1>4, <1>6, <1>7, WeekCounts, WeekGoesOn

LEMMA RestartStep == ASSUME WeekInv, NEW k \in Threads, Plans!Restart(k) PROVE WeekInv'
<1>1. /\ starts < MaxStarts /\ starts' = starts + 1
      /\ cache' = [cache EXCEPT ![k] = Plans!Nothing]
      /\ drawn' = [drawn EXCEPT ![k] = Plans!NoPlan]
      /\ UNCHANGED <<week, draw, table>>
  BY DEF Plans!Restart
<1>2. cache \in [Threads -> Entries] /\ drawn \in [Threads -> {Plans!NoPlan} \cup Plans!Plans]
  BY DEF WeekInv, WeekTyped
<1>3. starts' \in 0..MaxStarts
  BY <1>1, WeekCounts, WeekNumbers, OneMore
<1>4. cache' \in [Threads -> Entries]
      /\ \A p \in Threads : cache'[p] = cache[p] \/ OfWeek(cache'[p], week, Plans!GenerateWeek)
  BY <1>1, <1>2, NothingKept, WeekCounts
<1>5. drawn' \in [Threads -> {Plans!NoPlan} \cup Plans!Plans]
      /\ \A p \in Threads : drawn'[p] \in {drawn[p], Plans!NoPlan, Plans!GenerateWeek}
  BY <1>1, <1>2
<1>. QED
  BY <1>1, <1>3, <1>4, <1>5, WeekGoesOn

LEMMA NewWeekStep == ASSUME WeekInv, Plans!NewWeek PROVE WeekInv'
<1>1. /\ week < MaxWeek /\ week' = week + 1
      /\ \A p \in Threads : drawn[p] = Plans!NoPlan
      /\ draw' \in Plans!Draws
      /\ UNCHANGED <<table, cache, drawn, starts>>
  BY DEF Plans!NewWeek
<1>2. week' \in 0..MaxWeek /\ week \in Nat
  BY <1>1, WeekCounts, WeekNumbers, OneMore
<1>3. \A w : w \in -1..week => w \in -1..week' /\ w # week'
  BY <1>1, <1>2
<1>4. table.week \in -1..week /\ \A p \in Threads : cache[p].week \in -1..week
  BY DEF WeekInv, OfWeek
<1>5. WeekTyped'
  BY <1>1, <1>2 DEF WeekInv, WeekTyped
<1>6. \A p \in Threads : OfWeek(cache'[p], week', Plans!GenerateWeek')
  BY <1>1, <1>3, <1>4 DEF OfWeek
<1>7. drawn' \in [Threads -> {Plans!NoPlan} \cup Plans!Plans]
  BY <1>1 DEF WeekInv
<1>. QED
  BY <1>1, <1>3, <1>4, <1>5, <1>6, <1>7 DEF WeekInv

LEMMA NextOfWeek == ASSUME WeekInv, Plans!Next PROVE WeekInv'
BY TakeOverStep, DrawStep, KeepStep, RestartStep, NewWeekStep DEF Plans!Next

LEMMA StutterWeek == ASSUME WeekInv, UNCHANGED weekVars PROVE WeekInv'
<1>1. UNCHANGED <<week, draw, table, cache, drawn, starts>>
  BY DEF weekVars
<1>2. cache \in [Threads -> Entries] /\ drawn \in [Threads -> {Plans!NoPlan} \cup Plans!Plans]
  BY DEF WeekInv, WeekTyped
<1>. QED
  BY <1>1, <1>2, WeekCounts, WeekGoesOn

LEMMA WeekMeans == ASSUME WeekInv PROVE Plans!TypeOK /\ Plans!WeekIsSound
<1>. DEFINE g == Plans!GenerateWeek
<1>1. Sound(g)
  BY PlanDrawn
<1>2. \A e \in Entries : e = Plans!Nothing \/ (e.week \in 0..MaxWeek /\ e.plan \in Plans!Plans)
  BY DEF Entries
<1>3. table \in Entries /\ \A p \in Threads : cache[p] \in Entries
  BY DEF WeekInv, WeekTyped
<1>4. \A p \in Threads : drawn[p] = Plans!NoPlan \/ drawn[p] \in Plans!Plans
  BY DEF WeekInv
<1>5. \A e \in {table} \cup {cache[p] : p \in Threads} : e \in Entries
  BY <1>3
<1>6. Plans!TypeOK
  BY <1>2, <1>4, <1>5 DEF WeekInv, WeekTyped, Plans!TypeOK
<1>7. \A plan \in Plans!Current : plan = g
  BY DEF WeekInv, OfWeek, Plans!Current
<1>. HIDE DEF g
<1>8. Plans!OnePlan
  <2>1. Plans!Current \subseteq {g}
    BY <1>7
  <2>2. IsFiniteSet({g}) /\ Cardinality({g}) = 1
    BY FS_Singleton
  <2>3. Cardinality(Plans!Current) <= 1
    BY <2>1, <2>2, FS_Subset
  <2>4. Plans!Cardinality(Plans!Current) = Cardinality(Plans!Current)
    BY DEF Plans!Cardinality, Cardinality
  <2>. QED
    BY <2>3, <2>4 DEF Plans!OnePlan
<1>9. Plans!PlanHolds
  <2>1. \A d \in Days : /\ Plans!Given(d, 3) \/ g[d][3] \in AtHome
                        /\ Asked(g, d)
    BY <1>1 DEF Sound
  <2>2. \A d \in Days : /\ Plans!Given(d, Plans!Night) \/ g[d][Plans!Night] \in AtHome
                        /\ LET asked == IF After[g[d][Plans!Night]] # "" THEN Plans!Night
                                        ELSE Plans!Evening
                           IN  After[g[d][asked]] \in {"", g[Plans!Following(d)][Plans!Morning]}
    BY <2>1, SlotsAre DEF Asked
  <2>. QED
    BY <1>7, <2>2 DEF Plans!PlanHolds
<1>. QED
  BY <1>6, <1>8, <1>9 DEF Plans!WeekIsSound

-----------------------------------------------------------------------------
(* The ways through the home *)

LEMMA HomeConstants ==
    /\ IsFiniteSet(Rooms) /\ IsFiniteSet(Doors) /\ Rooms \cap Doors = {}
    /\ Outdoors \notin Rooms /\ Nowhere \notin Rooms
    /\ \A w \in Written : w \subseteq Home!Ends /\ \E a, b \in Home!Ends : w \subseteq {a, b}
    /\ Length \in [Doors -> [Rooms -> Nat]]
<1>1. \A S : Home!IsFiniteSet(S) = IsFiniteSet(S)
  BY DEF Home!IsFiniteSet, IsFiniteSet
<1>. QED
  BY <1>1, ConstantsAssumption DEF Home!PlanAssumption

LEMMA SameSize == \A S : Home!Cardinality(S) = Cardinality(S)
BY DEF Home!Cardinality, Cardinality

LEMMA LengthsAre ==
    ASSUME NEW d \in Doors, NEW r \in Rooms PROVE Length[d][r] \in Nat
<1>1. Length[d] \in [Rooms -> Nat]
  BY HomeConstants
<1>. QED
  BY <1>1

LEMMA LeastIs ==
    ASSUME NEW S \in SUBSET Nat, S # {}
    PROVE  Home!Min(S) \in S /\ \A x \in S : Home!Min(S) <= x
<1>1. \E x \in S : \A y \in S : x <= y
  BY FirstOfThem
<1>. QED
  BY <1>1 DEF Home!Min

\* A door leads from one room to the other.
Edge(a, b) == \E d \in Doors : between[d] = {a, b}

\* A door is written as the plan allows.
Planned == between \in [Doors -> Written]

LEMMA DoorsBetween ==
    ASSUME Planned, NEW d \in Doors
    PROVE  between[d] \subseteq Home!Ends /\ \E a, b \in Home!Ends : between[d] \subseteq {a, b}
BY HomeConstants DEF Planned

LEMMA StepIs ==
    ASSUME Planned, NEW a \in Rooms, NEW b \in Rooms, Edge(a, b)
    PROVE  /\ Home!Step(a, b) \in Nat
           /\ \E d \in Doors : between[d] = {a, b} /\ Home!Step(a, b) = Length[d][a] + Length[d][b]
           /\ \A d \in Doors : between[d] = {a, b} =>
                  Home!Step(a, b) <= Length[d][a] + Length[d][b]
<1>. DEFINE S == {Length[d][a] + Length[d][b] : d \in {x \in Doors : between[x] = {a, b}}}
<1>1. S \in SUBSET Nat
  <2>1. \A d \in Doors : Length[d][a] \in Nat /\ Length[d][b] \in Nat
    BY LengthsAre
  <2>2. \A d \in Doors : Length[d][a] + Length[d][b] \in Nat
    BY <2>1
  <2>. QED
    BY <2>2
<1>2. S # {}
  BY DEF Edge
<1>3. Home!Step(a, b) = Home!Min(S)
  BY DEF Home!Step
<1>4. Home!Min(S) \in S /\ \A x \in S : Home!Min(S) <= x
  BY <1>1, <1>2, LeastIs
<1>. QED
  BY <1>1, <1>3, <1>4

\* A way from a to b through doors that passes no room twice.
Way(w, a, b) ==
    /\ w \in Seq(Rooms) /\ Len(w) > 0 /\ w[1] = a /\ w[Len(w)] = b
    /\ \A i, j \in 1..Len(w) : w[i] = w[j] => i = j
    /\ \A i \in 1..(Len(w) - 1) : Edge(w[i], w[i + 1])

LEMMA WayProperties ==
    ASSUME NEW w, NEW a, NEW b, Way(w, a, b)
    PROVE  /\ w \in Seq(Rooms) /\ Len(w) \in Nat /\ Len(w) >= 1 /\ DOMAIN w = 1..Len(w)
           /\ \A i \in 1..Len(w) : w[i] \in Rooms
           /\ a \in Rooms /\ b \in Rooms
<1>1. w \in Seq(Rooms) /\ Len(w) > 0 /\ w[1] = a /\ w[Len(w)] = b
  BY DEF Way
<1>2. Len(w) \in Nat /\ DOMAIN w = 1..Len(w)
  BY <1>1, LenProperties
<1>3. \A i \in 1..Len(w) : w[i] \in Rooms
  BY <1>1, ElementOfSeq
<1>4. 1 \in 1..Len(w) /\ Len(w) \in 1..Len(w)
  BY <1>1, <1>2
<1>. QED
  BY <1>1, <1>2, <1>3, <1>4

LEMMA WaysAre == \A a, b, w : w \in Home!Ways(a, b) <=> Way(w, a, b)
<1>. DEFINE N == Cardinality(Rooms)
<1>1. N \in Nat
  BY HomeConstants, FS_CardinalityType
<1>2. ASSUME NEW a, NEW b, NEW w, w \in Home!Ways(a, b) PROVE Way(w, a, b)
  <2>1. /\ w \in Home!SeqOf(Rooms, Home!Cardinality(Rooms))
        /\ w # <<>> /\ w[1] = a /\ Home!Last(w) = b /\ Home!IsInjective(w)
        /\ \A i \in 1..(Len(w) - 1) : \E d \in Doors : between[d] = {w[i], w[i + 1]}
    BY <1>2 DEF Home!Ways
  <2>2. PICK m \in 0..N : w \in [1..m -> Rooms]
    BY <2>1, SameSize DEF Home!SeqOf
  <2>3. w \in Seq(Rooms) /\ Len(w) = m /\ m \in Nat
    BY <1>1, <2>2, SeqDef
  <2>4. Len(w) > 0
    BY <2>1, <2>3, EmptySeq
  <2>5. \A i, j \in 1..Len(w) : w[i] = w[j] => i = j
    BY <2>1, <2>2, <2>3 DEF Home!IsInjective
  <2>6. w[Len(w)] = b
    BY <2>1 DEF Home!Last
  <2>. QED
    BY <2>1, <2>3, <2>4, <2>5, <2>6 DEF Way, Edge
<1>3. ASSUME NEW a, NEW b, NEW w, Way(w, a, b) PROVE w \in Home!Ways(a, b)
  <2>. DEFINE m == Len(w)
  <2>1. /\ w \in Seq(Rooms) /\ m \in Nat /\ m >= 1 /\ DOMAIN w = 1..m
        /\ \A i \in 1..m : w[i] \in Rooms
    BY <1>3, WayProperties
  <2>2. w[1] = a /\ w[m] = b /\ (\A i, j \in 1..m : w[i] = w[j] => i = j)
        /\ \A i \in 1..(m - 1) : Edge(w[i], w[i + 1])
    BY <1>3 DEF Way
  <2>3. w \in [1..m -> Rooms]
    BY <2>1, LenProperties
  <2>. HIDE DEF m
  <2>4. w \in Injection(1..m, Rooms)
    BY <2>2, <2>3 DEF Injection, IsInjective
  <2>5. Cardinality(1..m) <= N /\ Cardinality(1..m) = m
    BY <2>1, <2>4, HomeConstants, FS_Injection, FS_Interval
  <2>6. m \in 0..N
    BY <1>1, <2>1, <2>5
  <2>7. w \in Home!SeqOf(Rooms, Home!Cardinality(Rooms))
    BY <2>3, <2>6, SameSize DEF Home!SeqOf
  <2>8. w # <<>>
    BY <2>1, EmptySeq DEF m
  <2>9. Home!IsInjective(w)
    BY <2>1, <2>2 DEF Home!IsInjective
  <2>10. Home!Last(w) = b
    BY <2>2 DEF Home!Last, m
  <2>. QED
    BY <2>2, <2>7, <2>8, <2>9, <2>10 DEF Home!Ways, Edge, m
<1>. QED
  BY <1>2, <1>3
\* What the way costs up to each of its rooms.
Costed(w, c) ==
    /\ c \in [1..Len(w) -> Nat] /\ c[1] = 0
    /\ \A i \in 2..Len(w) : c[i] = c[i - 1] + Home!Step(w[i - 1], w[i])

LEMMA CostRuns ==
    ASSUME Planned, NEW w, NEW a, NEW b, Way(w, a, b)
    PROVE  \E c : Costed(w, c) /\ Home!Cost(w) = c[Len(w)]
<1>. DEFINE n == Len(w)
            h == [x \in Nat \X Nat |-> IF x[2] \in 0..(n - 2)
                                       THEN x[1] + Home!Step(w[x[2] + 1], w[x[2] + 2]) ELSE x[1]]
            Up(g) == g = [i \in 1..n |-> IF i = 1 THEN 0
                                         ELSE g[i - 1] + Home!Step(w[i - 1], w[i])]
            c == CHOOSE g : Up(g)
<1>1. n \in Nat /\ n >= 1 /\ \A i \in 1..n : w[i] \in Rooms
  BY WayProperties
<1>2. \A i \in 1..(n - 1) : Edge(w[i], w[i + 1])
  BY DEF Way
<1>3. Home!Cost(w) = c[n]
  BY DEF Home!Cost
<1>. HIDE DEF n
<1>4. \A i \in 1..(n - 1) : Home!Step(w[i], w[i + 1]) \in Nat
  <2>. SUFFICES ASSUME NEW i \in 1..(n - 1) PROVE Home!Step(w[i], w[i + 1]) \in Nat
    OBVIOUS
  <2>1. i \in 1..n /\ i + 1 \in 1..n
    BY <1>1
  <2>2. w[i] \in Rooms /\ w[i + 1] \in Rooms /\ Edge(w[i], w[i + 1])
    BY <1>1, <1>2, <2>1
  <2>. QED
    BY <2>2, StepIs
<1>5. h \in [Nat \X Nat -> Nat]
  <2>1. \A k \in 0..(n - 2) : Home!Step(w[k + 1], w[k + 2]) \in Nat
    <3>. SUFFICES ASSUME NEW k \in 0..(n - 2) PROVE Home!Step(w[k + 1], w[k + 2]) \in Nat
      OBVIOUS
    <3>1. k + 1 \in 1..(n - 1) /\ (k + 1) + 1 = k + 2
      BY <1>1
    <3>. QED
      BY <1>4, <3>1
  <2>2. \A x \in Nat \X Nat : x[1] \in Nat /\ x[2] \in Nat
    OBVIOUS
  <2>3. \A x \in Nat \X Nat : (IF x[2] \in 0..(n - 2)
            THEN x[1] + Home!Step(w[x[2] + 1], w[x[2] + 2]) ELSE x[1]) \in Nat
    BY <2>1, <2>2
  <2>. QED
    BY <2>3
<1>6. n - 1 \in Nat
  BY <1>1
<1>7. PICK g : Steps(g, Nat, 0, n - 1, h)
  <2>. HIDE DEF h
  <2>. QED
    BY <1>5, <1>6, RecursionExists
<1>8. g \in [0..(n - 1) -> Nat] /\ g[0] = 0
      /\ \A i \in 1..(n - 1) : g[i] = h[<<g[i - 1], i - 1>>]
  BY <1>7 DEF Steps
<1>9. \A i \in 1..(n - 1) : g[i] = g[i - 1] + Home!Step(w[i], w[i + 1])
  <2>. SUFFICES ASSUME NEW i \in 1..(n - 1)
                PROVE  g[i] = g[i - 1] + Home!Step(w[i], w[i + 1])
    OBVIOUS
  <2>1. i - 1 \in 0..(n - 2) /\ i - 1 \in Nat /\ i - 1 \in 0..(n - 1)
        /\ (i - 1) + 1 = i /\ (i - 1) + 2 = i + 1
    BY <1>1
  <2>2. g[i - 1] \in Nat
    BY <1>8, <2>1
  <2>3. h[<<g[i - 1], i - 1>>] = g[i - 1] + Home!Step(w[(i - 1) + 1], w[(i - 1) + 2])
    BY <2>1, <2>2
  <2>. QED
    BY <1>8, <2>1, <2>3
<1>. HIDE DEF h
<1>. DEFINE e == [i \in 1..n |-> g[i - 1]]
<1>10. Up(e)
  <2>1. ASSUME NEW i \in 1..n
        PROVE  e[i] = IF i = 1 THEN 0 ELSE e[i - 1] + Home!Step(w[i - 1], w[i])
    <3>1. CASE i = 1
      BY <1>8, <3>1
    <3>2. CASE i # 1
      <4>1. i - 1 \in 1..(n - 1) /\ i - 1 \in 1..n /\ (i - 1) + 1 = i
        BY <1>1, <3>2
      <4>2. g[i - 1] = g[(i - 1) - 1] + Home!Step(w[i - 1], w[i])
        BY <1>9, <4>1
      <4>. QED
        BY <3>2, <4>1, <4>2
    <3>. QED
      BY <3>1, <3>2
  <2>. QED
    BY <2>1
<1>11. Up(c)
  BY <1>10
<1>. HIDE DEF c, e
<1>12. \A i \in 1..n : c[i] = IF i = 1 THEN 0 ELSE c[i - 1] + Home!Step(w[i - 1], w[i])
  BY <1>11
<1>13. c[1] = 0 /\ \A i \in 2..n : c[i] = c[i - 1] + Home!Step(w[i - 1], w[i])
  <2>1. 1 \in 1..n /\ \A i \in 2..n : i \in 1..n /\ i # 1
    BY <1>1
  <2>. QED
    BY <1>12, <2>1
<1>. DEFINE B == {i \in 1..n : c[i] \notin Nat}
<1>14. ASSUME B # {} PROVE FALSE
  <2>1. B \in SUBSET Nat
    BY <1>1
  <2>2. PICK k \in B : \A m \in B : k <= m
    BY <1>14, <2>1, FirstOfThem
  <2>3. k \in 1..n /\ c[k] \notin Nat /\ k # 1
    BY <1>13
  <2>4. k - 1 \in 1..(n - 1) /\ k - 1 \in 1..n /\ k \in 2..n /\ (k - 1) + 1 = k /\ k - 1 < k
    BY <1>1, <2>3
  <2>5. k - 1 \notin B
    BY <2>2, <2>4
  <2>6. c[k - 1] \in Nat
    BY <2>4, <2>5
  <2>7. Home!Step(w[k - 1], w[k]) \in Nat
    BY <1>4, <2>4
  <2>8. c[k] = c[k - 1] + Home!Step(w[k - 1], w[k])
    BY <1>13, <2>4
  <2>. QED
    BY <2>3, <2>6, <2>7, <2>8
<1>15. c \in [1..n -> Nat]
  <2>1. c = [i \in 1..n |-> c[i]]
    BY <1>11
  <2>. QED
    BY <1>14, <2>1
<1>16. Costed(w, c)
  BY <1>13, <1>15 DEF Costed, n
<1>. QED
  BY <1>3, <1>16 DEF n

\* Ways that begin alike cost the same so far.
LEMMA CostAlike ==
    ASSUME NEW w, NEW u, NEW c, NEW e, Costed(w, c), Costed(u, e),
           NEW n \in Nat, Len(w) \in Nat, Len(u) \in Nat, n <= Len(w), n <= Len(u),
           \A i \in 1..n : w[i] = u[i]
    PROVE  \A i \in 1..n : c[i] = e[i]
<1>. DEFINE B == {i \in 1..n : c[i] # e[i]}
<1>1. ASSUME B # {} PROVE FALSE
  <2>1. B \in SUBSET Nat
    OBVIOUS
  <2>2. PICK k \in B : \A m \in B : k <= m
    BY <1>1, <2>1, FirstOfThem
  <2>3. k \in 1..n /\ c[k] # e[k]
    OBVIOUS
  <2>4. k # 1
    BY <2>3 DEF Costed
  <2>5. k - 1 \in 1..n /\ k \in 2..Len(w) /\ k \in 2..Len(u) /\ k - 1 < k
    BY <2>3, <2>4
  <2>6. k - 1 \notin B
    BY <2>2, <2>5
  <2>7. c[k - 1] = e[k - 1]
    BY <2>5, <2>6
  <2>8. /\ c[k] = c[k - 1] + Home!Step(w[k - 1], w[k])
        /\ e[k] = e[k - 1] + Home!Step(u[k - 1], u[k])
    BY <2>5 DEF Costed
  <2>. QED
    BY <2>3, <2>5, <2>7, <2>8
<1>. QED
  BY <1>1

\* The longer a way, the more it costs.
LEMMA CostGrows ==
    ASSUME Planned, NEW w, NEW a, NEW b, Way(w, a, b), NEW c, Costed(w, c)
    PROVE  \A i \in 1..Len(w) : c[i] <= c[Len(w)]
<1>. DEFINE n == Len(w)
            B == {k \in Nat : k < n /\ ~(c[n - k] <= c[n])}
<1>1. n \in Nat /\ n >= 1 /\ \A i \in 1..n : w[i] \in Rooms
  BY WayProperties
<1>2. \A i \in 1..(n - 1) : Edge(w[i], w[i + 1])
  BY DEF Way
<1>3. c \in [1..n -> Nat] /\ \A i \in 2..n : c[i] = c[i - 1] + Home!Step(w[i - 1], w[i])
  BY DEF Costed
<1>. HIDE DEF n
<1>4. ASSUME B # {} PROVE FALSE
  <2>1. B \in SUBSET Nat
    OBVIOUS
  <2>2. PICK k \in B : \A m \in B : k <= m
    BY <1>4, <2>1, FirstOfThem
  <2>3. k \in Nat /\ k < n /\ ~(c[n - k] <= c[n])
    OBVIOUS
  <2>4. n \in 1..n /\ c[n] \in Nat
    BY <1>1, <1>3
  <2>5. k # 0
    BY <1>1, <2>3, <2>4
  <2>. DEFINE m == n - k
  <2>6. m \in 1..(n - 1) /\ m + 1 \in 2..n /\ m \in 1..n /\ m + 1 \in 1..n /\ (m + 1) - 1 = m
        /\ n - (k - 1) = m + 1 /\ k - 1 \in Nat /\ k - 1 < k /\ k - 1 < n
    BY <1>1, <2>3, <2>5
  <2>7. k - 1 \notin B
    BY <2>2, <2>6
  <2>8. c[m + 1] <= c[n]
    BY <2>6, <2>7
  <2>9. w[m] \in Rooms /\ w[m + 1] \in Rooms /\ Edge(w[m], w[m + 1])
    BY <1>1, <1>2, <2>6
  <2>10. Home!Step(w[m], w[m + 1]) \in Nat
    BY <2>9, StepIs
  <2>11. c[m + 1] = c[m] + Home!Step(w[m], w[m + 1])
    BY <1>3, <2>6
  <2>12. c[m] \in Nat /\ c[m + 1] \in Nat
    BY <1>3, <2>6
  <2>13. c[m] <= c[n]
    <3>. DEFINE x == c[m]
                y == c[m + 1]
                z == c[n]
                s == Home!Step(w[m], w[m + 1])
    <3>1. x \in Nat /\ y \in Nat /\ z \in Nat /\ s \in Nat /\ y <= z /\ y = x + s
      BY <2>4, <2>8, <2>10, <2>11, <2>12
    <3>. HIDE DEF x, y, z, s
    <3>2. x <= z
      BY <3>1
    <3>. QED
      BY <3>2 DEF x, z
  <2>. QED
    BY <2>3, <2>13
<1>5. \A i \in 1..n : n - i \in Nat /\ n - i < n /\ n - (n - i) = i
  BY <1>1
<1>6. \A i \in 1..n : c[i] <= c[n]
  BY <1>4, <1>5
<1>. QED
  BY <1>6 DEF n
LEMMA CostsAre ==
    ASSUME Planned, NEW w, NEW a, NEW b, Way(w, a, b)
    PROVE  Home!Cost(w) \in Nat
<1>1. PICK c : Costed(w, c) /\ Home!Cost(w) = c[Len(w)]
  BY CostRuns
<1>2. Len(w) \in 1..Len(w)
  BY WayProperties
<1>. QED
  BY <1>1, <1>2 DEF Costed

LEMMA WayStart ==
    ASSUME Planned, NEW r \in Rooms
    PROVE  Way(<<r>>, r, r) /\ Home!Cost(<<r>>) = 0
<1>1. <<r>> \in Seq(Rooms) /\ Len(<<r>>) = 1 /\ <<r>>[1] = r
  OBVIOUS
<1>2. \A i, j \in 1..1 : i = j
  OBVIOUS
<1>3. 1 > 0 /\ ~(\E i \in 1..(1 - 1) : TRUE)
  OBVIOUS
<1>4. Way(<<r>>, r, r)
  BY <1>1, <1>2, <1>3 DEF Way
<1>5. PICK c : Costed(<<r>>, c) /\ Home!Cost(<<r>>) = c[Len(<<r>>)]
  BY <1>4, CostRuns
<1>. QED
  BY <1>1, <1>4, <1>5 DEF Costed

\* The beginning of a way is a way, and costs no more.
LEMMA WayPrefix ==
    ASSUME Planned, NEW w, NEW a, NEW b, Way(w, a, b), NEW n \in 1..Len(w)
    PROVE  \E u : Way(u, a, w[n]) /\ Len(u) = n /\ Home!Cost(u) <= Home!Cost(w)
                  /\ \A i \in 1..n : u[i] = w[i]
<1>. DEFINE u == [i \in 1..n |-> w[i]]
            m == Len(w)
<1>1. /\ w \in Seq(Rooms) /\ m \in Nat /\ m >= 1
      /\ \A i \in 1..m : w[i] \in Rooms
  BY WayProperties
<1>2. /\ w[1] = a /\ (\A i, j \in 1..m : w[i] = w[j] => i = j)
      /\ \A i \in 1..(m - 1) : Edge(w[i], w[i + 1])
  BY DEF Way
<1>3. n \in 1..m
  OBVIOUS
<1>. HIDE DEF m
<1>4. n \in Nat /\ n >= 1 /\ n <= m /\ \A i \in 1..n : i \in 1..m
  BY <1>1, <1>3
<1>5. u \in [1..n -> Rooms]
  BY <1>1, <1>4
<1>6. u \in Seq(Rooms) /\ Len(u) = n
  <2>. HIDE DEF u
  <2>. QED
    BY <1>4, <1>5, SeqDef
<1>7. \A i \in 1..n : u[i] = w[i]
  OBVIOUS
<1>. HIDE DEF u
<1>8. 1 \in 1..n /\ n \in 1..n /\ n > 0
      /\ \A i \in 1..(n - 1) : i \in 1..n /\ i + 1 \in 1..n /\ i \in 1..(m - 1)
  BY <1>1, <1>4
<1>9. \A i, j \in 1..n : u[i] = u[j] => i = j
  BY <1>2, <1>4, <1>7
<1>10. \A i \in 1..(n - 1) : Edge(u[i], u[i + 1])
  BY <1>2, <1>7, <1>8
<1>11. Way(u, a, w[n])
  BY <1>2, <1>6, <1>7, <1>8, <1>9, <1>10 DEF Way
<1>12. PICK c : Costed(w, c) /\ Home!Cost(w) = c[Len(w)]
  BY CostRuns
<1>13. PICK e : Costed(u, e) /\ Home!Cost(u) = e[Len(u)]
  BY <1>11, CostRuns
<1>14. \A i \in 1..n : c[i] = e[i]
  BY <1>1, <1>4, <1>6, <1>7, <1>12, <1>13, CostAlike DEF m
<1>15. c[n] <= c[Len(w)]
  BY <1>3, <1>12, CostGrows DEF m
<1>16. Home!Cost(u) <= Home!Cost(w)
  BY <1>6, <1>8, <1>12, <1>13, <1>14, <1>15
<1>. QED
  BY <1>6, <1>7, <1>11, <1>16

\* A way goes on to a room next door that it has not passed.
LEMMA WayExtends ==
    ASSUME Planned, NEW w, NEW a, NEW b, Way(w, a, b), NEW v \in Rooms, Edge(b, v),
           \A i \in 1..Len(w) : w[i] # v
    PROVE  /\ Way(Append(w, v), a, v) /\ Len(Append(w, v)) = Len(w) + 1
           /\ Home!Cost(Append(w, v)) = Home!Cost(w) + Home!Step(b, v)
<1>. DEFINE u == Append(w, v)
            m == Len(w)
<1>1. /\ w \in Seq(Rooms) /\ m \in Nat /\ m >= 1
      /\ \A i \in 1..m : w[i] \in Rooms
  BY WayProperties
<1>2. /\ w[1] = a /\ w[m] = b /\ (\A i, j \in 1..m : w[i] = w[j] => i = j)
      /\ \A i \in 1..(m - 1) : Edge(w[i], w[i + 1])
  BY DEF Way
<1>3. /\ u \in Seq(Rooms) /\ Len(u) = m + 1
      /\ (\A i \in 1..m : u[i] = w[i]) /\ u[m + 1] = v
  BY <1>1, AppendProperties
<1>4. \A i \in 1..m : w[i] # v
  OBVIOUS
<1>. HIDE DEF u, m
<1>5. /\ 1 \in 1..m /\ m \in 1..m /\ m + 1 > 0 /\ (m + 1) - 1 = m /\ m + 1 \in 2..(m + 1)
      /\ \A i \in 1..(m + 1) : i \in 1..m \/ i = m + 1
      /\ \A i \in 1..m : i # m + 1 /\ (i \in 1..(m - 1) \/ i = m)
      /\ \A i \in 1..(m - 1) : i \in 1..m /\ i + 1 \in 1..m
  BY <1>1
<1>6. \A i, j \in 1..(m + 1) : u[i] = u[j] => i = j
  BY <1>2, <1>3, <1>4, <1>5
<1>7. \A i \in 1..m : Edge(u[i], u[i + 1])
  BY <1>2, <1>3, <1>5
<1>8. Way(u, a, v)
  BY <1>2, <1>3, <1>5, <1>6, <1>7 DEF Way
<1>9. PICK c : Costed(w, c) /\ Home!Cost(w) = c[m]
  BY CostRuns DEF m
<1>10. PICK e : Costed(u, e) /\ Home!Cost(u) = e[m + 1]
  BY <1>3, <1>8, CostRuns
<1>11. m + 1 \in Nat /\ m <= m + 1 /\ m <= m
  BY <1>1
<1>12. Len(w) = m
  BY DEF m
<1>13. \A i \in 1..m : c[i] = e[i]
  BY <1>1, <1>3, <1>9, <1>10, <1>11, <1>12, CostAlike
<1>14. e[m + 1] = e[(m + 1) - 1] + Home!Step(u[(m + 1) - 1], u[m + 1])
  BY <1>3, <1>5, <1>10 DEF Costed
<1>15. e[m + 1] = c[m] + Home!Step(b, v)
  BY <1>2, <1>3, <1>5, <1>13, <1>14
<1>. QED
  BY <1>3, <1>8, <1>9, <1>10, <1>15 DEF u, m

\* Next door there is a way that costs no more than the way here and the step.
LEMMA WayNextDoor ==
    ASSUME Planned, NEW w, NEW a, NEW b, Way(w, a, b), NEW v \in Rooms, Edge(b, v)
    PROVE  \E u : Way(u, a, v) /\ Home!Cost(u) <= Home!Cost(w) + Home!Step(b, v)
<1>0. Home!Cost(w) \in Nat /\ b \in Rooms
  BY CostsAre, WayProperties
<1>1. Home!Step(b, v) \in Nat
  BY <1>0, StepIs
<1>2. CASE \A i \in 1..Len(w) : w[i] # v
  <2>1. /\ Way(Append(w, v), a, v)
        /\ Home!Cost(Append(w, v)) = Home!Cost(w) + Home!Step(b, v)
    BY <1>2, WayExtends
  <2>2. Home!Cost(Append(w, v)) <= Home!Cost(w) + Home!Step(b, v)
    BY <1>0, <1>1, <2>1
  <2>. QED
    BY <2>1, <2>2
<1>3. CASE \E i \in 1..Len(w) : w[i] = v
  <2>1. PICK i \in 1..Len(w) : w[i] = v
    BY <1>3
  <2>2. PICK u : Way(u, a, v) /\ Home!Cost(u) <= Home!Cost(w)
    BY <2>1, WayPrefix
  <2>3. Home!Cost(u) \in Nat
    BY <2>2, CostsAre
  <2>4. Home!Cost(u) <= Home!Cost(w) + Home!Step(b, v)
    <3>. DEFINE x == Home!Cost(u)
                y == Home!Cost(w)
                z == Home!Step(b, v)
    <3>1. x \in Nat /\ y \in Nat /\ z \in Nat /\ x <= y
      BY <1>0, <1>1, <2>2, <2>3
    <3>. HIDE DEF x, y, z
    <3>2. x <= y + z
      BY <3>1
    <3>. QED
      BY <3>2 DEF x, y, z
  <2>. QED
    BY <2>2, <2>4
<1>. QED
  BY <1>2, <1>3
-----------------------------------------------------------------------------
(* The length of the walk *)

\* There is a way from f to a room, or to a door by a room it is between, of no more than x.
Reached(f, v, x) ==
    \/ v \in Rooms /\ \E w : Way(w, f, v) /\ Home!Cost(w) <= x
    \/ /\ v \in Doors
       /\ \E r \in Rooms : \E w : /\ r \in between[v] /\ Way(w, f, r)
                                  /\ Home!Cost(w) + Length[v][r] <= x

\* What is next to u is no farther than by u; t are the distances.
Relaxed(t, u) ==
    \A v \in Home!Links(u) : v \in DOMAIN t /\ t[v] <= t[u] + Home!Weight(u, v)

\* A distance is that of some way, and what is not in the heap any more has been passed on.
DistInv(f, t, q) ==
    /\ DOMAIN t \subseteq Rooms \cup Doors
    /\ \A v \in DOMAIN t : t[v] \in Nat /\ Reached(f, v, t[v])
    /\ f \in Rooms /\ f \in DOMAIN t /\ t[f] = 0
    /\ \A e \in q : /\ e[1] \in Nat /\ e[2] \in DOMAIN t /\ t[e[2]] <= e[1]
    /\ \A u \in DOMAIN t : <<t[u], u>> \in q \/ Relaxed(t, u)

LEMMA RoomsAreNoDoors == \A v : v \in Rooms => v \notin Doors
BY HomeConstants

LEMMA WeightsAre ==
    ASSUME Planned, NEW u, NEW v \in Home!Links(u)
    PROVE  /\ Home!Weight(u, v) \in Nat /\ v \in Rooms \cup Doors /\ u # v
           /\ u \in Doors => v \in Rooms /\ v \in between[u] /\ Home!Weight(u, v) = Length[u][v]
           /\ u \in Rooms => v \in Doors /\ u \in between[v] /\ Home!Weight(u, v) = Length[v][u]
           /\ u \in Rooms \cup Doors
<1>1. \/ u \in Doors /\ v \in Rooms /\ v \in between[u]
      \/ u \in Rooms /\ v \in Doors /\ u \in between[v]
  BY DEF Home!Links, Home!Linked
<1>2. CASE u \in Doors /\ v \in Rooms /\ v \in between[u]
  <2>1. Home!Weight(u, v) = Length[u][v]
    BY <1>2 DEF Home!Weight
  <2>2. Length[u][v] \in Nat
    BY <1>2, LengthsAre
  <2>. QED
    BY <1>2, <2>1, <2>2, RoomsAreNoDoors
<1>3. CASE u \in Rooms /\ v \in Doors /\ u \in between[v]
  <2>1. Home!Weight(u, v) = Length[v][u]
    BY <1>3, RoomsAreNoDoors DEF Home!Weight
  <2>2. Length[v][u] \in Nat
    BY <1>3, LengthsAre
  <2>. QED
    BY <1>3, <2>1, <2>2, RoomsAreNoDoors
<1>. QED
  BY <1>1, <1>2, <1>3

\* What is next to something reached is reached.
LEMMA ReachedNext ==
    ASSUME Planned, NEW f, NEW u, NEW x \in Nat, Reached(f, u, x), NEW v \in Home!Links(u)
    PROVE  Reached(f, v, x + Home!Weight(u, v))
<1>1. CASE u \in Rooms
  <2>1. v \in Doors /\ u \in between[v] /\ Home!Weight(u, v) = Length[v][u]
        /\ Length[v][u] \in Nat
    BY <1>1, WeightsAre
  <2>2. PICK w : Way(w, f, u) /\ Home!Cost(w) <= x
    BY <1>1, RoomsAreNoDoors DEF Reached
  <2>3. Home!Cost(w) \in Nat
    BY <2>2, CostsAre
  <2>4. Home!Cost(w) + Length[v][u] <= x + Home!Weight(u, v)
    BY <2>1, <2>2, <2>3
  <2>. QED
    BY <1>1, <2>1, <2>2, <2>4 DEF Reached
<1>2. CASE u \in Doors
  <2>1. v \in Rooms /\ v \in between[u] /\ Home!Weight(u, v) = Length[u][v]
        /\ Length[u][v] \in Nat
    BY <1>2, WeightsAre
  <2>20. PICK r \in Rooms : \E w : /\ r \in between[u] /\ Way(w, f, r)
                                   /\ Home!Cost(w) + Length[u][r] <= x
    BY <1>2, RoomsAreNoDoors DEF Reached
  <2>2. PICK w : /\ r \in between[u] /\ Way(w, f, r)
                 /\ Home!Cost(w) + Length[u][r] <= x
    BY <2>20
  <2>3. Home!Cost(w) \in Nat /\ Length[u][r] \in Nat
    BY <1>2, <2>2, CostsAre, LengthsAre
  <2>4. CASE v = r
    <3>1. Home!Cost(w) <= x + Home!Weight(u, v)
      <4>. DEFINE c == Home!Cost(w)
                  p == Length[u][r]
                  q == Length[u][v]
      <4>1. c \in Nat /\ p \in Nat /\ q \in Nat /\ c + p <= x
        BY <2>1, <2>2, <2>3
      <4>. HIDE DEF c, p, q
      <4>2. c <= x + q
        BY <4>1
      <4>. QED
        BY <2>1, <4>2 DEF c, q
    <3>. QED
      BY <2>1, <2>2, <2>4, <3>1 DEF Reached
  <2>5. CASE v # r
    <3>1. between[u] = {r, v}
      <4>1. PICK a, b \in Home!Ends : between[u] \subseteq {a, b}
        BY <1>2, DoorsBetween
      <4>. QED
        BY <2>1, <2>2, <2>5, <4>1
    <3>2. Edge(r, v)
      BY <1>2, <3>1 DEF Edge
    <3>3. Home!Step(r, v) \in Nat /\ Home!Step(r, v) <= Length[u][r] + Length[u][v]
      BY <1>2, <2>1, <2>2, <3>1, <3>2, StepIs
    <3>4. PICK z : Way(z, f, v) /\ Home!Cost(z) <= Home!Cost(w) + Home!Step(r, v)
      BY <2>1, <2>2, <3>2, WayNextDoor
    <3>5. Home!Cost(z) \in Nat
      BY <3>4, CostsAre
    <3>6. Home!Cost(z) <= x + Home!Weight(u, v)
      <4>. DEFINE c == Home!Cost(w)
                  e == Home!Cost(z)
                  p == Length[u][r]
                  q == Length[u][v]
                  s == Home!Step(r, v)
      <4>1. /\ c \in Nat /\ e \in Nat /\ p \in Nat /\ q \in Nat /\ s \in Nat /\ c + p <= x
            /\ e <= c + s /\ s <= p + q
        BY <2>1, <2>2, <2>3, <3>3, <3>4, <3>5
      <4>. HIDE DEF c, e, p, q, s
      <4>2. e <= x + q
        BY <4>1
      <4>. QED
        BY <2>1, <4>2 DEF e, q
    <3>. QED
      BY <2>1, <3>4, <3>6 DEF Reached
  <2>. QED
    BY <2>4, <2>5
<1>. QED
  BY <1>1, <1>2, WeightsAre

\* No way is shorter than the distances when nothing is left in the heap.
LEMMA LeastDistances ==
    ASSUME Planned, NEW f, NEW t, DistInv(f, t, {}), NEW w, NEW r, Way(w, f, r)
    PROVE  r \in DOMAIN t /\ t[r] <= Home!Cost(w)
<1>. DEFINE n == Len(w)
<1>1. PICK c : Costed(w, c) /\ Home!Cost(w) = c[n]
  BY CostRuns
<1>2. /\ n \in Nat /\ n >= 1 /\ \A i \in 1..n : w[i] \in Rooms
  BY WayProperties
<1>3. w[1] = f /\ w[n] = r /\ \A i \in 1..(n - 1) : Edge(w[i], w[i + 1])
  BY DEF Way
<1>4. /\ c \in [1..n -> Nat] /\ c[1] = 0
      /\ \A i \in 2..n : c[i] = c[i - 1] + Home!Step(w[i - 1], w[i])
  BY <1>1 DEF Costed
<1>. HIDE DEF n
<1>5. /\ \A u \in DOMAIN t : t[u] \in Nat /\ Relaxed(t, u)
      /\ f \in DOMAIN t /\ t[f] = 0
  BY DEF DistInv
<1>. DEFINE B == {i \in 1..n : ~(w[i] \in DOMAIN t /\ t[w[i]] <= c[i])}
<1>6. ASSUME B # {} PROVE FALSE
  <2>1. B \in SUBSET Nat
    OBVIOUS
  <2>2. PICK k \in B : \A m \in B : k <= m
    BY <1>6, <2>1, FirstOfThem
  <2>3. k \in 1..n /\ ~(w[k] \in DOMAIN t /\ t[w[k]] <= c[k])
    OBVIOUS
  <2>4. k # 1
    BY <1>3, <1>4, <1>5, <2>3
  <2>. DEFINE m == k - 1
  <2>5. m \in 1..n /\ m \in 1..(n - 1) /\ m + 1 = k /\ k \in 2..n /\ m < k
    BY <1>2, <2>3, <2>4
  <2>6. m \notin B
    BY <2>2, <2>5
  <2>. DEFINE x == w[m]
              y == w[k]
  <2>7. x \in DOMAIN t /\ t[x] <= c[m]
    BY <2>5, <2>6
  <2>8. x \in Rooms /\ y \in Rooms /\ Edge(x, y)
    BY <1>2, <1>3, <2>3, <2>5
  <2>9. PICK d \in Doors : between[d] = {x, y}
                           /\ Home!Step(x, y) = Length[d][x] + Length[d][y]
    BY <2>8, StepIs
  <2>10. d \in Home!Links(x)
    BY <2>8, <2>9 DEF Home!Links, Home!Linked
  <2>11. y \in Home!Links(d)
    BY <2>8, <2>9 DEF Home!Links, Home!Linked
  <2>12. d \in DOMAIN t /\ t[d] <= t[x] + Home!Weight(x, d)
    BY <1>5, <2>7, <2>10 DEF Relaxed
  <2>13. y \in DOMAIN t /\ t[y] <= t[d] + Home!Weight(d, y)
    BY <1>5, <2>11, <2>12 DEF Relaxed
  <2>14. Home!Weight(x, d) = Length[d][x] /\ Home!Weight(d, y) = Length[d][y]
    BY <2>8, <2>9, <2>10, <2>11, WeightsAre
  <2>15. Length[d][x] \in Nat /\ Length[d][y] \in Nat
    BY <2>8, LengthsAre
  <2>16. t[x] \in Nat /\ t[d] \in Nat /\ t[y] \in Nat
    BY <1>5, <2>7, <2>12, <2>13
  <2>17. c[k] = c[m] + Home!Step(x, y) /\ c[m] \in Nat /\ c[k] \in Nat
    BY <1>4, <2>3, <2>5
  <2>18. t[y] <= c[k]
    <3>. DEFINE dx == t[x]
                dd == t[d]
                dy == t[y]
                p == Length[d][x]
                q == Length[d][y]
                cm == c[m]
                ck == c[k]
    <3>1. /\ dx \in Nat /\ dd \in Nat /\ dy \in Nat /\ p \in Nat /\ q \in Nat /\ cm \in Nat
          /\ ck \in Nat /\ dx <= cm /\ dd <= dx + p /\ dy <= dd + q /\ ck = cm + (p + q)
      BY <2>7, <2>9, <2>12, <2>13, <2>14, <2>15, <2>16, <2>17
    <3>. HIDE DEF dx, dd, dy, p, q, cm, ck
    <3>2. dy <= ck
      BY <3>1
    <3>. QED
      BY <3>2 DEF dy, ck
  <2>. QED
    BY <2>3, <2>13, <2>18
<1>7. n \in 1..n
  BY <1>2
<1>8. w[n] \in DOMAIN t /\ t[w[n]] <= c[n]
  BY <1>6, <1>7
<1>. QED
  BY <1>1, <1>3, <1>8
LEMMA DistStarts ==
    ASSUME Planned, NEW f \in Rooms, NEW t, t = [s \in {f} |-> 0],
           NEW q, q = {<<0, s>> : s \in {f}}
    PROVE  DistInv(f, t, q)
<1>1. DOMAIN t = {f} /\ t[f] = 0 /\ q = {<<0, f>>}
  OBVIOUS
<1>2. Reached(f, f, 0)
  <2>1. Way(<<f>>, f, f) /\ Home!Cost(<<f>>) <= 0
    BY WayStart
  <2>. QED
    BY <2>1 DEF Reached
<1>3. \A e \in q : e[1] = 0 /\ e[2] = f
  BY <1>1
<1>. QED
  BY <1>1, <1>2, <1>3 DEF DistInv

\* What the nearest entry of the heap leads to is as near as it makes it, or was before.
Closer(t, d, u) == {v \in Home!Links(u) : v \notin DOMAIN t \/ d + Home!Weight(u, v) < t[v]}
Nearer(t, d, u) ==
    [v \in DOMAIN t \cup Closer(t, d, u) |->
        IF v \in Closer(t, d, u) THEN d + Home!Weight(u, v) ELSE t[v]]
Pushed(t, q, d, u) == (q \ {<<d, u>>}) \cup {<<d + Home!Weight(u, v), v>> : v \in Closer(t, d, u)}

LEMMA PopKeeps ==
    ASSUME Planned, NEW f, NEW t, NEW q, DistInv(f, t, q), NEW d, NEW u, <<d, u>> \in q,
           ~(d > t[u])
    PROVE  DistInv(f, Nearer(t, d, u), Pushed(t, q, d, u))
<1>. DEFINE closer == Closer(t, d, u)
            t2 == Nearer(t, d, u)
            q2 == Pushed(t, q, d, u)
<1>0. /\ closer = {v \in Home!Links(u) : v \notin DOMAIN t \/ d + Home!Weight(u, v) < t[v]}
      /\ t2 = [v \in DOMAIN t \cup closer |-> IF v \in closer THEN d + Home!Weight(u, v)
                                              ELSE t[v]]
      /\ q2 = (q \ {<<d, u>>}) \cup {<<d + Home!Weight(u, v), v>> : v \in closer}
  BY DEF Closer, Nearer, Pushed
<1>. HIDE DEF closer, t2, q2
<1>. USE <1>0
<1>1. /\ DOMAIN t \subseteq Rooms \cup Doors
      /\ \A v \in DOMAIN t : t[v] \in Nat /\ Reached(f, v, t[v])
      /\ f \in Rooms /\ f \in DOMAIN t /\ t[f] = 0
      /\ \A e \in q : /\ e[1] \in Nat /\ e[2] \in DOMAIN t /\ t[e[2]] <= e[1]
      /\ \A v \in DOMAIN t : <<t[v], v>> \in q \/ Relaxed(t, v)
  BY DEF DistInv
<1>2. d \in Nat /\ u \in DOMAIN t /\ t[u] \in Nat /\ t[u] <= d
  BY <1>1
<1>3. d = t[u]
  BY <1>2
<1>4. \A v \in closer : v \in Home!Links(u) /\ Home!Weight(u, v) \in Nat
                        /\ v \in Rooms \cup Doors /\ v # u
  BY WeightsAre
<1>5. u \notin closer
  BY <1>4
<1>6. \A v \in closer : t2[v] = d + Home!Weight(u, v) /\ t2[v] \in Nat /\ Reached(f, v, t2[v])
  <2>. SUFFICES ASSUME NEW v \in closer
                PROVE  t2[v] = d + Home!Weight(u, v) /\ t2[v] \in Nat /\ Reached(f, v, t2[v])
    OBVIOUS
  <2>1. t2[v] = d + Home!Weight(u, v)
    OBVIOUS
  <2>2. v \in Home!Links(u) /\ Home!Weight(u, v) \in Nat
    BY <1>4
  <2>3. Reached(f, u, d)
    BY <1>1, <1>2, <1>3
  <2>4. Reached(f, v, d + Home!Weight(u, v))
    BY <1>2, <2>2, <2>3, ReachedNext
  <2>. QED
    BY <1>2, <2>1, <2>2, <2>4
<1>7. /\ DOMAIN t2 = DOMAIN t \cup closer
      /\ \A v \in DOMAIN t : v \notin closer => t2[v] = t[v]
  OBVIOUS
<1>8. \A v \in closer : v \in DOMAIN t => t2[v] < t[v]
  BY <1>6
<1>9. \A v \in DOMAIN t : t2[v] <= t[v] /\ t[v] \in Nat /\ t2[v] \in Nat
  <2>. SUFFICES ASSUME NEW v \in DOMAIN t
                PROVE  t2[v] <= t[v] /\ t[v] \in Nat /\ t2[v] \in Nat
    OBVIOUS
  <2>1. t[v] \in Nat
    BY <1>1
  <2>2. CASE v \in closer
    BY <1>6, <1>8, <2>1, <2>2
  <2>3. CASE v \notin closer
    BY <1>7, <2>1, <2>3
  <2>. QED
    BY <2>2, <2>3
<1>10. DOMAIN t2 \subseteq Rooms \cup Doors
  BY <1>1, <1>4, <1>7
<1>11. \A v \in DOMAIN t2 : t2[v] \in Nat /\ Reached(f, v, t2[v])
  BY <1>1, <1>6, <1>7
<1>12. f \notin closer
  <2>1. \A v \in closer : v \in DOMAIN t => d + Home!Weight(u, v) < t[v]
    OBVIOUS
  <2>2. ~(\E x \in Nat : d + x < 0)
    BY <1>2
  <2>. QED
    BY <1>1, <1>4, <2>1, <2>2
<1>13. f \in DOMAIN t2 /\ t2[f] = 0
  BY <1>1, <1>7, <1>12
<1>14. ASSUME NEW e \in q2
       PROVE  e[1] \in Nat /\ e[2] \in DOMAIN t2 /\ t2[e[2]] <= e[1]
  <2>1. CASE e \in q
    <3>1. e[1] \in Nat /\ e[2] \in DOMAIN t /\ t[e[2]] <= e[1]
      BY <1>1, <2>1
    <3>2. t2[e[2]] <= t[e[2]] /\ t[e[2]] \in Nat /\ t2[e[2]] \in Nat
      BY <1>9, <3>1
    <3>. DEFINE a == t2[e[2]]
                b == t[e[2]]
                c == e[1]
    <3>3. a \in Nat /\ b \in Nat /\ c \in Nat /\ a <= b /\ b <= c
      BY <3>1, <3>2
    <3>. HIDE DEF a, b, c
    <3>4. a <= c
      BY <3>3
    <3>. QED
      BY <1>7, <3>1, <3>4 DEF a, c
  <2>2. CASE e \notin q
    <3>1. PICK v \in closer : e = <<d + Home!Weight(u, v), v>>
      BY <2>2
    <3>2. e[1] = t2[v] /\ e[2] = v /\ t2[v] \in Nat
      BY <1>6, <3>1
    <3>. QED
      BY <1>7, <3>2
  <2>. QED
    BY <2>1, <2>2
<1>15. Relaxed(t2, u)
  <2>. SUFFICES ASSUME NEW v \in Home!Links(u)
                PROVE  v \in DOMAIN t2 /\ t2[v] <= t2[u] + Home!Weight(u, v)
    BY DEF Relaxed
  <2>1. t2[u] = d
    BY <1>2, <1>3, <1>5, <1>7
  <2>2. Home!Weight(u, v) \in Nat
    BY WeightsAre
  <2>3. CASE v \in closer
    <3>1. t2[v] = d + Home!Weight(u, v) /\ t2[v] \in Nat
      BY <1>6, <2>3
    <3>. QED
      BY <1>7, <2>1, <2>3, <3>1
  <2>4. CASE v \notin closer
    <3>1. v \in DOMAIN t /\ ~(d + Home!Weight(u, v) < t[v])
      BY <2>4
    <3>2. t2[v] = t[v] /\ t[v] \in Nat
      BY <1>1, <1>7, <2>4, <3>1
    <3>. QED
      BY <1>2, <1>7, <2>1, <2>2, <3>1, <3>2
  <2>. QED
    BY <2>3, <2>4
<1>16. ASSUME NEW v \in DOMAIN t2 PROVE <<t2[v], v>> \in q2 \/ Relaxed(t2, v)
  <2>1. CASE v \in closer
    <3>1. <<t2[v], v>> = <<d + Home!Weight(u, v), v>>
      BY <1>6, <2>1
    <3>. QED
      BY <2>1, <3>1
  <2>2. CASE v = u
    BY <1>15, <2>2
  <2>3. CASE v \notin closer /\ v # u
    <3>1. v \in DOMAIN t /\ t2[v] = t[v]
      BY <1>7, <2>3
    <3>2. CASE <<t[v], v>> \in q
      <4>1. <<t[v], v>> # <<d, u>>
        BY <2>3
      <4>. QED
        BY <3>1, <3>2, <4>1
    <3>3. CASE Relaxed(t, v)
      <4>1. ASSUME NEW x \in Home!Links(v)
            PROVE  x \in DOMAIN t2 /\ t2[x] <= t2[v] + Home!Weight(v, x)
        <5>1. x \in DOMAIN t /\ t[x] <= t[v] + Home!Weight(v, x)
          BY <3>3 DEF Relaxed
        <5>2. t2[x] <= t[x] /\ t[x] \in Nat /\ t2[x] \in Nat /\ t[v] \in Nat
          BY <1>9, <3>1, <5>1
        <5>3. Home!Weight(v, x) \in Nat
          BY WeightsAre
        <5>. DEFINE a == t2[x]
                    b == t[x]
                    c == t[v]
                    w == Home!Weight(v, x)
        <5>4. a \in Nat /\ b \in Nat /\ c \in Nat /\ w \in Nat /\ a <= b /\ b <= c + w
          BY <5>1, <5>2, <5>3
        <5>. HIDE DEF a, b, c, w
        <5>5. a <= c + w
          BY <5>4
        <5>. QED
          BY <1>7, <3>1, <5>1, <5>5 DEF a, c, w
      <4>. QED
        BY <4>1 DEF Relaxed
    <3>. QED
      BY <1>1, <3>1, <3>2, <3>3
  <2>. QED
    BY <2>1, <2>2, <2>3
<1>. QED
  BY <1>1, <1>10, <1>11, <1>13, <1>14, <1>15, <1>16 DEF DistInv, t2, q2

\* An entry that was improved meanwhile may go.
LEMMA SkipKeeps ==
    ASSUME NEW f, NEW t, NEW q, DistInv(f, t, q), NEW d, NEW u, <<d, u>> \in q, d > t[u]
    PROVE  DistInv(f, t, q \ {<<d, u>>})
<1>1. d \in Nat /\ u \in DOMAIN t /\ t[u] \in Nat /\ d # t[u]
  BY DEF DistInv
<1>2. \A v \in DOMAIN t : <<t[v], v>> # <<d, u>>
  BY <1>1
<1>. QED
  BY <1>2 DEF DistInv

\* Two sets of lengths have the same least one when neither goes below the other.
LEMMA SameLeast ==
    ASSUME NEW A \in SUBSET Nat, NEW B \in SUBSET Nat,
           \A x \in A : \E y \in B : y <= x, \A y \in B : \E x \in A : x <= y
    PROVE  (A = {} <=> B = {}) /\ (A # {} => Home!Min(A) = Home!Min(B))
<1>1. A = {} <=> B = {}
  OBVIOUS
<1>2. ASSUME A # {} PROVE Home!Min(A) = Home!Min(B)
  <2>1. /\ Home!Min(A) \in A /\ \A x \in A : Home!Min(A) <= x
        /\ Home!Min(B) \in B /\ \A y \in B : Home!Min(B) <= y
    BY <1>1, <1>2, LeastIs
  <2>. DEFINE a == Home!Min(A)
              b == Home!Min(B)
  <2>2. a \in A /\ b \in B /\ (\A x \in A : a <= x) /\ \A y \in B : b <= y
    BY <2>1
  <2>. HIDE DEF a, b
  <2>3. PICK y \in B : y <= a
    BY <2>2
  <2>4. PICK x \in A : x <= b
    BY <2>2
  <2>5. b <= y /\ a <= x /\ a \in Nat /\ b \in Nat /\ x \in Nat /\ y \in Nat
    BY <2>2
  <2>6. a = b
    BY <2>3, <2>4, <2>5
  <2>. QED
    BY <2>6 DEF a, b
<1>. QED
  BY <1>1, <1>2
\* The lengths of the ways from f to g.
LEMMA LengthsOfWays ==
    ASSUME Planned, NEW f, NEW g \in Rooms \cup {Outdoors}
    PROVE  /\ Home!Lengths(f, g) \in SUBSET Nat
           /\ g \in Rooms => \A x : x \in Home!Lengths(f, g) <=>
                                      \E w : Way(w, f, g) /\ x = Home!Cost(w)
           /\ g = Outdoors => \A x : x \in Home!Lengths(f, g) <=>
                  \E d \in Home!NodesFor(Outdoors), r \in Rooms :
                      /\ r \in between[d]
                      /\ \E w : Way(w, f, r) /\ x = Home!Cost(w) + Length[d][r]
<1>1. CASE g \in Rooms
  <2>1. g # Outdoors
    BY <1>1, HomeConstants
  <2>2. Home!Lengths(f, g) = {Home!Cost(w) : w \in Home!Ways(f, g)}
    BY <2>1 DEF Home!Lengths
  <2>3. \A x : x \in Home!Lengths(f, g) <=> \E w : Way(w, f, g) /\ x = Home!Cost(w)
    BY <2>2, WaysAre
  <2>4. \A w : Way(w, f, g) => Home!Cost(w) \in Nat
    BY CostsAre
  <2>. QED
    BY <2>1, <2>3, <2>4
<1>2. CASE g = Outdoors
  <2>. DEFINE Ends(d) == UNION {Home!Ways(f, r) : r \in between[d] \ {Outdoors}}
  <2>1. Home!Lengths(f, g) =
           UNION {{Home!Cost(w) + Length[d][Home!Last(w)] : w \in Ends(d)} :
                     d \in Home!NodesFor(Outdoors)}
    BY <1>2 DEF Home!Lengths
  <2>2. \A d, w : w \in Ends(d) <=> \E r \in Rooms : r \in between[d] /\ Way(w, f, r)
    <3>1. \A d, w : w \in Ends(d) <=> \E r \in between[d] \ {Outdoors} : Way(w, f, r)
      BY WaysAre
    <3>2. \A w, r : Way(w, f, r) => r \in Rooms /\ r # Outdoors
      BY WayProperties, HomeConstants
    <3>. QED
      BY <3>1, <3>2
  <2>. HIDE DEF Ends
  <2>3. \A x : x \in Home!Lengths(f, g) <=>
           \E d \in Home!NodesFor(Outdoors) :
               \E w \in Ends(d) : x = Home!Cost(w) + Length[d][Home!Last(w)]
    BY <2>1
  <2>4. \A w, r : Way(w, f, r) => Home!Last(w) = r
    BY DEF Way, Home!Last
  <2>5. \A x : x \in Home!Lengths(f, g) <=>
           \E d \in Home!NodesFor(Outdoors), r \in Rooms :
               r \in between[d] /\ \E w : Way(w, f, r) /\ x = Home!Cost(w) + Length[d][r]
    BY <2>2, <2>3, <2>4
  <2>6. ASSUME NEW d \in Home!NodesFor(Outdoors), NEW r \in Rooms, NEW w, Way(w, f, r)
        PROVE  Home!Cost(w) + Length[d][r] \in Nat
    <3>1. d \in Doors
      BY DEF Home!NodesFor
    <3>2. Home!Cost(w) \in Nat /\ Length[d][r] \in Nat
      BY <2>6, <3>1, CostsAre, LengthsAre
    <3>. QED
      BY <3>2
  <2>7. \A x \in Home!Lengths(f, g) : x \in Nat
    BY <2>5, <2>6
  <2>8. g \notin Rooms
    BY <1>2, HomeConstants
  <2>. QED
    BY <2>5, <2>7, <2>8
<1>. QED
  BY <1>1, <1>2

\* The length of the walk from f to g is m.
Measured(f, g, m) ==
    m = IF Home!Lengths(f, g) = {} THEN {} ELSE {Home!Min(Home!Lengths(f, g))}

LEMMA NoNodesNoWay ==
    ASSUME Planned, NEW f, NEW g \in Rooms \cup {Outdoors}, Home!NodesFor(g) = {}
    PROVE  Measured(f, g, {}) /\ g = Outdoors
<1>1. g = Outdoors
  BY HomeConstants DEF Home!NodesFor
<1>2. Home!Lengths(f, g) = {}
  BY <1>1, LengthsOfWays
<1>. QED
  BY <1>1, <1>2 DEF Measured

\* What the heap leaves when it is empty are the lengths of the shortest ways.
LEMMA MeasuredRight ==
    ASSUME Planned, NEW f, NEW t, DistInv(f, t, {}), NEW g \in Rooms \cup {Outdoors},
           NEW met, met = Home!NodesFor(g) \cap DOMAIN t,
           NEW m, m = IF met = {} THEN {} ELSE {Home!Min({t[x] : x \in met})}
    PROVE  Measured(f, g, m)
<1>. DEFINE A == {t[x] : x \in met}
            B == Home!Lengths(f, g)
<1>1. \A v \in DOMAIN t : t[v] \in Nat /\ Reached(f, v, t[v]) /\ Relaxed(t, v)
  BY DEF DistInv
<1>2. A \in SUBSET Nat /\ (A = {} <=> met = {})
  BY <1>1
<1>3. B \in SUBSET Nat
  BY LengthsOfWays
<1>4. (\A x \in A : \E y \in B : y <= x) /\ (\A y \in B : \E x \in A : x <= y)
  <2>1. CASE g \in Rooms
    <3>1. Home!NodesFor(g) = {g} /\ g \notin Doors
      BY <2>1, HomeConstants DEF Home!NodesFor
    <3>2. \A x : x \in B <=> \E w : Way(w, f, g) /\ x = Home!Cost(w)
      BY <2>1, LengthsOfWays
    <3>3. ASSUME NEW x \in A PROVE \E y \in B : y <= x
      <4>1. x = t[g] /\ g \in DOMAIN t
        BY <3>1
      <4>2. PICK w : Way(w, f, g) /\ Home!Cost(w) <= x
        BY <1>1, <3>1, <4>1 DEF Reached
      <4>. QED
        BY <3>2, <4>2
    <3>4. ASSUME NEW y \in B PROVE \E x \in A : x <= y
      <4>1. PICK w : Way(w, f, g) /\ y = Home!Cost(w)
        BY <3>2
      <4>2. g \in DOMAIN t /\ t[g] <= y
        BY <4>1, LeastDistances
      <4>3. t[g] \in A
        BY <3>1, <4>2
      <4>. QED
        BY <4>2, <4>3
    <3>. QED
      BY <3>3, <3>4
  <2>2. CASE g = Outdoors
    <3>. DEFINE N == Home!NodesFor(Outdoors)
    <3>1. \A d \in N : d \in Doors /\ d \notin Rooms
      BY HomeConstants DEF Home!NodesFor
    <3>. HIDE DEF N
    <3>2. \A x : x \in B <=> \E d \in N, r \in Rooms :
                   r \in between[d] /\ \E w : Way(w, f, r) /\ x = Home!Cost(w) + Length[d][r]
      BY <2>2, LengthsOfWays DEF N
    <3>3. met = N \cap DOMAIN t
      BY <2>2 DEF N
    <3>4. ASSUME NEW x \in A PROVE \E y \in B : y <= x
      <4>1. PICK d \in met : x = t[d]
        OBVIOUS
      <4>2. d \in N /\ d \in DOMAIN t /\ d \notin Rooms
        BY <3>1, <3>3
      <4>3. PICK r \in Rooms : \E w : r \in between[d] /\ Way(w, f, r)
                                      /\ Home!Cost(w) + Length[d][r] <= x
        BY <1>1, <4>1, <4>2 DEF Reached
      <4>4. PICK w : r \in between[d] /\ Way(w, f, r) /\ Home!Cost(w) + Length[d][r] <= x
        BY <4>3
      <4>. QED
        BY <3>2, <4>2, <4>4
    <3>5. ASSUME NEW y \in B PROVE \E x \in A : x <= y
      <4>1. PICK d \in N, r \in Rooms :
                r \in between[d] /\ \E w : Way(w, f, r) /\ y = Home!Cost(w) + Length[d][r]
        BY <3>2
      <4>2. PICK w : Way(w, f, r) /\ y = Home!Cost(w) + Length[d][r]
        BY <4>1
      <4>3. r \in DOMAIN t /\ t[r] <= Home!Cost(w)
        BY <4>2, LeastDistances
      <4>4. d \in Home!Links(r) /\ d \in Doors
        BY <3>1, <4>1 DEF Home!Links, Home!Linked
      <4>5. Home!Weight(r, d) = Length[d][r] /\ Length[d][r] \in Nat
        BY <4>4, WeightsAre, LengthsAre
      <4>6. d \in DOMAIN t /\ t[d] <= t[r] + Length[d][r]
        BY <1>1, <4>3, <4>4, <4>5 DEF Relaxed
      <4>7. t[d] \in A
        BY <3>3, <4>6
      <4>8. t[r] \in Nat /\ t[d] \in Nat /\ Home!Cost(w) \in Nat
        BY <1>1, <4>2, <4>3, <4>6, CostsAre
      <4>. DEFINE a == t[d]
                  b == t[r]
                  c == Home!Cost(w)
                  l == Length[d][r]
      <4>9. a \in Nat /\ b \in Nat /\ c \in Nat /\ l \in Nat /\ a <= b + l /\ b <= c /\ y = c + l
        BY <4>2, <4>3, <4>5, <4>6, <4>8
      <4>. HIDE DEF a, b, c, l
      <4>10. a <= y
        BY <4>9
      <4>. QED
        BY <4>7, <4>10 DEF a
    <3>. QED
      BY <3>4, <3>5
  <2>. QED
    BY <2>1, <2>2
<1>. HIDE DEF B
<1>5. (A = {} <=> B = {}) /\ (A # {} => Home!Min(A) = Home!Min(B))
  BY <1>2, <1>3, <1>4, SameLeast
<1>. QED
  BY <1>2, <1>5 DEF Measured, B
-----------------------------------------------------------------------------
(* The rooms she passes *)

\* Rooms are neighbours when a door leads from one to the other.
LEMMA NextDoor ==
    ASSUME Planned, NEW x, NEW y
    PROVE  /\ y \in Home!Neighbours(x) <=> x # y /\ x # Outdoors /\ y # Outdoors /\ Edge(x, y)
           /\ y \in Home!Neighbours(x) => x \in Home!Ends /\ y \in Home!Ends
<1>1. y \in Home!Neighbours(x) <=>
          \E d \in Doors : /\ Home!Cardinality(between[d]) = 2 /\ Outdoors \notin between[d]
                           /\ x \in between[d] /\ y \in between[d] /\ x # y
  BY DEF Home!Neighbours, Home!AdjacencyEdges
<1>2. ASSUME NEW d \in Doors, x \in between[d], y \in between[d], x # y
      PROVE  between[d] = {x, y} /\ x \in Home!Ends /\ y \in Home!Ends
  <2>1. PICK a, b \in Home!Ends : between[d] \subseteq {a, b}
    BY DoorsBetween
  <2>. QED
    BY <1>2, <2>1
<1>3. x # y => Home!Cardinality({x, y}) = 2
  <2>. SUFFICES ASSUME x # y PROVE Home!Cardinality({x, y}) = 2
    OBVIOUS
  <2>1. IsFiniteSet({x}) /\ Cardinality({x}) = 1
    BY FS_Singleton
  <2>2. Cardinality({x} \cup {y}) = Cardinality({x}) + 1
    BY <2>1, FS_AddElement
  <2>3. {x} \cup {y} = {x, y}
    OBVIOUS
  <2>. QED
    BY <2>1, <2>2, <2>3, SameSize
<1>4. y \in Home!Neighbours(x) => x # y /\ x # Outdoors /\ y # Outdoors /\ Edge(x, y)
  BY <1>1, <1>2 DEF Edge
<1>5. x # y /\ x # Outdoors /\ y # Outdoors /\ Edge(x, y) => y \in Home!Neighbours(x)
  <2>. SUFFICES ASSUME x # y, x # Outdoors, y # Outdoors, Edge(x, y) PROVE y \in Home!Neighbours(x)
    OBVIOUS
  <2>1. PICK d \in Doors : between[d] = {x, y}
    BY DEF Edge
  <2>. QED
    BY <1>1, <1>3, <2>1
<1>. QED
  BY <1>1, <1>2, <1>4, <1>5

LEMMA NeighboursAreFinite ==
    ASSUME Planned, NEW x, NEW sn
    PROVE  IsFiniteSet(Home!Neighbours(x) \ sn) /\ Home!Neighbours(x) \subseteq Home!Ends
<1>1. IsFiniteSet(Rooms \cup {Outdoors}) /\ IsFiniteSet((Rooms \cup {Outdoors}) \cup {Nowhere})
  BY HomeConstants, FS_AddElement
<1>2. Home!Ends = (Rooms \cup {Outdoors}) \cup {Nowhere}
  BY DEF Home!Ends
<1>3. Home!Neighbours(x) \subseteq Home!Ends
  BY NextDoor
<1>4. (Home!Neighbours(x) \ sn) \in SUBSET Home!Ends
  BY <1>3
<1>. QED
  BY <1>1, <1>2, <1>3, <1>4, FS_Subset

\* A finite set as a sequence has all of its elements.
LEMMA AllInSeq ==
    ASSUME NEW S, IsFiniteSet(S)
    PROVE  /\ Cardinality(S) \in Nat
           /\ Home!SetToSeq(S) \in [1..Cardinality(S) -> S]
           /\ \A x \in S : \E i \in 1..Cardinality(S) : Home!SetToSeq(S)[i] = x
<1>. DEFINE n == Cardinality(S)
            q == Home!SetToSeq(S)
<1>1. n \in Nat /\ ExistsBijection(1..n, S)
  BY FS_CardinalityType
<1>. HIDE DEF n
<1>2. PICK b \in Bijection(1..n, S) : TRUE
  BY <1>1 DEF ExistsBijection
<1>3. b \in [1..n -> S] /\ Home!IsInjective(b)
  BY <1>2 DEF Bijection, Injection, IsInjective, Home!IsInjective
<1>4. q = CHOOSE f \in [1..n -> S] : Home!IsInjective(f)
  BY SameSize DEF Home!SetToSeq, n
<1>5. q \in [1..n -> S] /\ Home!IsInjective(q)
  BY <1>3, <1>4
<1>. HIDE DEF q
<1>6. q \in Injection(1..n, S)
  BY <1>5 DEF Injection, IsInjective, Home!IsInjective
<1>7. Cardinality(1..n) = n
  BY <1>1, FS_Interval
<1>8. q \in Surjection(1..n, S)
  BY <1>6, <1>7, FS_Injection DEF n
<1>9. \A x \in S : \E i \in 1..n : q[i] = x
  BY <1>8 DEF Surjection
<1>. QED
  BY <1>1, <1>5, <1>9 DEF n, q

\* A path of the search from f, through what it has seen.
Path(f, sn, p) ==
    /\ p \in Seq(Home!Ends) /\ Len(p) > 0 /\ p[1] = f
    /\ \A i \in 1..Len(p) : p[i] \in sn
    /\ \A i, j \in 1..Len(p) : p[i] = p[j] => i = j
    /\ \A i \in 1..(Len(p) - 1) : p[i + 1] \in Home!Neighbours(p[i])
    /\ \A w : Way(w, f, p[Len(p)]) => Len(p) <= Len(w)

\* Where the paths of the search end.
EndOf(ps, i) == ps[i][Len(ps[i])]

\* Paths are the shortest, and each as long as the first or one longer; what is seen is the end
\* of one or has its neighbours seen, and so has every way no longer than the first.
SearchInv(f, g, sn, ps) ==
    /\ f \in Rooms /\ g \in Rooms /\ sn \subseteq Home!Ends /\ f \in sn /\ g \notin sn
    /\ ps \in Seq(Seq(Home!Ends))
    /\ \A i \in 1..Len(ps) : Path(f, sn, ps[i])
    /\ \A i \in 1..Len(ps) : Len(ps[1]) <= Len(ps[i]) /\ Len(ps[i]) <= Len(ps[1]) + 1
    /\ \A i, j \in 1..Len(ps) : i <= j => Len(ps[i]) <= Len(ps[j])
    /\ \A y \in sn : (\E i \in 1..Len(ps) : EndOf(ps, i) = y) \/ Home!Neighbours(y) \subseteq sn
    /\ Len(ps) > 0 => \A x, w : Way(w, f, x) /\ Len(w) <= Len(ps[1]) => x \in sn

LEMMA SearchStarts ==
    ASSUME Planned, NEW f \in Rooms, NEW g \in Rooms, f # g
    PROVE  SearchInv(f, g, {f}, <<<<f>>>>)
<1>. DEFINE p == <<f>>
            ps == <<p>>
<1>1. p \in Seq(Home!Ends) /\ Len(p) = 1 /\ p[1] = f
  BY DEF Home!Ends
<1>. HIDE DEF p
<1>2. ps \in Seq(Seq(Home!Ends)) /\ Len(ps) = 1 /\ ps[1] = p
  BY <1>1
<1>3. \A i, j \in 1..1 : i = 1 /\ j = 1 /\ i = j
  OBVIOUS
<1>4. \A i \in 1..(1 - 1) : FALSE
  OBVIOUS
<1>5. \A w, x : Way(w, f, x) => 1 <= Len(w)
  BY WayProperties
<1>6. Path(f, {f}, p)
  BY <1>1, <1>3, <1>4, <1>5 DEF Path
<1>7. \A x, w : Way(w, f, x) /\ Len(w) <= 1 => x = f
  <2>. SUFFICES ASSUME NEW x, NEW w, Way(w, f, x), Len(w) <= 1 PROVE x = f
    OBVIOUS
  <2>1. Len(w) = 1
    BY WayProperties
  <2>. QED
    BY <2>1 DEF Way
<1>8. 1 \in 1..1 /\ EndOf(ps, 1) = f
  BY <1>1, <1>2 DEF EndOf
<1>. HIDE DEF ps
<1>9. f \in Home!Ends
  BY DEF Home!Ends
<1>10. SearchInv(f, g, {f}, ps)
  <2>1. \A i \in 1..Len(ps) : ps[i] = p
    BY <1>2, <1>3
  <2>2. \A i \in 1..Len(ps) : Path(f, {f}, ps[i])
    BY <1>6, <2>1
  <2>3. \A i, j \in 1..Len(ps) : Len(ps[i]) = 1 /\ Len(ps[j]) = 1 /\ Len(ps[1]) = 1
    BY <1>1, <1>2, <2>1
  <2>4. \A i \in 1..Len(ps) : Len(ps[1]) <= Len(ps[i]) /\ Len(ps[i]) <= Len(ps[1]) + 1
    BY <2>3
  <2>5. \A i, j \in 1..Len(ps) : i <= j => Len(ps[i]) <= Len(ps[j])
    BY <2>3
  <2>6. \A y \in {f} : \E i \in 1..Len(ps) : EndOf(ps, i) = y
    BY <1>2, <1>8
  <2>7. \A x, w : Way(w, f, x) /\ Len(w) <= Len(ps[1]) => x \in {f}
    BY <1>1, <1>2, <1>7
  <2>. QED
    BY <1>2, <1>9, <2>2, <2>4, <2>5, <2>6, <2>7 DEF SearchInv
<1>. QED
  BY <1>10 DEF ps, p
\* A path of the search goes on to a neighbour it has not seen.
LEMMA PathExtends ==
    ASSUME Planned, NEW f, NEW sn, sn \subseteq Home!Ends, NEW p, Path(f, sn, p),
           NEW x \in Home!Neighbours(p[Len(p)]), x \notin sn,
           \A y, w : Way(w, f, y) /\ Len(w) <= Len(p) => y \in sn
    PROVE  /\ Append(p, x) \in Seq(Home!Ends) /\ Len(Append(p, x)) = Len(p) + 1
           /\ Append(p, x)[Len(p) + 1] = x
           /\ Path(f, sn \cup {x}, Append(p, x))
<1>. DEFINE m == Len(p)
            u == Append(p, x)
<1>1. /\ p \in Seq(Home!Ends) /\ m > 0 /\ p[1] = f
      /\ \A i \in 1..m : p[i] \in sn
      /\ \A i, j \in 1..m : p[i] = p[j] => i = j
      /\ \A i \in 1..(m - 1) : p[i + 1] \in Home!Neighbours(p[i])
  BY DEF Path
<1>2. m \in Nat
  BY <1>1, LenProperties
<1>3. x \in Home!Ends /\ x \in Home!Neighbours(p[m])
  BY NeighboursAreFinite
<1>4. /\ u \in Seq(Home!Ends) /\ Len(u) = m + 1
      /\ (\A i \in 1..m : u[i] = p[i]) /\ u[m + 1] = x
  BY <1>1, <1>3, AppendProperties
<1>5. \A y, w : Way(w, f, y) /\ Len(w) <= m => y \in sn
  OBVIOUS
<1>. HIDE DEF m, u
<1>6. /\ 1 \in 1..m /\ m + 1 > 0 /\ (m + 1) - 1 = m
      /\ \A i \in 1..(m + 1) : i \in 1..m \/ i = m + 1
      /\ \A i \in 1..m : i # m + 1 /\ (i \in 1..(m - 1) \/ i = m)
      /\ \A i \in 1..(m - 1) : i \in 1..m /\ i + 1 \in 1..m
  BY <1>1, <1>2
<1>7. \A i \in 1..(m + 1) : u[i] \in sn \cup {x}
  BY <1>1, <1>4, <1>6
<1>8. \A i, j \in 1..(m + 1) : u[i] = u[j] => i = j
  BY <1>1, <1>4, <1>6
<1>9. \A i \in 1..m : u[i + 1] \in Home!Neighbours(u[i])
  BY <1>1, <1>3, <1>4, <1>6
<1>10. ASSUME NEW w, Way(w, f, x) PROVE m + 1 <= Len(w)
  <2>1. Len(w) \in Nat
    BY <1>10, WayProperties
  <2>2. ~(Len(w) <= m)
    BY <1>5, <1>10
  <2>. QED
    BY <1>2, <2>1, <2>2
<1>11. Path(f, sn \cup {x}, u)
  BY <1>1, <1>4, <1>6, <1>7, <1>8, <1>9, <1>10 DEF Path
<1>. QED
  BY <1>4, <1>11 DEF m, u

LEMMA PathStays ==
    ASSUME NEW f, NEW sn, NEW p, Path(f, sn, p), NEW sm, sn \subseteq sm
    PROVE  Path(f, sm, p)
BY DEF Path

\* The search goes on from its first path.
LEMMA SearchGoes ==
    ASSUME Planned, NEW f, NEW g, NEW sn, NEW ps, SearchInv(f, g, sn, ps), ps # <<>>,
           NEW new, new = Home!Neighbours(EndOf(ps, 1)) \ sn, g \notin new,
           NEW q2, q2 = Tail(ps) \o [i \in 1..Home!Cardinality(new) |->
                                        Append(ps[1], Home!SetToSeq(new)[i])]
    PROVE  SearchInv(f, g, sn \cup new, q2)
<1>. DEFINE n == Cardinality(new)
            s == Home!SetToSeq(new)
            p == ps[1]
            m == Len(ps)
            l == Len(p)
            k == [i \in 1..n |-> Append(p, s[i])]
<1>1. /\ f \in Rooms /\ g \in Rooms /\ sn \subseteq Home!Ends /\ f \in sn /\ g \notin sn
      /\ ps \in Seq(Seq(Home!Ends))
      /\ \A i \in 1..m : Path(f, sn, ps[i])
      /\ \A i \in 1..m : l <= Len(ps[i]) /\ Len(ps[i]) <= l + 1
      /\ \A i, j \in 1..m : i <= j => Len(ps[i]) <= Len(ps[j])
      /\ \A y \in sn : (\E i \in 1..m : EndOf(ps, i) = y) \/ Home!Neighbours(y) \subseteq sn
      /\ m > 0 => \A x, w : Way(w, f, x) /\ Len(w) <= l => x \in sn
  BY DEF SearchInv
<1>2. m \in Nat /\ m > 0
  BY <1>1, LenProperties, EmptySeq
<1>3. /\ n \in Nat /\ s \in [1..n -> new] /\ \A x \in new : \E i \in 1..n : s[i] = x
  <2>1. IsFiniteSet(new)
    BY NeighboursAreFinite
  <2>. QED
    BY <2>1, AllInSeq
<1>4. new \subseteq Home!Ends
  BY NeighboursAreFinite
<1>5. q2 = Tail(ps) \o k
  BY SameSize
<1>6. 1 \in 1..m /\ Path(f, sn, p) /\ p \in Seq(Home!Ends) /\ l \in Nat /\ l > 0
  <2>1. 1 \in 1..m
    BY <1>2
  <2>2. Path(f, sn, p)
    BY <1>1, <2>1
  <2>3. p \in Seq(Home!Ends) /\ l > 0
    BY <2>2 DEF Path
  <2>. QED
    BY <2>1, <2>2, <2>3, LenProperties
<1>. HIDE DEF s, n
<1>7. ASSUME NEW i \in 1..n
      PROVE  /\ k[i] = Append(p, s[i]) /\ k[i] \in Seq(Home!Ends) /\ Len(k[i]) = l + 1
             /\ k[i][l + 1] = s[i] /\ Path(f, sn \cup new, k[i])
  <2>1. s[i] \in new
    BY <1>3
  <2>2. s[i] \in Home!Neighbours(p[Len(p)]) /\ s[i] \notin sn
    BY <2>1 DEF EndOf
  <2>3. \A y, w : Way(w, f, y) /\ Len(w) <= Len(p) => y \in sn
    BY <1>1, <1>2
  <2>4. /\ Append(p, s[i]) \in Seq(Home!Ends) /\ Len(Append(p, s[i])) = l + 1
        /\ Append(p, s[i])[l + 1] = s[i] /\ Path(f, sn \cup {s[i]}, Append(p, s[i]))
    BY <1>1, <1>6, <2>2, <2>3, PathExtends
  <2>5. sn \cup {s[i]} \subseteq sn \cup new
    BY <2>1
  <2>6. Path(f, sn \cup new, Append(p, s[i]))
    BY <2>4, <2>5, PathStays
  <2>. QED
    BY <2>4, <2>6
<1>8. k \in Seq(Seq(Home!Ends)) /\ Len(k) = n
  <2>1. k \in [1..n -> Seq(Home!Ends)]
    BY <1>7
  <2>. HIDE DEF k
  <2>. QED
    BY <1>3, <2>1, SeqDef
<1>9. /\ Tail(ps) \in Seq(Seq(Home!Ends)) /\ Len(Tail(ps)) = m - 1
      /\ \A i \in 1..(m - 1) : Tail(ps)[i] = ps[i + 1]
  BY <1>1, <1>2, HeadTailProperties
<1>. HIDE DEF k
<1>10. /\ q2 \in Seq(Seq(Home!Ends)) /\ Len(q2) = (m - 1) + n
       /\ \A i \in 1..((m - 1) + n) :
             q2[i] = IF i <= m - 1 THEN Tail(ps)[i] ELSE k[i - (m - 1)]
  <2>1. Len(Tail(ps)) = m - 1 /\ Len(k) = n
    BY <1>8, <1>9
  <2>2. /\ Tail(ps) \o k \in Seq(Seq(Home!Ends))
        /\ Len(Tail(ps) \o k) = Len(Tail(ps)) + Len(k)
        /\ \A i \in 1..(Len(Tail(ps)) + Len(k)) :
              (Tail(ps) \o k)[i] = IF i <= Len(Tail(ps)) THEN Tail(ps)[i]
                                   ELSE k[i - Len(Tail(ps))]
    BY <1>8, <1>9, ConcatProperties
  <2>. HIDE DEF m
  <2>. QED
    BY <1>5, <2>1, <2>2
<1>. DEFINE N == Len(q2)
<1>. HIDE DEF m, l, N
<1>21. N = (m - 1) + n /\ N \in Nat
  <2>1. N = (m - 1) + n
    BY <1>10 DEF N
  <2>. QED
    BY <1>2, <1>3, <2>1
\* Each path is one of before, behind the first, or a new one.
<1>11. ASSUME NEW i \in 1..Len(q2)
       PROVE  \/ i <= m - 1 /\ i + 1 \in 1..m /\ q2[i] = ps[i + 1]
              \/ m - 1 < i /\ i - (m - 1) \in 1..n /\ q2[i] = k[i - (m - 1)]
  <2>1. i \in 1..((m - 1) + n)
    BY <1>10
  <2>2. CASE i <= m - 1
    <3>1. i \in 1..(m - 1) /\ i + 1 \in 1..m
      BY <1>2, <2>1, <2>2
    <3>. QED
      BY <1>9, <1>10, <2>1, <2>2, <3>1
  <2>3. CASE ~(i <= m - 1)
    <3>1. m - 1 < i /\ i - (m - 1) \in 1..n
      BY <1>2, <1>3, <2>1, <2>3
    <3>. QED
      BY <1>10, <2>1, <2>3, <3>1
  <2>. QED
    BY <2>2, <2>3
<1>12. ASSUME NEW i \in 2..m PROVE i - 1 \in 1..Len(q2) /\ q2[i - 1] = ps[i]
  <2>1. i - 1 \in 1..(m - 1) /\ i - 1 \in 1..((m - 1) + n) /\ (i - 1) + 1 = i /\ i - 1 <= m - 1
    BY <1>2, <1>3
  <2>. QED
    BY <1>9, <1>10, <2>1
<1>13. ASSUME NEW i \in 1..n PROVE (m - 1) + i \in 1..Len(q2) /\ q2[(m - 1) + i] = k[i]
  <2>1. /\ (m - 1) + i \in 1..((m - 1) + n) /\ ~((m - 1) + i <= m - 1)
        /\ ((m - 1) + i) - (m - 1) = i
    BY <1>2, <1>3
  <2>. QED
    BY <1>10, <2>1
<1>14. \A i \in 1..Len(q2) : Path(f, sn \cup new, q2[i])
  <2>. SUFFICES ASSUME NEW i \in 1..Len(q2) PROVE Path(f, sn \cup new, q2[i])
    OBVIOUS
  <2>1. \A j \in 1..m : Path(f, sn \cup new, ps[j])
    BY <1>1, PathStays DEF m
  <2>. QED
    BY <1>7, <1>11, <2>1
<1>15. \A i \in 1..Len(q2) : Len(q2[i]) \in Nat /\ l <= Len(q2[i]) /\ Len(q2[i]) <= l + 1
  <2>. SUFFICES ASSUME NEW i \in 1..Len(q2)
                PROVE  Len(q2[i]) \in Nat /\ l <= Len(q2[i]) /\ Len(q2[i]) <= l + 1
    OBVIOUS
  <2>1. \A j \in 1..m : ps[j] \in Seq(Home!Ends) /\ l <= Len(ps[j]) /\ Len(ps[j]) <= l + 1
    BY <1>1 DEF Path, m, l
  <2>2. CASE i <= m - 1 /\ i + 1 \in 1..m /\ q2[i] = ps[i + 1]
    BY <2>1, <2>2, LenProperties
  <2>3. CASE m - 1 < i /\ i - (m - 1) \in 1..n /\ q2[i] = k[i - (m - 1)]
    <3>1. Len(q2[i]) = l + 1
      BY <1>7, <2>3
    <3>2. l \in Nat /\ l + 1 \in Nat /\ l <= l + 1 /\ l + 1 <= l + 1
      BY <1>6
    <3>. QED
      BY <3>1, <3>2
  <2>. QED
    BY <1>11, <2>2, <2>3
<1>16. \A i, j \in 1..Len(q2) : i <= j => Len(q2[i]) <= Len(q2[j])
  <2>. SUFFICES ASSUME NEW i \in 1..Len(q2), NEW j \in 1..Len(q2), i <= j
                PROVE  Len(q2[i]) <= Len(q2[j])
    OBVIOUS
  <2>1. i \in Nat /\ j \in Nat
    BY <1>21 DEF N
  <2>2. CASE j <= m - 1
    <3>1. i <= m - 1
      BY <1>2, <2>1, <2>2
    <3>5. ~(m - 1 < i) /\ ~(m - 1 < j)
      BY <1>2, <2>1, <2>2, <3>1
    <3>2. q2[i] = ps[i + 1] /\ q2[j] = ps[j + 1] /\ i + 1 \in 1..m /\ j + 1 \in 1..m
      BY <1>11, <3>5
    <3>3. i + 1 <= j + 1
      BY <2>1
    <3>4. Len(ps[i + 1]) <= Len(ps[j + 1])
      BY <1>1, <3>2, <3>3
    <3>. QED
      BY <3>2, <3>4
  <2>3. CASE ~(j <= m - 1)
    <3>1. j - (m - 1) \in 1..n /\ q2[j] = k[j - (m - 1)]
      BY <1>11, <2>3
    <3>2. Len(q2[j]) = l + 1
      BY <1>7, <3>1
    <3>. QED
      BY <1>15, <3>2
  <2>. QED
    BY <2>2, <2>3
<1>17. \A i \in 1..Len(q2) : Len(q2[1]) <= Len(q2[i]) /\ Len(q2[i]) <= Len(q2[1]) + 1
  <2>. SUFFICES ASSUME NEW i \in 1..Len(q2)
                PROVE  Len(q2[1]) <= Len(q2[i]) /\ Len(q2[i]) <= Len(q2[1]) + 1
    OBVIOUS
  <2>5. i \in 1..N
    BY DEF N
  <2>6. 1 \in 1..N /\ 1 <= i
    BY <1>21, <2>5
  <2>1. 1 <= i /\ 1 \in 1..Len(q2)
    BY <2>6 DEF N
  <2>2. Len(q2[1]) <= Len(q2[i])
    BY <1>16, <2>1
  <2>3. /\ Len(q2[1]) \in Nat /\ Len(q2[i]) \in Nat /\ l <= Len(q2[1]) /\ Len(q2[i]) <= l + 1
    BY <1>15, <2>1
  <2>. DEFINE a == Len(q2[1])
              b == Len(q2[i])
  <2>4. a \in Nat /\ b \in Nat /\ l <= a /\ b <= l + 1 /\ l \in Nat
    BY <1>6, <2>3
  <2>. HIDE DEF a, b
  <2>7. b <= a + 1
    BY <2>4
  <2>. QED
    BY <2>2, <2>7 DEF a, b
<1>18. ASSUME NEW y \in sn \cup new
       PROVE  (\E i \in 1..Len(q2) : EndOf(q2, i) = y)
              \/ Home!Neighbours(y) \subseteq sn \cup new
  <2>1. CASE y \in new
    <3>1. PICK i \in 1..n : s[i] = y
      BY <1>3, <2>1
    <3>2. k[i][Len(k[i])] = y
      BY <1>7, <3>1
    <3>. QED
      BY <1>13, <3>2 DEF EndOf
  <2>2. CASE y \in sn
    <3>1. CASE Home!Neighbours(y) \subseteq sn
      BY <3>1
    <3>2. ASSUME NEW i \in 1..m, EndOf(ps, i) = y
          PROVE  (\E j \in 1..Len(q2) : EndOf(q2, j) = y)
                 \/ Home!Neighbours(y) \subseteq sn \cup new
      <4>1. CASE i = 1
        <5>1. Home!Neighbours(y) \subseteq sn \cup new
          BY <3>2, <4>1
        <5>. QED
          BY <5>1
      <4>2. CASE i # 1
        <5>1. i \in 2..m
          BY <1>2, <4>2
        <5>2. i - 1 \in 1..Len(q2) /\ q2[i - 1] = ps[i]
          BY <1>12, <5>1
        <5>. QED
          BY <3>2, <5>2 DEF EndOf
      <4>. QED
        BY <4>1, <4>2
    <3>. QED
      BY <1>1, <2>2, <3>1, <3>2 DEF m
  <2>. QED
    BY <2>1, <2>2
<1>19. ASSUME Len(q2) > 0, NEW x, NEW w, Way(w, f, x), Len(w) <= Len(q2[1])
       PROVE  x \in sn \cup new
  <2>. DEFINE h == Len(q2[1])
              v == Len(w)
  <2>8. N > 0
    BY <1>19 DEF N
  <2>9. 1 \in 1..N
    BY <1>21, <2>8
  <2>1. 1 \in 1..Len(q2)
    BY <2>9 DEF N
  <2>2. h \in Nat /\ h <= l + 1
    BY <1>15, <2>1
  <2>7. v <= h /\ v \in Nat /\ v >= 1
    BY <1>19, WayProperties
  <2>3. Len(w) \in Nat /\ Len(w) >= 1 /\ \A i \in 1..Len(w) : w[i] \in Rooms
    BY <1>19, WayProperties
  <2>4. \A z, u : Way(u, f, z) /\ Len(u) <= l => z \in sn
    BY <1>1, <1>2
  <2>. HIDE DEF h, v
  <2>5. CASE v <= l
    BY <1>19, <2>4, <2>5 DEF v
  <2>6. CASE ~(v <= l)
    <3>1. v = l + 1 /\ h = l + 1 /\ l \in Nat /\ l > 0
      BY <1>6, <2>2, <2>6, <2>7
    <3>9. l \in 1..v /\ l \in 1..(v - 1) /\ l + 1 \in 1..v /\ l # l + 1
      BY <3>1
    <3>2. l \in 1..Len(w) /\ l \in 1..(Len(w) - 1) /\ l + 1 \in 1..Len(w) /\ l # l + 1
      BY <3>9 DEF v
    <3>3. PICK u : Way(u, f, w[l]) /\ Len(u) = l
      BY <1>19, <3>2, WayPrefix
    <3>4. w[l] \in sn
      BY <2>4, <3>1, <3>3
    <3>10. l + 1 = Len(w)
      BY <3>1 DEF v
    <3>5. Edge(w[l], w[l + 1]) /\ w[l] # w[l + 1] /\ w[l + 1] = x
      BY <1>19, <3>10, <3>2 DEF Way
    <3>6. w[l] # Outdoors /\ x # Outdoors
      BY <2>3, <3>2, <3>5, HomeConstants
    <3>7. x \in Home!Neighbours(w[l])
      BY <3>5, <3>6, NextDoor
    <3>11. \A o \in Nat : o <= l => ~(h <= o)
      BY <3>1
    <3>8. ASSUME NEW i \in 1..Len(q2), EndOf(q2, i) = w[l] PROVE FALSE
      <4>1. Path(f, sn \cup new, q2[i]) /\ q2[i][Len(q2[i])] = w[l]
        BY <1>14, <3>8 DEF EndOf
      <4>. DEFINE o == Len(q2[i])
      <4>2. o <= l
        BY <3>3, <4>1 DEF Path
      <4>3. h <= o /\ o \in Nat
        BY <1>15, <1>17 DEF h
      <4>. HIDE DEF o
      <4>. QED
        BY <3>11, <4>2, <4>3, Zenon
    <3>. QED
      BY <1>18, <3>4, <3>7, <3>8
  <2>. QED
    BY <2>5, <2>6
<1>20. sn \cup new \subseteq Home!Ends /\ f \in sn \cup new /\ g \notin sn \cup new
  BY <1>1, <1>4
<1>. QED
  BY <1>1, <1>10, <1>14, <1>16, <1>17, <1>18, <1>19, <1>20 DEF SearchInv

\* No door is written to lead to a room the plan does not have.
Known == \A d \in Doors : Nowhere \notin between[d]

LEMMA KnownNeighbours ==
    ASSUME Planned, Known, NEW x, NEW y \in Home!Neighbours(x)
    PROVE  y \in Rooms
<1>1. y # Outdoors /\ Edge(x, y) /\ y \in Home!Ends
  BY NextDoor
<1>2. PICK d \in Doors : between[d] = {x, y}
  BY <1>1 DEF Edge
<1>3. y # Nowhere
  BY <1>2 DEF Known
<1>. QED
  BY <1>1, <1>3 DEF Home!Ends

\* A path of the search is a way when every door leads to rooms of the plan.
LEMMA KnownPath ==
    ASSUME Planned, Known, NEW f \in Rooms, NEW sn, NEW p, Path(f, sn, p)
    PROVE  Way(p, f, p[Len(p)])
<1>. DEFINE m == Len(p)
<1>1. /\ p \in Seq(Home!Ends) /\ m > 0 /\ p[1] = f
      /\ \A i, j \in 1..m : p[i] = p[j] => i = j
      /\ \A i \in 1..(m - 1) : p[i + 1] \in Home!Neighbours(p[i])
  BY DEF Path
<1>2. m \in Nat /\ p \in [1..m -> Home!Ends]
  BY <1>1, LenProperties
<1>. HIDE DEF m
<1>3. ASSUME NEW i \in 1..m PROVE p[i] \in Rooms
  <2>1. CASE i = 1
    BY <1>1, <2>1
  <2>2. CASE i # 1
    <3>1. i - 1 \in 1..(m - 1) /\ (i - 1) + 1 = i
      BY <1>2, <2>2
    <3>2. p[(i - 1) + 1] \in Home!Neighbours(p[i - 1])
      BY <1>1, <3>1
    <3>. QED
      BY <3>1, <3>2, KnownNeighbours
  <2>. QED
    BY <2>1, <2>2
<1>4. p \in [1..m -> Rooms]
  BY <1>2, <1>3
<1>5. p \in Seq(Rooms)
  BY <1>2, <1>4, SeqDef
<1>6. \A i \in 1..(m - 1) : Edge(p[i], p[i + 1])
  BY <1>1, NextDoor
<1>. QED
  BY <1>1, <1>5, <1>6 DEF Way, m

-----------------------------------------------------------------------------
(* What a room leads to *)

\* A number of steps that each keep to a set end in it.
LEMMA StepsKeepWithin ==
    ASSUME NEW S, NEW n \in Nat, NEW v, v[0] \subseteq S,
           \A i \in 1..n : v[i - 1] \subseteq S => v[i] \subseteq S
    PROVE  v[n] \subseteq S
<1>. DEFINE B == {i \in 0..n : ~(v[i] \subseteq S)}
<1>1. ASSUME B # {} PROVE FALSE
  <2>1. B \in SUBSET Nat
    OBVIOUS
  <2>2. PICK k \in B : \A i \in B : k <= i
    BY <1>1, <2>1, FirstOfThem
  <2>3. k \in 0..n /\ ~(v[k] \subseteq S)
    BY <2>2
  <2>4. k # 0
    BY <2>3
  <2>5. k \in 1..n /\ k - 1 \in 0..n /\ ~(k <= k - 1)
    BY <2>3, <2>4
  <2>6. k - 1 \notin B
    BY <2>2, <2>5
  <2>7. v[k - 1] \subseteq S
    BY <2>5, <2>6
  <2>. QED
    BY <2>3, <2>5, <2>7
<1>2. n \in 0..n
  OBVIOUS
<1>. QED
  BY <1>1, <1>2

LEMMA PlacesAreCounted == Home!Cardinality(Home!Ends \cup Doors) \in Nat
<1>1. IsFiniteSet(Rooms \cup {Outdoors}) /\ IsFiniteSet((Rooms \cup {Outdoors}) \cup {Nowhere})
  BY HomeConstants, FS_AddElement
<1>2. Home!Ends = (Rooms \cup {Outdoors}) \cup {Nowhere}
  BY DEF Home!Ends
<1>3. IsFiniteSet(Home!Ends \cup Doors)
  BY <1>1, <1>2, HomeConstants, FS_Union
<1>. QED
  BY <1>3, FS_CardinalityType, SameSize

\* What a set leads to stays within one that its neighbours do not leave.
LEMMA NeighboursWithin ==
    ASSUME NEW S, NEW start \in SUBSET S, \A x \in S : Home!Neighbours(x) \subseteq S
    PROVE  Home!Closure(start, Home!Neighbours) \subseteq S
<1>. DEFINE n == Home!Cardinality(Home!Ends \cup Doors)
            W(g) == g = [i \in 0..n |-> IF i = 0 THEN start
                                         ELSE g[i - 1] \cup UNION {Home!Neighbours(x) : x \in g[i - 1]}]
            v == CHOOSE g : W(g)
            h == [a \in (SUBSET S) \X Nat |->
                     a[1] \cup UNION {Home!Neighbours(x) : x \in a[1]}]
<1>1. Home!Closure(start, Home!Neighbours) = v[n]
  BY DEF Home!Closure
<1>2. n \in Nat
  BY PlacesAreCounted
<1>. HIDE DEF n
<1>3. \A w \in SUBSET S : w \cup UNION {Home!Neighbours(x) : x \in w} \in SUBSET S
  OBVIOUS
<1>4. h \in [(SUBSET S) \X Nat -> SUBSET S]
  BY <1>3
<1>5. PICK g : Steps(g, SUBSET S, start, n, h)
  BY <1>2, <1>4, RecursionExists
<1>6. W(g)
  <2>1. g \in [0..n -> SUBSET S] /\ g[0] = start /\ \A i \in 1..n : g[i] = h[<<g[i - 1], i - 1>>]
    BY <1>5 DEF Steps
  <2>2. ASSUME NEW i \in 0..n, i # 0
        PROVE  g[i] = g[i - 1] \cup UNION {Home!Neighbours(x) : x \in g[i - 1]}
    <3>1. i \in 1..n /\ i - 1 \in 0..n /\ i - 1 \in Nat
      BY <1>2, <2>2
    <3>2. g[i - 1] \in SUBSET S
      BY <2>1, <3>1
    <3>. QED
      BY <2>1, <3>1, <3>2
  <2>. HIDE DEF h
  <2>3. g = [i \in 0..n |-> g[i]]
    BY <2>1
  <2>. QED
    BY <2>1, <2>2, <2>3
<1>7. W(v)
  BY <1>6
<1>. HIDE DEF v
<1>8. v[0] = start /\ \A i \in 1..n : v[i] = v[i - 1] \cup UNION {Home!Neighbours(x) : x \in v[i - 1]}
  <2>1. 0 \in 0..n /\ \A i \in 1..n : i \in 0..n /\ i # 0
    BY <1>2
  <2>. QED
    BY <1>7, <2>1
<1>9. \A i \in 1..n : v[i - 1] \subseteq S => v[i] \subseteq S
  BY <1>8
<1>. QED
  BY <1>1, <1>2, <1>8, <1>9, StepsKeepWithin

LEMMA LinksWithin ==
    ASSUME NEW S, NEW start \in SUBSET S, \A x \in S : Home!Links(x) \subseteq S
    PROVE  Home!Closure(start, Home!Links) \subseteq S
<1>. DEFINE n == Home!Cardinality(Home!Ends \cup Doors)
            W(g) == g = [i \in 0..n |-> IF i = 0 THEN start
                                         ELSE g[i - 1] \cup UNION {Home!Links(x) : x \in g[i - 1]}]
            v == CHOOSE g : W(g)
            h == [a \in (SUBSET S) \X Nat |->
                     a[1] \cup UNION {Home!Links(x) : x \in a[1]}]
<1>1. Home!Closure(start, Home!Links) = v[n]
  BY DEF Home!Closure
<1>2. n \in Nat
  BY PlacesAreCounted
<1>. HIDE DEF n
<1>3. \A w \in SUBSET S : w \cup UNION {Home!Links(x) : x \in w} \in SUBSET S
  OBVIOUS
<1>4. h \in [(SUBSET S) \X Nat -> SUBSET S]
  BY <1>3
<1>5. PICK g : Steps(g, SUBSET S, start, n, h)
  BY <1>2, <1>4, RecursionExists
<1>6. W(g)
  <2>1. g \in [0..n -> SUBSET S] /\ g[0] = start /\ \A i \in 1..n : g[i] = h[<<g[i - 1], i - 1>>]
    BY <1>5 DEF Steps
  <2>2. ASSUME NEW i \in 0..n, i # 0
        PROVE  g[i] = g[i - 1] \cup UNION {Home!Links(x) : x \in g[i - 1]}
    <3>1. i \in 1..n /\ i - 1 \in 0..n /\ i - 1 \in Nat
      BY <1>2, <2>2
    <3>2. g[i - 1] \in SUBSET S
      BY <2>1, <3>1
    <3>. QED
      BY <2>1, <3>1, <3>2
  <2>. HIDE DEF h
  <2>3. g = [i \in 0..n |-> g[i]]
    BY <2>1
  <2>. QED
    BY <2>1, <2>2, <2>3
<1>7. W(v)
  BY <1>6
<1>. HIDE DEF v
<1>8. v[0] = start /\ \A i \in 1..n : v[i] = v[i - 1] \cup UNION {Home!Links(x) : x \in v[i - 1]}
  <2>1. 0 \in 0..n /\ \A i \in 1..n : i \in 0..n /\ i # 0
    BY <1>2
  <2>. QED
    BY <1>7, <2>1
<1>9. \A i \in 1..n : v[i - 1] \subseteq S => v[i] \subseteq S
  BY <1>8
<1>. QED
  BY <1>1, <1>2, <1>8, <1>9, StepsKeepWithin

\* A search that ends without the goal has seen all its start leads to: the rooms are apart.
LEMMA NoRouteApart ==
    ASSUME Planned, Known, NEW f, NEW g, NEW sn, SearchInv(f, g, sn, <<>>)
    PROVE  ~Home!Connected
<1>1. /\ f \in Rooms /\ g \in Rooms /\ f \in sn /\ g \notin sn /\ Len(<<>>) = 0
      /\ \A y \in sn : (\E i \in 1..Len(<<>>) : EndOf(<<>>, i) = y)
                          \/ Home!Neighbours(y) \subseteq sn
  BY DEF SearchInv
<1>2. \A y \in sn : Home!Neighbours(y) \subseteq sn
  <2>1. 1..Len(<<>>) = {}
    BY <1>1
  <2>. QED
    BY <1>1, <2>1
<1>3. \A x, y : y \in Home!Neighbours(x) <=> x \in Home!Neighbours(y)
  <2>. SUFFICES ASSUME NEW x, NEW y, y \in Home!Neighbours(x) PROVE x \in Home!Neighbours(y)
    OBVIOUS
  <2>1. x # y /\ x # Outdoors /\ y # Outdoors /\ Edge(x, y)
    BY NextDoor
  <2>2. {x, y} = {y, x}
    OBVIOUS
  <2>3. Edge(y, x)
    BY <2>1, <2>2 DEF Edge
  <2>. QED
    BY <2>1, <2>3, NextDoor
<1>. SUFFICES ASSUME NEW first \in Rooms,
                     Home!Cardinality(Home!Closure({first}, Home!Neighbours))
                         = Home!Cardinality(Rooms)
              PROVE  FALSE
  BY DEF Home!Connected
<1>. DEFINE C == Home!Closure({first}, Home!Neighbours)
<1>4. C \subseteq Rooms
  <2>1. \A x \in Rooms : Home!Neighbours(x) \subseteq Rooms
    BY KnownNeighbours
  <2>. QED
    BY <2>1, NeighboursWithin
<1>5. C = Rooms
  <2>1. Cardinality(C) = Cardinality(Rooms)
    BY SameSize
  <2>. HIDE DEF C
  <2>. QED
    BY <1>4, <2>1, HomeConstants, FS_Subset
<1>6. CASE first \in sn
  <2>1. {first} \in SUBSET sn
    BY <1>6
  <2>2. C \subseteq sn
    BY <1>2, <2>1, NeighboursWithin
  <2>. QED
    BY <1>1, <1>5, <2>2
<1>7. CASE first \notin sn
  <2>. DEFINE U == Rooms \ sn
  <2>1. {first} \in SUBSET U
    BY <1>7
  <2>2. ASSUME NEW x \in U PROVE Home!Neighbours(x) \subseteq U
    <3>. SUFFICES ASSUME NEW y \in Home!Neighbours(x) PROVE y \in U
      OBVIOUS
    <3>1. y \in Rooms
      BY KnownNeighbours
    <3>2. x \in Home!Neighbours(y)
      BY <1>3
    <3>. QED
      BY <1>2, <3>1, <3>2
  <2>. HIDE DEF U
  <2>3. C \subseteq U
    BY <2>1, <2>2, NeighboursWithin
  <2>. QED
    BY <1>1, <1>5, <2>3 DEF U
<1>. QED
  BY <1>6, <1>7

\* A room that reaches the front door has a door that leads out among the distances.
LEMMA ReachedIsMeasured ==
    ASSUME NEW f, NEW g, NEW t, DistInv(f, t, {}), Home!Reaches(f, g)
    PROVE  Home!NodesFor(g) \cap DOMAIN t # {}
<1>1. \A u \in DOMAIN t : Relaxed(t, u)
  BY DEF DistInv
<1>2. \A u \in DOMAIN t : Home!Links(u) \subseteq DOMAIN t
  BY <1>1 DEF Relaxed
<1>3. f \in Rooms /\ f \in DOMAIN t
  BY DEF DistInv
<1>4. Home!NodesFor(f) \in SUBSET DOMAIN t
  BY <1>3, HomeConstants DEF Home!NodesFor
<1>5. Home!Closure(Home!NodesFor(f), Home!Links) \subseteq DOMAIN t
  BY <1>2, <1>4, LinksWithin
<1>. QED
  BY <1>5 DEF Home!Reaches

-----------------------------------------------------------------------------
(* A walk through the home *)

\* A route is a shortest path to the goal.
RouteRight(f, g, r) == g \in Rooms /\ Path(f, Home!Ends, r) /\ r[Len(r)] = g

\* What a walk that is over has.
Walked(f, g, r, m) ==
    /\ r = <<>> \/ RouteRight(f, g, r)
    /\ g = Outdoors \/ r # <<>> => Measured(f, g, m)
    /\ Known /\ Home!Connected /\ g # Outdoors => r # <<>>
    /\ g = Outdoors /\ Home!HasEntrance /\ Home!Reaches(f, Outdoors) => m # {}

\* A walk is asked for, has its rooms looked for and then its length, and is over.
HomeIdle(f, g, sn, ps, r, t, q, m) ==
    /\ f = Home!Absent /\ g = Home!Absent /\ sn = {} /\ ps = <<>> /\ r = <<>>
    /\ t = <<>> /\ q = {} /\ m = {}
HomeRouted(f, g, sn, ps, r, t, q, m) ==
    SearchInv(f, g, sn, ps) /\ r = <<>> /\ t = <<>> /\ q = {} /\ m = {}
HomeWalked(f, g, sn, ps, r, t, q, m) ==
    /\ sn \subseteq Home!Ends /\ ps \in Seq(Seq(Home!Ends)) /\ m = {}
    /\ DistInv(f, t, q)
    /\ (g = Outdoors /\ r = <<>>) \/ RouteRight(f, g, r)
HomeDone(f, g, sn, ps, r, t, q, m) ==
    /\ f \in Rooms /\ g \in Rooms \cup {Outdoors}
    /\ sn \subseteq Home!Ends /\ ps \in Seq(Seq(Home!Ends)) /\ m \subseteq Nat
    /\ DOMAIN t \subseteq Rooms \cup Doors /\ q = {}
    /\ Walked(f, g, r, m)
HomeGoes(f, g, st, sn, ps, r, t, q, m) ==
    \/ st = "idle" /\ HomeIdle(f, g, sn, ps, r, t, q, m)
    \/ st = "route" /\ HomeRouted(f, g, sn, ps, r, t, q, m)
    \/ st = "walk" /\ HomeWalked(f, g, sn, ps, r, t, q, m)
    \/ st = "done" /\ HomeDone(f, g, sn, ps, r, t, q, m)
HomeInv == Planned /\ HomeGoes(from, to, stage, seen, paths, route, dist, queue, metres)

LEMMA HomeStarts == ASSUME Home!Init PROVE HomeInv
<1>1. HomeIdle(from, to, seen, paths, route, dist, queue, metres)
  BY DEF Home!Init, HomeIdle
<1>2. Planned /\ stage = "idle"
  BY DEF Home!Init, Planned
<1>. QED
  BY <1>1, <1>2 DEF HomeInv, HomeGoes

\* The length of a walk is asked for.
LEMMA WalkBegins ==
    ASSUME Planned, NEW f \in Rooms, NEW g \in Rooms \cup {Outdoors}, Home!Begin(f, g)
    PROVE  \/ /\ stage' = "done" /\ dist' = dist /\ queue' = queue
              /\ Home!NodesFor(g) = {} /\ g = Outdoors /\ Measured(f, g, {})
           \/ stage' = "walk" /\ DistInv(f, dist', queue')
<1>1. Home!NodesFor(f) = {f}
  BY HomeConstants DEF Home!NodesFor
<1>2. CASE Home!NodesFor(g) = {}
  <2>1. stage' = "done" /\ dist' = dist /\ queue' = queue
    BY <1>2 DEF Home!Begin
  <2>. QED
    BY <1>2, <2>1, NoNodesNoWay
<1>3. CASE Home!NodesFor(g) # {}
  <2>1. stage' = "walk" /\ dist' = [s \in {f} |-> 0] /\ queue' = {<<0, s>> : s \in {f}}
    BY <1>1, <1>3 DEF Home!Begin
  <2>. QED
    BY <2>1, DistStarts
<1>. QED
  BY <1>2, <1>3

LEMMA NothingWalked ==
    ASSUME NEW f, NEW g, g = Outdoors, Home!NodesFor(g) = {}, Measured(f, g, {})
    PROVE  Walked(f, g, <<>>, {})
<1>1. ~Home!HasEntrance
  BY DEF Home!HasEntrance
<1>. QED
  BY <1>1 DEF Walked

LEMMA NothingSeen == <<>> \in Seq(Seq(Home!Ends)) /\ {} \subseteq Home!Ends
                     /\ DOMAIN <<>> \subseteq Rooms \cup Doors
BY EmptySeq

LEMMA MoveRoomGoes ==
    ASSUME HomeInv, NEW a \in Rooms, NEW b \in Rooms, Home!MoveRoom(a, b)
    PROVE  /\ between' = between
           /\ HomeGoes(from', to', stage', seen', paths', route', dist', queue', metres')
<1>1. /\ stage = "idle" /\ a # b /\ from' = a /\ to' = b /\ seen' = {a} /\ paths' = <<<<a>>>>
      /\ stage' = "route" /\ between' = between /\ route' = route /\ dist' = dist
      /\ queue' = queue /\ metres' = metres
  BY DEF Home!MoveRoom
<1>2. route = <<>> /\ dist = <<>> /\ queue = {} /\ metres = {} /\ Planned
  BY <1>1 DEF HomeInv, HomeGoes, HomeIdle
<1>3. SearchInv(from', to', seen', paths')
  BY <1>1, <1>2, SearchStarts
<1>. QED
  BY <1>1, <1>2, <1>3 DEF HomeGoes, HomeRouted

LEMMA DistToEntranceGoes ==
    ASSUME HomeInv, NEW a \in Rooms, Home!DistToEntrance(a)
    PROVE  /\ between' = between
           /\ HomeGoes(from', to', stage', seen', paths', route', dist', queue', metres')
<1>1. /\ stage = "idle" /\ from' = a /\ to' = Outdoors /\ Home!Begin(a, Outdoors)
      /\ between' = between /\ seen' = seen /\ paths' = paths /\ route' = route
      /\ metres' = metres
  BY DEF Home!DistToEntrance
<1>2. /\ seen = {} /\ paths = <<>> /\ route = <<>> /\ dist = <<>> /\ queue = {} /\ metres = {}
      /\ Planned
  BY <1>1 DEF HomeInv, HomeGoes, HomeIdle
<1>3. CASE /\ stage' = "done" /\ dist' = dist /\ queue' = queue
           /\ Home!NodesFor(Outdoors) = {} /\ Measured(a, Outdoors, {})
  <2>1. Walked(a, Outdoors, <<>>, {})
    BY <1>3, NothingWalked
  <2>2. HomeDone(from', to', seen', paths', route', dist', queue', metres')
    BY <1>1, <1>2, <1>3, <2>1, NothingSeen DEF HomeDone
  <2>. QED
    BY <1>1, <1>3, <2>2 DEF HomeGoes
<1>4. CASE stage' = "walk" /\ DistInv(a, dist', queue')
  <2>1. HomeWalked(from', to', seen', paths', route', dist', queue', metres')
    BY <1>1, <1>2, <1>4, NothingSeen DEF HomeWalked
  <2>. QED
    BY <1>1, <1>4, <2>1 DEF HomeGoes
<1>. QED
  BY <1>1, <1>2, <1>3, <1>4, WalkBegins

LEMMA FirstPath ==
    ASSUME NEW f, NEW g, NEW sn, NEW ps, SearchInv(f, g, sn, ps), ps # <<>>
    PROVE  /\ Head(ps) = ps[1] /\ ps[1] \in Seq(Home!Ends)
           /\ Home!Last(Head(ps)) = EndOf(ps, 1)
           /\ Path(f, sn, ps[1])
           /\ \A y, w : Way(w, f, y) /\ Len(w) <= Len(ps[1]) => y \in sn
<1>1. /\ ps \in Seq(Seq(Home!Ends)) /\ \A i \in 1..Len(ps) : Path(f, sn, ps[i])
      /\ Len(ps) > 0 => \A x, w : Way(w, f, x) /\ Len(w) <= Len(ps[1]) => x \in sn
  BY DEF SearchInv
<1>2. Len(ps) \in Nat /\ Len(ps) > 0 /\ Head(ps) = ps[1]
  BY <1>1, LenProperties, EmptySeq, HeadTailProperties
<1>3. 1 \in 1..Len(ps)
  BY <1>2
<1>4. Path(f, sn, ps[1])
  BY <1>1, <1>3
<1>5. ps[1] \in Seq(Home!Ends)
  BY <1>4 DEF Path
<1>. QED
  BY <1>1, <1>2, <1>4, <1>5 DEF Home!Last, EndOf

LEMMA ExtendGoes ==
    ASSUME HomeInv, Home!Extend
    PROVE  /\ between' = between
           /\ HomeGoes(from', to', stage', seen', paths', route', dist', queue', metres')
<1>. DEFINE new == Home!Neighbours(EndOf(paths, 1)) \ seen
<1>1. stage = "route" /\ paths # <<>> /\ UNCHANGED <<between, from, to, stage, route, dist, queue, metres>>
  BY DEF Home!Extend
<1>2. /\ SearchInv(from, to, seen, paths) /\ Planned
      /\ route = <<>> /\ dist = <<>> /\ queue = {} /\ metres = {}
  BY <1>1 DEF HomeInv, HomeGoes, HomeRouted
<1>3. Head(paths) = paths[1] /\ Home!Last(Head(paths)) = EndOf(paths, 1)
  BY <1>1, <1>2, FirstPath
<1>4. /\ to \notin new /\ seen' = seen \cup new
      /\ paths' = Tail(paths) \o [i \in 1..Home!Cardinality(new) |->
                                     Append(paths[1], Home!SetToSeq(new)[i])]
  BY <1>3 DEF Home!Extend
<1>. HIDE DEF new
<1>5. SearchInv(from, to, seen', paths')
  <2>1. new = Home!Neighbours(EndOf(paths, 1)) \ seen
    BY DEF new
  <2>. QED
    BY <1>1, <1>2, <1>4, <2>1, SearchGoes
<1>. QED
  BY <1>1, <1>2, <1>5 DEF HomeGoes, HomeRouted

LEMMA RouteFoundGoes ==
    ASSUME HomeInv, Home!RouteFound
    PROVE  /\ between' = between
           /\ HomeGoes(from', to', stage', seen', paths', route', dist', queue', metres')
<1>1. /\ stage = "route" /\ paths # <<>> /\ Home!Begin(from, to)
      /\ UNCHANGED <<between, from, to, seen, paths, metres>>
  BY DEF Home!RouteFound
<1>2. /\ SearchInv(from, to, seen, paths) /\ Planned
      /\ route = <<>> /\ dist = <<>> /\ queue = {} /\ metres = {}
  BY <1>1 DEF HomeInv, HomeGoes, HomeRouted
<1>3. /\ from \in Rooms /\ to \in Rooms /\ seen \subseteq Home!Ends
      /\ paths \in Seq(Seq(Home!Ends))
  BY <1>2 DEF SearchInv
<1>. DEFINE p == paths[1]
<1>4. /\ Head(paths) = p /\ Home!Last(Head(paths)) = EndOf(paths, 1)
      /\ Path(from, seen, p) /\ \A y, w : Way(w, from, y) /\ Len(w) <= Len(p) => y \in seen
  BY <1>1, <1>2, FirstPath
<1>5. to \in Home!Neighbours(p[Len(p)]) /\ to \notin seen /\ route' = Append(p, to)
  BY <1>4 DEF Home!RouteFound, EndOf
<1>. HIDE DEF p
<1>6. /\ Append(p, to) \in Seq(Home!Ends) /\ Len(Append(p, to)) = Len(p) + 1
      /\ Append(p, to)[Len(p) + 1] = to /\ Path(from, seen \cup {to}, Append(p, to))
  <2>1. \A y, w : Way(w, from, y) /\ Len(w) <= Len(p) => y \in seen
    BY <1>4
  <2>2. Path(from, seen, p) /\ to \in Home!Neighbours(p[Len(p)]) /\ to \notin seen
    BY <1>4, <1>5
  <2>3. Planned /\ seen \subseteq Home!Ends
    BY <1>2, <1>3
  <2>. QED
    BY <2>1, <2>2, <2>3, PathExtends
<1>7. RouteRight(from, to, route')
  <2>1. seen \cup {to} \subseteq Home!Ends
    BY <1>3 DEF Home!Ends
  <2>2. Path(from, Home!Ends, Append(p, to))
    BY <1>6, <2>1, PathStays
  <2>3. Append(p, to)[Len(Append(p, to))] = to
    BY <1>6
  <2>. QED
    BY <1>3, <1>5, <2>2, <2>3 DEF RouteRight
<1>8. stage' = "walk" /\ DistInv(from, dist', queue')
  BY <1>1, <1>2, <1>3, WalkBegins, HomeConstants
<1>9. HomeWalked(from', to', seen', paths', route', dist', queue', metres')
  BY <1>1, <1>2, <1>3, <1>7, <1>8 DEF HomeWalked
<1>. QED
  BY <1>1, <1>8, <1>9 DEF HomeGoes

LEMMA NoRouteGoes ==
    ASSUME HomeInv, Home!NoRoute
    PROVE  /\ between' = between
           /\ HomeGoes(from', to', stage', seen', paths', route', dist', queue', metres')
<1>1. /\ stage = "route" /\ paths = <<>> /\ stage' = "done"
      /\ UNCHANGED <<between, from, to, seen, paths, route, dist, queue, metres>>
  BY DEF Home!NoRoute
<1>2. /\ SearchInv(from, to, seen, <<>>) /\ Planned
      /\ route = <<>> /\ dist = <<>> /\ queue = {} /\ metres = {}
  BY <1>1 DEF HomeInv, HomeGoes, HomeRouted
<1>3. from \in Rooms /\ to \in Rooms /\ seen \subseteq Home!Ends
  BY <1>2 DEF SearchInv
<1>4. Known => ~Home!Connected
  BY <1>2, NoRouteApart
<1>5. Walked(from, to, <<>>, {})
  BY <1>3, <1>4, HomeConstants DEF Walked
<1>6. HomeDone(from', to', seen', paths', route', dist', queue', metres')
  BY <1>1, <1>2, <1>3, <1>5, NothingSeen DEF HomeDone
<1>. QED
  BY <1>1, <1>6 DEF HomeGoes

LEMMA PopGoes ==
    ASSUME HomeInv, NEW d, NEW u, Home!Pop(d, u)
    PROVE  /\ between' = between
           /\ HomeGoes(from', to', stage', seen', paths', route', dist', queue', metres')
<1>1. /\ stage = "walk" /\ <<d, u>> \in queue
      /\ UNCHANGED <<between, from, to, stage, seen, paths, route, metres>>
  BY DEF Home!Pop
<1>2. Planned /\ HomeWalked(from, to, seen, paths, route, dist, queue, metres)
  BY <1>1 DEF HomeInv, HomeGoes
<1>3. DistInv(from, dist, queue)
  BY <1>2 DEF HomeWalked
<1>4. DistInv(from, dist', queue')
  <2>1. CASE d > dist[u]
    <3>1. dist' = dist /\ queue' = queue \ {<<d, u>>}
      BY <2>1 DEF Home!Pop
    <3>. QED
      BY <1>1, <1>2, <1>3, <2>1, <3>1, SkipKeeps
  <2>2. CASE ~(d > dist[u])
    <3>1. dist' = Nearer(dist, d, u) /\ queue' = Pushed(dist, queue, d, u)
      BY <2>2 DEF Home!Pop, Nearer, Pushed, Closer
    <3>. QED
      BY <1>1, <1>2, <1>3, <2>2, <3>1, PopKeeps
  <2>. QED
    BY <2>1, <2>2
<1>5. HomeWalked(from', to', seen', paths', route', dist', queue', metres')
  BY <1>1, <1>2, <1>4 DEF HomeWalked
<1>. QED
  BY <1>1, <1>5 DEF HomeGoes

LEMMA ArriveGoes ==
    ASSUME HomeInv, Home!Arrive
    PROVE  /\ between' = between
           /\ HomeGoes(from', to', stage', seen', paths', route', dist', queue', metres')
<1>. DEFINE met == Home!NodesFor(to) \cap DOMAIN dist
            m == IF met = {} THEN {} ELSE {Home!Min({dist[x] : x \in met})}
<1>1. /\ stage = "walk" /\ queue = {} /\ stage' = "done"
      /\ UNCHANGED <<between, from, to, seen, paths, route, dist, queue>>
  BY DEF Home!Arrive
<1>2. metres' = m
  BY DEF Home!Arrive
<1>3. Planned /\ HomeWalked(from, to, seen, paths, route, dist, {}, metres)
  BY <1>1 DEF HomeInv, HomeGoes
<1>4. /\ seen \subseteq Home!Ends /\ paths \in Seq(Seq(Home!Ends)) /\ DistInv(from, dist, {})
      /\ (to = Outdoors /\ route = <<>>) \/ RouteRight(from, to, route)
  BY <1>3 DEF HomeWalked
<1>5. from \in Rooms /\ DOMAIN dist \subseteq Rooms \cup Doors /\ \A v \in DOMAIN dist : dist[v] \in Nat
  BY <1>4 DEF DistInv
<1>6. to \in Rooms \cup {Outdoors}
  BY <1>4 DEF RouteRight
<1>7. Measured(from, to, m)
  <2>1. Planned /\ DistInv(from, dist, {})
    BY <1>3, <1>4
  <2>2. met = Home!NodesFor(to) \cap DOMAIN dist
    OBVIOUS
  <2>3. m = IF met = {} THEN {} ELSE {Home!Min({dist[x] : x \in met})}
    OBVIOUS
  <2>. HIDE DEF met, m
  <2>. QED
    BY <1>6, <2>1, <2>2, <2>3, MeasuredRight
<1>8. m \subseteq Nat
  <2>. DEFINE A == {dist[x] : x \in met}
  <2>1. A \in SUBSET Nat
    BY <1>5
  <2>2. met # {} => A # {}
    OBVIOUS
  <2>3. met # {} => Home!Min(A) \in Nat
    BY <2>1, <2>2, LeastIs
  <2>. QED
    BY <2>3
<1>9. to = Outdoors /\ Home!Reaches(from, Outdoors) => m # {}
  BY <1>4, ReachedIsMeasured
<1>10. to # Outdoors => route # <<>>
  <2>. SUFFICES ASSUME to # Outdoors PROVE route # <<>>
    OBVIOUS
  <2>1. route \in Seq(Home!Ends) /\ Len(route) > 0
    BY <1>4 DEF RouteRight, Path
  <2>. QED
    BY <2>1
<1>. HIDE DEF m
<1>11. Walked(from, to, route, m)
  BY <1>4, <1>7, <1>9, <1>10 DEF Walked
<1>12. HomeDone(from', to', seen', paths', route', dist', queue', metres')
  BY <1>1, <1>2, <1>4, <1>5, <1>6, <1>8, <1>11 DEF HomeDone
<1>. QED
  BY <1>1, <1>12 DEF HomeGoes

\* What is said of a plan stays so while the plan does.
LEMMA PlanStays ==
    ASSUME between' = between,
           HomeGoes(from', to', stage', seen', paths', route', dist', queue', metres'), Planned
    PROVE  HomeInv'
<1>1. (SearchInv(from, to, seen, paths))' <=> SearchInv(from', to', seen', paths')
  BY DEF SearchInv, EndOf, Path, Home!Neighbours, Home!AdjacencyEdges, Way, Edge
<1>2. (DistInv(from, dist, queue))' <=> DistInv(from', dist', queue')
  BY DEF DistInv, Reached, Way, Edge, Home!Cost, Home!Step, Relaxed, Home!Links, Home!Linked,
         Home!Weight
<1>3. (RouteRight(from, to, route))' <=> RouteRight(from', to', route')
  BY DEF RouteRight, Path, Home!Neighbours, Home!AdjacencyEdges, Way, Edge
<1>4. (Measured(from, to, metres))' <=> Measured(from', to', metres')
  BY DEF Measured, Home!Lengths, Home!Ways, Home!Cost, Home!Step, Home!NodesFor
<1>5. Known' <=> Known
  BY DEF Known
<1>6. Home!Connected' <=> Home!Connected
  BY DEF Home!Connected, Home!Closure, Home!Neighbours, Home!AdjacencyEdges
<1>7. Home!HasEntrance' <=> Home!HasEntrance
  BY DEF Home!HasEntrance, Home!NodesFor
<1>8. (Home!Reaches(from, Outdoors))' <=> Home!Reaches(from', Outdoors)
  BY DEF Home!Reaches, Home!Closure, Home!NodesFor, Home!Links, Home!Linked
<1>9. (Walked(from, to, route, metres))' <=> Walked(from', to', route', metres')
  BY <1>3, <1>4, <1>5, <1>6, <1>7, <1>8 DEF Walked
<1>10. Planned'
  BY DEF Planned
<1>11. (HomeGoes(from, to, stage, seen, paths, route, dist, queue, metres))'
  BY <1>1, <1>2, <1>3, <1>9 DEF HomeGoes, HomeIdle, HomeRouted, HomeWalked, HomeDone
<1>. QED
  BY <1>10, <1>11 DEF HomeInv

LEMMA StutterHome ==
    ASSUME HomeInv, UNCHANGED mapVars
    PROVE  HomeInv'
<1>1. /\ between' = between
      /\ HomeGoes(from', to', stage', seen', paths', route', dist', queue', metres')
  BY DEF HomeInv, mapVars
<1>. QED
  BY <1>1, PlanStays DEF HomeInv

LEMMA NextOfHome ==
    ASSUME HomeInv, Home!Next
    PROVE  HomeInv'
<1>. DEFINE G == /\ between' = between
                 /\ HomeGoes(from', to', stage', seen', paths', route', dist', queue', metres')
<1>1. ASSUME NEW a \in Rooms, NEW b \in Rooms, Home!MoveRoom(a, b) PROVE G
  BY <1>1, MoveRoomGoes
<1>2. ASSUME NEW a \in Rooms, Home!DistToEntrance(a) PROVE G
  BY <1>2, DistToEntranceGoes
<1>3. ASSUME NEW e \in queue, Home!Pop(e[1], e[2]) PROVE G
  BY <1>3, PopGoes
<1>4. G
  BY <1>1, <1>2, <1>3, ExtendGoes, RouteFoundGoes, NoRouteGoes, ArriveGoes DEF Home!Next
<1>. QED
  BY <1>4, PlanStays DEF HomeInv

LEMMA HomeIsTyped == ASSUME HomeInv PROVE Home!TypeOK
<1>1. between \in [Doors -> SUBSET Home!Ends] /\ Written \subseteq SUBSET Home!Ends
  BY HomeConstants DEF HomeInv, Planned
<1>2. stage \in {"idle", "route", "walk", "done"}
  BY DEF HomeInv, HomeGoes
<1>. DEFINE R == /\ {from, to} \subseteq Rooms \cup {Outdoors, Home!Absent}
                 /\ seen \subseteq Home!Ends /\ route \in Seq(Home!Ends)
                 /\ paths \in Seq(Seq(Home!Ends))
                 /\ DOMAIN dist \subseteq Rooms \cup Doors
                 /\ \A e \in queue : e[1] \in Nat /\ e[2] \in DOMAIN dist
                 /\ metres \subseteq Nat
<1>3. <<>> \in Seq(Home!Ends) /\ <<>> \in Seq(Seq(Home!Ends)) /\ DOMAIN <<>> = {}
  BY EmptySeq
<1>4. ASSUME HomeIdle(from, to, seen, paths, route, dist, queue, metres) PROVE R
  BY <1>3, <1>4 DEF HomeIdle
<1>5. ASSUME HomeRouted(from, to, seen, paths, route, dist, queue, metres) PROVE R
  <2>1. SearchInv(from, to, seen, paths) /\ route = <<>> /\ dist = <<>> /\ queue = {} /\ metres = {}
    BY <1>5 DEF HomeRouted
  <2>2. from \in Rooms /\ to \in Rooms /\ seen \subseteq Home!Ends /\ paths \in Seq(Seq(Home!Ends))
    BY <2>1 DEF SearchInv
  <2>. QED
    BY <1>3, <2>1, <2>2
<1>6. ASSUME HomeWalked(from, to, seen, paths, route, dist, queue, metres) PROVE R
  <2>1. /\ seen \subseteq Home!Ends /\ paths \in Seq(Seq(Home!Ends)) /\ metres = {}
        /\ DistInv(from, dist, queue)
        /\ (to = Outdoors /\ route = <<>>) \/ RouteRight(from, to, route)
    BY <1>6 DEF HomeWalked
  <2>2. /\ from \in Rooms /\ DOMAIN dist \subseteq Rooms \cup Doors
        /\ \A e \in queue : e[1] \in Nat /\ e[2] \in DOMAIN dist
    BY <2>1 DEF DistInv
  <2>3. to \in Rooms \cup {Outdoors} /\ route \in Seq(Home!Ends)
    BY <1>3, <2>1 DEF RouteRight, Path
  <2>. QED
    BY <2>1, <2>2, <2>3
<1>7. ASSUME HomeDone(from, to, seen, paths, route, dist, queue, metres) PROVE R
  <2>1. /\ from \in Rooms /\ to \in Rooms \cup {Outdoors}
        /\ seen \subseteq Home!Ends /\ paths \in Seq(Seq(Home!Ends)) /\ metres \subseteq Nat
        /\ DOMAIN dist \subseteq Rooms \cup Doors /\ queue = {}
        /\ route = <<>> \/ RouteRight(from, to, route)
    BY <1>7 DEF HomeDone, Walked
  <2>2. route \in Seq(Home!Ends)
    BY <1>3, <2>1 DEF RouteRight, Path
  <2>. QED
    BY <2>1, <2>2
<1>8. R
  BY <1>4, <1>5, <1>6, <1>7 DEF HomeInv, HomeGoes
<1>9. \A i \in DOMAIN paths : paths[i] \in Seq(Home!Ends)
  BY <1>8, ElementOfSeq, LenProperties
<1>. QED
  BY <1>1, <1>2, <1>8, <1>9 DEF Home!TypeOK

LEMMA RoutesAreRight == ASSUME HomeInv PROVE Home!RouteIsShortest
<1>. SUFFICES ASSUME route # <<>>
              PROVE  /\ route[1] = from /\ Home!Last(route) = to
                     /\ \A i \in 1..(Len(route) - 1) : route[i + 1] \in Home!Neighbours(route[i])
                     /\ "unknown" \notin Home!Issues =>
                            /\ route \in Home!Ways(from, to)
                            /\ \A w \in Home!Ways(from, to) : Len(route) <= Len(w)
  BY DEF Home!RouteIsShortest
<1>1. RouteRight(from, to, route) /\ from \in Rooms /\ Planned
  <2>1. CASE HomeWalked(from, to, seen, paths, route, dist, queue, metres)
    BY <2>1 DEF HomeWalked, DistInv, HomeInv
  <2>2. CASE HomeDone(from, to, seen, paths, route, dist, queue, metres)
    BY <2>2 DEF HomeDone, Walked, HomeInv
  <2>. QED
    BY <2>1, <2>2 DEF HomeInv, HomeGoes, HomeIdle, HomeRouted
<1>2. Path(from, Home!Ends, route) /\ route[Len(route)] = to
  BY <1>1 DEF RouteRight
<1>3. /\ route[1] = from /\ \A w : Way(w, from, to) => Len(route) <= Len(w)
      /\ \A i \in 1..(Len(route) - 1) : route[i + 1] \in Home!Neighbours(route[i])
  BY <1>2 DEF Path
<1>4. Home!Last(route) = to
  BY <1>2 DEF Home!Last
<1>5. ASSUME "unknown" \notin Home!Issues PROVE Way(route, from, to)
  <2>1. Known
    BY <1>5 DEF Home!Issues, Known
  <2>. QED
    BY <1>1, <1>2, <2>1, KnownPath
<1>. QED
  BY <1>3, <1>4, <1>5, WaysAre

LEMMA LengthsAreRight == ASSUME HomeInv PROVE Home!WalkIsShortest
<1>. SUFFICES ASSUME stage = "done", to = Outdoors \/ route # <<>> PROVE Measured(from, to, metres)
  BY DEF Home!WalkIsShortest, Measured
<1>. QED
  BY DEF HomeInv, HomeGoes, HomeDone, Walked

LEMMA ValidPlansAreWalkable == ASSUME HomeInv PROVE Home!ValidIsWalkable
<1>. SUFFICES ASSUME stage = "done", Home!Issues = {}
              PROVE  /\ to # Outdoors => route # <<>>
                     /\ metres = {} => to = Outdoors /\ ~Home!HasEntrance
  BY DEF Home!ValidIsWalkable
<1>1. /\ from \in Rooms /\ to \in Rooms \cup {Outdoors} /\ Planned
      /\ Walked(from, to, route, metres)
  BY DEF HomeInv, HomeGoes, HomeDone
<1>2. "unknown" \notin Home!Issues /\ "apart" \notin Home!Issues /\ "gate" \notin Home!Issues
  OBVIOUS
<1>3. Known
  BY <1>2 DEF Home!Issues, Known
<1>4. Home!Connected
  BY <1>2 DEF Home!Issues
<1>5. Home!HasEntrance => Home!Reaches(from, Outdoors)
  BY <1>1, <1>2 DEF Home!Issues
<1>6. to # Outdoors => route # <<>>
  BY <1>1, <1>3, <1>4 DEF Walked
<1>7. ASSUME metres = {} PROVE to = Outdoors
  <2>. SUFFICES ASSUME to # Outdoors PROVE FALSE
    OBVIOUS
  <2>1. /\ route # <<>> /\ Path(from, Home!Ends, route) /\ route[Len(route)] = to
        /\ Measured(from, to, {})
    BY <1>1, <1>6, <1>7 DEF Walked, RouteRight
  <2>2. Way(route, from, to)
    BY <1>1, <1>3, <2>1, KnownPath
  <2>3. to \in Rooms
    BY <1>1
  <2>4. Home!Cost(route) \in Home!Lengths(from, to)
    BY <1>1, <2>2, <2>3, LengthsOfWays
  <2>. QED
    BY <2>1, <2>4 DEF Measured
<1>8. ASSUME metres = {} PROVE ~Home!HasEntrance
  BY <1>1, <1>5, <1>7, <1>8 DEF Walked
<1>. QED
  BY <1>6, <1>7, <1>8

LEMMA HomeMeans == ASSUME HomeInv PROVE Home!TypeOK /\ Home!WaysAreRight
BY HomeIsTyped, RoutesAreRight, LengthsAreRight, ValidPlansAreWalkable DEF Home!WaysAreRight

-----------------------------------------------------------------------------
(* The composition *)

\* The component in focus keeps what its steps rely on.
InnerInv ==
    /\ focus = "answers" => AnswersInv
    /\ focus = "feelings" => FeelInv /\ FeelBounded
    /\ focus = "mind" => WillInv /\ AimsTyped
    /\ focus = "console" => ConsoleInv /\ ConsoleBounded
    /\ focus = "map" => HomeInv
    /\ focus = "around" => AroundInv
    /\ focus = "week" => WeekInv

LEMMA InnerStarts == Init => InnerInv
BY AnswersStart, FeelingsStart, FeelBoundedStarts, WillStarts, AimsStart, ConsoleStarts,
   BoundedStarts, HomeStarts, AroundStarts, WeekStarts
   DEF Init, InnerInv

LEMMA InnerSteps == InnerInv /\ [Next]_vars => InnerInv'
<1>. SUFFICES ASSUME InnerInv, [Next]_vars PROVE InnerInv'
  OBVIOUS
<1>1. CASE NextAnswers
  <2>1. focus = "answers" /\ focus' = "answers" /\ Answers!Next
    BY <1>1 DEF NextAnswers
  <2>2. AnswersInv'
    BY <2>1, NextAnswer DEF InnerInv
  <2>. QED
    BY <2>1, <2>2 DEF InnerInv
<1>2. CASE NextFeelings
  <2>1. focus = "feelings" /\ focus' = "feelings" /\ Moods!Next
    BY <1>2 DEF NextFeelings
  <2>2. FeelInv' /\ FeelBounded'
    BY <2>1, NextOfFeelings, NextFeelBounded DEF InnerInv
  <2>. QED
    BY <2>1, <2>2 DEF InnerInv
<1>3. CASE NextMind
  <2>1. focus = "mind" /\ focus' = "mind" /\ Will!Next
    BY <1>3 DEF NextMind
  <2>2. WillInv' /\ AimsTyped'
    BY <2>1, NextWill, NextAims DEF InnerInv
  <2>. QED
    BY <2>1, <2>2 DEF InnerInv
<1>4. CASE NextConsole
  <2>1. focus = "console" /\ focus' = "console" /\ Console!Next
    BY <1>4 DEF NextConsole
  <2>2. ConsoleInv' /\ ConsoleBounded'
    BY <2>1, NextOfConsole, NextBounded DEF InnerInv
  <2>. QED
    BY <2>1, <2>2 DEF InnerInv
<1>5. CASE NextMap
  <2>1. focus = "map" /\ focus' = "map" /\ Home!Next
    BY <1>5 DEF NextMap
  <2>2. HomeInv'
    BY <2>1, NextOfHome DEF InnerInv
  <2>. QED
    BY <2>1, <2>2 DEF InnerInv
<1>7. CASE NextAround
  <2>1. focus = "around" /\ focus' = "around" /\ Around!Next
    BY <1>7 DEF NextAround
  <2>2. AroundInv'
    BY <2>1, NextAroundHer DEF InnerInv
  <2>. QED
    BY <2>1, <2>2 DEF InnerInv
<1>8. CASE NextWeek
  <2>1. focus = "week" /\ focus' = "week" /\ Plans!Next
    BY <1>8 DEF NextWeek
  <2>2. WeekInv'
    BY <2>1, NextOfWeek DEF InnerInv
  <2>. QED
    BY <2>1, <2>2 DEF InnerInv
<1>6. CASE UNCHANGED vars
  <2>1. focus' = focus /\ UNCHANGED answerVars /\ UNCHANGED <<now, feelingVars>>
        /\ UNCHANGED <<now, turns, feelingVars>> /\ UNCHANGED mindVars
        /\ UNCHANGED <<now, mindVars>> /\ UNCHANGED consoleVars /\ UNCHANGED mapVars
        /\ UNCHANGED aroundVars /\ UNCHANGED weekVars
    BY <1>6 DEF vars
  <2>2. AnswersInv => AnswersInv'
    BY <2>1, StutterAnswers
  <2>3. (FeelInv => FeelInv') /\ (FeelBounded => FeelBounded')
    BY <2>1, StutterFeelings, StutterFeelBounded
  <2>4. (WillInv => WillInv') /\ (AimsTyped => AimsTyped')
    BY <2>1, StutterWill, StutterAims
  <2>5. (ConsoleInv => ConsoleInv') /\ (ConsoleBounded => ConsoleBounded')
    BY <2>1, StutterConsole, StutterBounded
  <2>6. HomeInv => HomeInv'
    BY <2>1, StutterHome
  <2>7. AroundInv => AroundInv'
    BY <2>1, StutterAround
  <2>8. WeekInv => WeekInv'
    BY <2>1, StutterWeek
  <2>. QED
    BY <2>1, <2>2, <2>3, <2>4, <2>5, <2>6, <2>7, <2>8 DEF InnerInv
<1>. QED
  BY <1>1, <1>2, <1>3, <1>4, <1>5, <1>6, <1>7, <1>8 DEF Next

\* The state of each component has its types, for any bounds: the habits are of texts that were
\* answered, the mistakes of a chat no more than were made and apologized for no oftener than he
\* wrote, the history of the console no longer than it is kept and its tasks no more than may run
\* at once (_habit_upsert, mistake.py, emotion.py, append_history, webtask.py).
THEOREM InnerLifeIsTyped == Spec => []TypeOK
<1>1. InnerInv => TypeOK
  BY AnswersMean, FeelBoundedMeans, WillMeans, BoundedMeans, HomeMeans, AroundMeans, WeekMeans
  DEF InnerInv, TypeOK
<1>. QED
  BY <1>1, InnerStarts, InnerSteps, PTL DEF Spec

\* What she says, intends and feels is about the one she shows it to: an answer claims
\* what the memory held, an intention is the last one of its chat, the mood, its tone, the
\* mistakes noted and a return are his, whatever messages overlap, for any number of
\* messages, chats and threads (ask, _save_intention, emotion.py, mistake.py,
\* relationship.py).
THEOREM MindHoldsAlways == Spec => []MindHolds
<1>1. InnerInv => MindHolds
  BY AnswersMean, WillMeans, FeelingsMean DEF InnerInv, MindHolds
<1>. QED
  BY <1>1, InnerStarts, InnerSteps, PTL DEF Spec

\* For any plan and lengths of the doors, any week and any clock: the rooms she passes and the
\* length of a walk are those of a shortest way, a valid plan has a way everywhere, what she is
\* shown of her surroundings is what was so within its lifetime, and a week keeps to its rules
\* (floorplan.py, space.py, environment.py, schedule.py).
THEOREM SurroundingsStayRight == Spec => []SurroundingsAreRight
<1>1. InnerInv => SurroundingsAreRight
  BY HomeMeans, AroundMeans, WeekMeans DEF InnerInv, SurroundingsAreRight
<1>. QED
  BY <1>1, InnerStarts, InnerSteps, PTL DEF Spec

\* However many evaluations and ablations run in the console, an ablation that met no
\* other, no switch of the operator and no error leaves the configuration he chose, and
\* the history has every evaluation once, in order unless two wrote at the same time
\* (run_ablation, run_task, apply_switch).
THEOREM ConsoleAlwaysPutsBack == Spec => []ConsolePutsBack
<1>1. InnerInv => ConsolePutsBack
  BY ConsoleMeans DEF InnerInv, ConsolePutsBack
<1>. QED
  BY <1>1, InnerStarts, InnerSteps, PTL DEF Spec
===============================================================================
