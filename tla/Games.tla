--------------------------------- MODULE Games ---------------------------------
(***************************************************************************)
(* The two games of a chat (plugins/games.py): the chain of idioms, each   *)
(* of which starts with the last character of the one before, and the      *)
(* quiz. The game of a chat is a dict in the process. Everything runs in   *)
(* the event loop without an await: a message is one step.                 *)
(*                                                                         *)
(* An idiom is its first and its last character.                           *)
(***************************************************************************)
EXTENDS Naturals, FiniteSets

CONSTANTS
    Chars,     \* characters
    Letters,   \* letters of answers
    QuizSize,  \* questions
    MaxPoints  \* bound: points scored

VARIABLES
    idioms,  \* IDIOMS: the built-in ones and those of data/idioms.txt
    quiz,    \* QUIZ: the answer of each question
    game,    \* _games of the chat
    points   \* points scored, per game

vars == <<idioms, quiz, game, points>>

\* There is a question.
GamesAssumption == QuizSize \in Nat \ {0} /\ MaxPoints \in Nat

Words == Chars \X Chars
First(w) == w[1]
Final(w) == w[2]
NoGame == [type |-> "none", active |-> FALSE]
Idiom(last) == [type |-> "idiom", active |-> TRUE, last |-> last]
Question(i, answer) == [type |-> "quiz", active |-> TRUE, qindex |-> i, answer |-> answer]
Over(type) == [type |-> type, active |-> FALSE]

\* _build_index: the idioms that go on from a word, but for itself.
Follow(w) == {x \in idioms : First(x) = Final(w)} \ {w}

Init ==
    /\ idioms \in SUBSET Words \ {{}}
    /\ quiz \in [1..QuizSize -> Letters]
    /\ game = NoGame
    /\ points = [g \in {"idiom", "quiz"} |-> 0]

Playing(type) == game.type = type /\ game.active
Score(type) ==
    /\ points[type] < MaxPoints
    /\ points' = [points EXCEPT ![type] = @ + 1]

-----------------------------------------------------------------------------
(* The chain of idioms *)

\* start_idiom: a word from which another goes on; without one, random.choice
\* raises and nothing changes. A game under way, of either kind, is replaced.
StartIdiom ==
    /\ \E w \in idioms : Follow(w) # {} /\ game' = Idiom(Final(w))
    /\ UNCHANGED <<idioms, quiz, points>>

\* Seeded fault: dead ends are not left out.
BotWordsAll(w) == Follow(w)

\* _best_bot_word: of the words that go on and from which another goes on, one
\* with the most of them.
BotWords(w) ==
    LET alive == {x \in Follow(w) : Follow(x) # {}}
    IN {x \in alive : \A y \in alive : Cardinality(Follow(y)) <= Cardinality(Follow(x))}

\* idiom_guess: a word that goes on, which need not be a new one.
GuessIdiom(w) ==
    /\ Playing("idiom")
    /\ w \in idioms /\ First(w) = game.last
    /\ Score("idiom")
    /\ IF BotWords(w) = {} THEN game' = [game EXCEPT !.active = FALSE]
       ELSE \E x \in BotWords(w) : game' = [game EXCEPT !.last = Final(x)]
    /\ UNCHANGED <<idioms, quiz>>

-----------------------------------------------------------------------------
(* The quiz *)

StartQuiz ==
    /\ game' = Question(1, quiz[1])
    /\ UNCHANGED <<idioms, quiz, points>>

\* quiz_guess: the answer, by its letter.
GuessQuiz(letter) ==
    /\ Playing("quiz")
    /\ letter = game.answer
    /\ Score("quiz")
    /\ game' = IF game.qindex = QuizSize THEN [game EXCEPT !.qindex = @ + 1, !.active = FALSE]
               ELSE Question(game.qindex + 1, quiz[game.qindex + 1])
    /\ UNCHANGED <<idioms, quiz>>

-----------------------------------------------------------------------------
\* A word that ends the game under way.
Quit ==
    /\ game.active
    /\ game' = [game EXCEPT !.active = FALSE]
    /\ UNCHANGED <<idioms, quiz, points>>

\* /成语 and /答题 with a word that ends: whichever game is under way is over.
Stop(type) ==
    /\ game' = Over(type)
    /\ UNCHANGED <<idioms, quiz, points>>

\* The process restarts: the games are gone, the points are not.
Restart ==
    /\ game' = NoGame
    /\ UNCHANGED <<idioms, quiz, points>>

Next ==
    \/ StartIdiom \/ StartQuiz
    \/ \E w \in Words : GuessIdiom(w)
    \/ \E l \in Letters : GuessQuiz(l)
    \/ Quit \/ Stop("idiom") \/ Stop("quiz")
    \/ Restart

Spec == Init /\ [][Next]_vars

-----------------------------------------------------------------------------
TypeOK ==
    /\ idioms \subseteq Words
    /\ quiz \in [1..QuizSize -> Letters]
    /\ game.type \in {"none", "idiom", "quiz"} /\ game.active \in BOOLEAN
    /\ points \in [{"idiom", "quiz"} -> 0..MaxPoints]

\* The game under way can go on, after any answers, with any list of idioms: the
\* user always has an idiom with which to answer, and the quiz waits for the
\* answer to a question that there is (start_idiom, _best_bot_word, quiz_guess).
GameCanGoOn ==
    /\ Playing("idiom") => \E w \in idioms : First(w) = game.last
    /\ Playing("quiz") => game.qindex \in 1..QuizSize /\ game.answer = quiz[game.qindex]
===============================================================================
