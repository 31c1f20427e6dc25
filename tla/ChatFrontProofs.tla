--------------------------- MODULE ChatFrontProofs ---------------------------
(* Proofs about ChatFront, for every set of chats and messages and every     *)
(* value of the bounds.                                                      *)
EXTENDS ChatFront, TLAPS, SequenceTheorems, FiniteSetTheorems

\* What every proof may use of the constants.
LEMMA ConstantTypes ==
    /\ ChatOf \in [Messages -> Chats]
    /\ NoMsg \notin Messages
    /\ HistoryCap \in Nat \ {0}
    /\ AskWindow \in Nat
    /\ MaxChunks \in Nat
    /\ MaxRestarts \in Nat
  BY ChatOfAssumption, NoMsgAssumption, CapAssumption, BoundAssumption

\* The last n entries of a list are entries of the list.
LEMMA LastNType ==
  ASSUME NEW S, NEW s \in Seq(S), NEW n \in Nat
  PROVE  LastN(s, n) \in Seq(S)
  BY SubSeqProperties DEF LastN

\* push_history keeps a list of entries a list of entries.
LEMMA PushTurnType ==
  ASSUME NEW h \in Seq(Entry), NEW m \in Messages
  PROVE  PushTurn(h, m) \in Seq(Entry)
<1>1. \A e \in Entry, g \in Seq(Entry) : Push(g, e) \in Seq(Entry)
  BY LastNType, ConstantTypes, AppendProperties DEF Push
<1>2. /\ [role |-> "user", msg |-> m] \in Entry
      /\ [role |-> "assistant", msg |-> m] \in Entry
  BY DEF Entry
<1> QED
  BY <1>1, <1>2 DEF PushTurn

-----------------------------------------------------------------------------
(* Type correctness *)

LEMMA InitTypeOK == Init => TypeOK
  BY ConstantTypes DEF Init, TypeOK, Phases, Entry

LEMMA ReleaseType ==
  ASSUME TypeOK, NEW m \in Messages, NEW after \in Phases, Release(m, after)
  PROVE  /\ pc' \in [Messages -> Phases]
         /\ busy' \in SUBSET Chats
         /\ pending' \in [Chats -> Messages \cup {NoMsg}]
         /\ rerun' \in SUBSET Messages
  BY ConstantTypes DEF TypeOK, Release, Phases

LEMMA ChatType ==
  ASSUME TypeOK, NEW m \in Messages, Chat(m)
  PROVE  TypeOK'
<1>1. CASE Park(m)
  BY <1>1, ConstantTypes DEF TypeOK, Chat, Park, Phases
<1>2. CASE Acquire(m)
  <2>1. LastN(history[ChatOf[m]], AskWindow) \in Seq(Entry)
    BY LastNType, ConstantTypes DEF TypeOK
  <2>2. window' \in [Messages -> Seq(Entry)]
    BY <1>2, <2>1 DEF TypeOK, Acquire
  <2>3. pc' \in [Messages -> Phases] /\ busy' \in SUBSET Chats
    BY <1>2, ConstantTypes DEF TypeOK, Acquire, Phases
  <2> QED
    BY <1>2, <2>2, <2>3 DEF TypeOK, Chat, Acquire
<1> QED
  BY <1>1, <1>2 DEF Chat

LEMMA NextTypeOK == TypeOK /\ [Next]_vars => TypeOK'
<1> SUFFICES ASSUME TypeOK, [Next]_vars
             PROVE  TypeOK'
  OBVIOUS
<1> USE ConstantTypes
<1>1. ASSUME NEW m \in Messages, Arrive(m)
      PROVE  TypeOK'
  BY <1>1 DEF TypeOK, Arrive, Phases
<1>2. ASSUME NEW m \in Messages, RouteToHandler(m)
      PROVE  TypeOK'
  BY <1>2 DEF TypeOK, RouteToHandler, Phases
<1>3. ASSUME NEW m \in Messages, RouteToChat(m) \/ StartPending(m)
      PROVE  TypeOK'
  BY <1>3, ChatType DEF RouteToChat, StartPending
<1>4. ASSUME NEW m \in Messages, AskTimeout(m)
      PROVE  TypeOK'
  <2>1. /\ pc' = [pc EXCEPT ![m] = "awaiting"] \/ pc' = [pc EXCEPT ![m] = "bridging"]
        /\ bridged' = bridged \/ bridged' = bridged \cup {ChatOf[m]}
    BY <1>4 DEF AskTimeout
  <2>2. pc' \in [Messages -> Phases]
    BY <2>1 DEF TypeOK, Phases
  <2>3. bridged' \in SUBSET Chats
    <3>1. ChatOf[m] \in Chats
      OBVIOUS
    <3> QED
      BY <2>1, <3>1 DEF TypeOK
  <2>4. UNCHANGED <<busy, pending, history, window, rerun, chunks, out,
                    learned, restarts>>
    BY <1>4 DEF AskTimeout
  <2> QED
    BY <2>2, <2>3, <2>4 DEF TypeOK
<1>5. ASSUME NEW m \in Messages, BridgeReturns(m)
      PROVE  TypeOK'
  BY <1>5 DEF TypeOK, BridgeReturns, Phases
<1>6. ASSUME NEW m \in Messages, Answer(m)
      PROVE  TypeOK'
  <2>1. PICK n \in 0..MaxChunks :
          /\ chunks' = [chunks EXCEPT ![m] = n]
          /\ Release(m, IF m \in rerun \/ n = 0 THEN "finished" ELSE "replying")
    BY <1>6 DEF Answer
  <2>2. PushTurn(history[ChatOf[m]], m) \in Seq(Entry)
    BY PushTurnType DEF TypeOK
  <2>3. history' \in [Chats -> Seq(Entry)]
    BY <1>6, <2>2 DEF Answer, TypeOK
  <2>4. /\ pc' \in [Messages -> Phases]
        /\ busy' \in SUBSET Chats
        /\ pending' \in [Chats -> Messages \cup {NoMsg}]
        /\ rerun' \in SUBSET Messages
    <3>1. (IF m \in rerun \/ n = 0 THEN "finished" ELSE "replying") \in Phases
      BY DEF Phases
    <3> QED
      BY <2>1, <3>1, ReleaseType
  <2>5. window' \in [Messages -> Seq(Entry)]
    BY <1>6 DEF Answer, TypeOK
  <2> QED
    BY <1>6, <2>1, <2>3, <2>4, <2>5 DEF Answer, TypeOK
<1>7. ASSUME NEW m \in Messages, SendChunk(m)
      PROVE  TypeOK'
  BY <1>7 DEF TypeOK, SendChunk, Phases
<1>8. ASSUME NEW c \in Chats, BridgeCooled(c)
      PROVE  TypeOK'
  BY <1>8 DEF TypeOK, BridgeCooled
<1>9. CASE Restart
  BY <1>9 DEF TypeOK, Restart, Phases
<1>10. CASE UNCHANGED vars
  BY <1>10 DEF TypeOK, vars
<1> QED
  BY <1>1, <1>2, <1>3, <1>4, <1>5, <1>6, <1>7, <1>8, <1>9, <1>10 DEF Next, Step

\* Every variable of the chat front keeps its shape in every execution.
THEOREM TypeCorrect == Spec => []TypeOK
  BY InitTypeOK, NextTypeOK, PTL DEF Spec

-----------------------------------------------------------------------------
(* One LLM call per chat, and a runner for every pending message *)

FlightInv == TypeOK /\ SingleFlight /\ PendingHasRunner

LEMMA InitFlight == Init => SingleFlight /\ PendingHasRunner
  BY ConstantTypes DEF Init, SingleFlight, PendingHasRunner, InFlight

\* A step that touches neither slot and keeps each message on its side of
\* "in flight" and of "parked" keeps both invariants.
LEMMA QuietStep ==
  ASSUME FlightInv, NEW m \in Messages, NEW ph \in Phases,
         pc' = [pc EXCEPT ![m] = ph],
         UNCHANGED <<busy, pending>>,
         pc[m] \in InFlight <=> ph \in InFlight,
         pc[m] # "parked", ph # "parked"
  PROVE  SingleFlight' /\ PendingHasRunner'
<1>1. \A n \in Messages : /\ pc'[n] \in InFlight <=> pc[n] \in InFlight
                          /\ pc'[n] = "parked" <=> pc[n] = "parked"
  BY DEF FlightInv, TypeOK
<1>2. SingleFlight'
  BY <1>1 DEF FlightInv, SingleFlight
<1>3. PendingHasRunner'
  <2>1. ASSUME NEW c \in Chats, pending[c] # NoMsg
        PROVE  pending[c] \in Messages
    BY <2>1 DEF FlightInv, TypeOK
  <2> QED
    BY <1>1, <2>1 DEF FlightInv, PendingHasRunner
<1> QED
  BY <1>2, <1>3

LEMMA ParkFlight ==
  ASSUME FlightInv, NEW m \in Messages, pc[m] \in {"routing", "queued"}, Park(m)
  PROVE  SingleFlight' /\ PendingHasRunner'
<1> DEFINE c == ChatOf[m]
<1>1. c \in Chats /\ c \in busy
  BY ConstantTypes DEF Park
<1>2. /\ busy' = busy
      /\ pending' = [pending EXCEPT ![c] = m]
      /\ pc' = [x \in Messages |->
                  IF x = m THEN "parked"
                  ELSE IF x = pending[c] THEN "displaced" ELSE pc[x]]
  BY DEF Park
<1>3. \A n \in Messages : pc'[n] \in InFlight <=> pc[n] \in InFlight
  <2>1. \A n \in Messages : n = pending[c] => pc[n] = "parked"
    BY <1>1, ConstantTypes DEF FlightInv, PendingHasRunner
  <2> QED
    BY <1>2, <2>1 DEF InFlight
<1>4. SingleFlight'
  BY <1>2, <1>3 DEF FlightInv, SingleFlight
<1>5. ASSUME NEW d \in Chats, pending'[d] # NoMsg
      PROVE  /\ d \in busy'
             /\ ChatOf[pending'[d]] = d
             /\ pc'[pending'[d]] = "parked"
  <2>1. CASE d = c
    BY <1>1, <1>2, <2>1 DEF FlightInv, TypeOK
  <2>2. CASE d # c
    <3>1. pending'[d] = pending[d] /\ pending[d] \in Messages
      BY <1>2, <1>5, <2>2 DEF FlightInv, TypeOK
    <3>2. d \in busy /\ ChatOf[pending[d]] = d /\ pc[pending[d]] = "parked"
      BY <1>5, <3>1 DEF FlightInv, PendingHasRunner
    <3>3. pending[d] # m /\ pending[d] # pending[c]
      <4>1. pending[c] # NoMsg => ChatOf[pending[c]] = c
        BY <1>1 DEF FlightInv, PendingHasRunner
      <4> QED
        BY <2>2, <3>1, <3>2, <4>1, ConstantTypes
    <3> QED
      BY <1>2, <3>1, <3>2, <3>3
  <2> QED
    BY <2>1, <2>2
<1>6. ASSUME NEW n \in Messages, pc'[n] = "parked"
      PROVE  pending'[ChatOf[n]] = n
  <2>1. CASE n = m
    BY <1>1, <1>2, <2>1 DEF FlightInv, TypeOK
  <2>2. CASE n # m
    <3>1. n # pending[c] /\ pc[n] = "parked"
      BY <1>2, <1>6, <2>2
    <3>2. pending[ChatOf[n]] = n
      BY <3>1 DEF FlightInv, PendingHasRunner
    <3>3. ChatOf[n] # c /\ ChatOf[n] \in Chats
      BY <3>1, <3>2, ConstantTypes
    <3> QED
      BY <1>2, <3>2, <3>3 DEF FlightInv, TypeOK
  <2> QED
    BY <2>1, <2>2
<1> QED
  BY <1>4, <1>5, <1>6 DEF PendingHasRunner

LEMMA AcquireFlight ==
  ASSUME FlightInv, NEW m \in Messages, pc[m] \in {"routing", "queued"}, Acquire(m)
  PROVE  SingleFlight' /\ PendingHasRunner'
<1> DEFINE c == ChatOf[m]
<1>1. /\ c \in Chats
      /\ c \notin busy
      /\ busy' = busy \cup {c}
      /\ pending' = pending
      /\ pc' = [pc EXCEPT ![m] = "asking"]
  BY ConstantTypes DEF Acquire
<1>2. \A n \in Messages : n # m => pc'[n] = pc[n]
  BY <1>1 DEF FlightInv, TypeOK
<1>3. pc'[m] = "asking"
  BY <1>1 DEF FlightInv, TypeOK
<1>4. \A n \in Messages : pc[n] \in InFlight => ChatOf[n] # c
  BY <1>1 DEF FlightInv, SingleFlight
<1>5. SingleFlight'
  <2>1. ASSUME NEW x \in Messages, NEW y \in Messages,
               pc'[x] \in InFlight, pc'[y] \in InFlight, ChatOf[x] = ChatOf[y]
        PROVE  x = y
    BY <1>2, <1>4, <2>1 DEF FlightInv, SingleFlight
  <2>2. ASSUME NEW d \in Chats
        PROVE  d \in busy' <=> \E n \in Messages : ChatOf[n] = d /\ pc'[n] \in InFlight
    <3>1. CASE d = c
      BY <1>1, <1>3, <3>1 DEF InFlight
    <3>2. CASE d # c
      BY <1>1, <1>2, <3>2 DEF FlightInv, SingleFlight
    <3> QED
      BY <3>1, <3>2
  <2> QED
    BY <2>1, <2>2 DEF SingleFlight
<1>6. PendingHasRunner'
  <2>1. \A d \in Chats : pending[d] # NoMsg => pending[d] # m
    BY DEF FlightInv, PendingHasRunner
  <2>2. \A d \in Chats : pending[d] # NoMsg => pending[d] \in Messages
    BY DEF FlightInv, TypeOK
  <2> QED
    BY <1>1, <1>2, <1>3, <2>1, <2>2 DEF FlightInv, PendingHasRunner
<1> QED
  BY <1>5, <1>6

LEMMA ReleaseFlight ==
  ASSUME FlightInv, NEW m \in Messages, pc[m] \in InFlight,
         NEW after \in {"finished", "replying"}, Release(m, after)
  PROVE  SingleFlight' /\ PendingHasRunner'
<1> DEFINE c == ChatOf[m]
<1> DEFINE p == pending[c]
<1>1. /\ c \in Chats
      /\ busy' = busy \ {c}
      /\ pending' = [pending EXCEPT ![c] = NoMsg]
      /\ pc' = [x \in Messages |->
                  IF x = m THEN after ELSE IF x = p THEN "queued" ELSE pc[x]]
  BY ConstantTypes DEF Release
<1>2. \A n \in Messages : n = p => pc[n] = "parked" /\ ChatOf[n] = c
  BY <1>1, ConstantTypes DEF FlightInv, PendingHasRunner
<1>3. \A n \in Messages : pc'[n] \in InFlight <=> n # m /\ pc[n] \in InFlight
  BY <1>1, <1>2 DEF InFlight
<1>4. \A n \in Messages : n # m /\ pc[n] \in InFlight => ChatOf[n] # c
  BY DEF FlightInv, SingleFlight
<1>5. SingleFlight'
  <2>1. ASSUME NEW x \in Messages, NEW y \in Messages,
               pc'[x] \in InFlight, pc'[y] \in InFlight, ChatOf[x] = ChatOf[y]
        PROVE  x = y
    BY <1>3, <2>1 DEF FlightInv, SingleFlight
  <2>2. ASSUME NEW d \in Chats
        PROVE  d \in busy' <=> \E n \in Messages : ChatOf[n] = d /\ pc'[n] \in InFlight
    <3>1. CASE d = c
      BY <1>1, <1>3, <1>4, <3>1
    <3>2. CASE d # c
      BY <1>1, <1>3, <3>2 DEF FlightInv, SingleFlight
    <3> QED
      BY <3>1, <3>2
  <2> QED
    BY <2>1, <2>2 DEF SingleFlight
<1>6. ASSUME NEW d \in Chats, pending'[d] # NoMsg
      PROVE  /\ d \in busy'
             /\ ChatOf[pending'[d]] = d
             /\ pc'[pending'[d]] = "parked"
  <2>1. d # c /\ pending'[d] = pending[d] /\ pending[d] \in Messages
    BY <1>1, <1>6 DEF FlightInv, TypeOK
  <2>2. d \in busy /\ ChatOf[pending[d]] = d /\ pc[pending[d]] = "parked"
    BY <1>6, <2>1 DEF FlightInv, PendingHasRunner
  <2>3. pending[d] # m /\ pending[d] # p
    BY <1>2, <2>1, <2>2 DEF InFlight
  <2> QED
    BY <1>1, <2>1, <2>2, <2>3
<1>7. ASSUME NEW n \in Messages, pc'[n] = "parked"
      PROVE  pending'[ChatOf[n]] = n
  <2>1. n # m /\ n # p /\ pc[n] = "parked"
    BY <1>1, <1>7
  <2>2. pending[ChatOf[n]] = n
    BY <2>1 DEF FlightInv, PendingHasRunner
  <2>3. ChatOf[n] # c /\ ChatOf[n] \in Chats
    BY <2>1, <2>2, ConstantTypes
  <2> QED
    BY <1>1, <2>2, <2>3 DEF FlightInv, TypeOK
<1> QED
  BY <1>5, <1>6, <1>7 DEF PendingHasRunner

LEMMA NextFlight == FlightInv /\ [Next]_vars => SingleFlight' /\ PendingHasRunner'
<1> SUFFICES ASSUME FlightInv, [Next]_vars
             PROVE  SingleFlight' /\ PendingHasRunner'
  OBVIOUS
<1>1. ASSUME NEW m \in Messages, Arrive(m)
      PROVE  SingleFlight' /\ PendingHasRunner'
  BY <1>1, QuietStep DEF Arrive, Phases, InFlight
<1>2. ASSUME NEW m \in Messages, RouteToHandler(m)
      PROVE  SingleFlight' /\ PendingHasRunner'
  <2>1. PICK ph \in {"finished", "replying"} : pc' = [pc EXCEPT ![m] = ph]
    BY <1>2 DEF RouteToHandler
  <2> QED
    BY <1>2, <2>1, QuietStep DEF RouteToHandler, Phases, InFlight
<1>3. ASSUME NEW m \in Messages, RouteToChat(m) \/ StartPending(m)
      PROVE  SingleFlight' /\ PendingHasRunner'
  BY <1>3, ParkFlight, AcquireFlight DEF RouteToChat, StartPending, Chat
<1>4. ASSUME NEW m \in Messages, AskTimeout(m)
      PROVE  SingleFlight' /\ PendingHasRunner'
  <2>1. PICK ph \in {"awaiting", "bridging"} : pc' = [pc EXCEPT ![m] = ph]
    BY <1>4 DEF AskTimeout
  <2>2. pc[m] = "asking" /\ UNCHANGED <<busy, pending>>
    BY <1>4 DEF AskTimeout
  <2> QED
    BY <2>1, <2>2, QuietStep DEF Phases, InFlight
<1>5. ASSUME NEW m \in Messages, BridgeReturns(m)
      PROVE  SingleFlight' /\ PendingHasRunner'
  BY <1>5, QuietStep DEF BridgeReturns, Phases, InFlight
<1>6. ASSUME NEW m \in Messages, Answer(m)
      PROVE  SingleFlight' /\ PendingHasRunner'
  <2>1. pc[m] \in InFlight
    BY <1>6 DEF Answer, InFlight
  <2>2. PICK after \in {"finished", "replying"} : Release(m, after)
    BY <1>6 DEF Answer
  <2> QED
    BY <2>1, <2>2, ReleaseFlight
<1>7. ASSUME NEW m \in Messages, SendChunk(m)
      PROVE  SingleFlight' /\ PendingHasRunner'
  <2>1. PICK ph \in {"finished", "replying"} : pc' = [pc EXCEPT ![m] = ph]
    BY <1>7 DEF SendChunk, FlightInv, TypeOK
  <2> QED
    BY <1>7, <2>1, QuietStep DEF SendChunk, Phases, InFlight
<1>8. ASSUME NEW c \in Chats, BridgeCooled(c)
      PROVE  SingleFlight' /\ PendingHasRunner'
  BY <1>8 DEF BridgeCooled, FlightInv, SingleFlight, PendingHasRunner
<1>9. CASE Restart
  <2>1. \A n \in Messages : pc'[n] \notin InFlight /\ pc'[n] # "parked"
    BY <1>9 DEF Restart, Terminal, InFlight
  <2> QED
    BY <1>9, <2>1 DEF Restart, SingleFlight, PendingHasRunner
<1>10. CASE UNCHANGED vars
  BY <1>10 DEF vars, FlightInv, SingleFlight, PendingHasRunner
<1> QED
  BY <1>1, <1>2, <1>3, <1>4, <1>5, <1>6, <1>7, <1>8, <1>9, <1>10 DEF Next, Step

LEMMA FlightInvariant == Spec => []FlightInv
<1>1. Init => FlightInv
  BY InitTypeOK, InitFlight DEF FlightInv
<1>2. FlightInv /\ [Next]_vars => FlightInv'
  BY NextTypeOK, NextFlight DEF FlightInv
<1> QED
  BY <1>1, <1>2, PTL DEF Spec

\* Whatever the chats, the messages and the interleaving, _chat keeps one LLM
\* call per chat and _chat_busy marks exactly the chats that have one.
THEOREM ChatSerialised == Spec => []SingleFlight
<1>1. FlightInv => SingleFlight
  BY DEF FlightInv
<1> QED
  BY <1>1, FlightInvariant, PTL

\* A pending message always has a running _chat of its chat that will take it,
\* and no parked message is outside _chat_pending.
THEOREM PendingIsServed == Spec => []PendingHasRunner
<1>1. FlightInv => PendingHasRunner
  BY DEF FlightInv
<1> QED
  BY <1>1, FlightInvariant, PTL
-----------------------------------------------------------------------------
(* The context of an answer is current *)

\* A step that leaves histories and windows alone and starts no LLM call.
LEMMA QuietWindow ==
  ASSUME WindowCurrent, UNCHANGED <<history, window>>,
         \A n \in Messages : pc'[n] \in InFlight => pc[n] \in InFlight
  PROVE  WindowCurrent'
  BY DEF WindowCurrent

LEMMA NextWindow == FlightInv /\ WindowCurrent /\ [Next]_vars => WindowCurrent'
<1> SUFFICES ASSUME FlightInv, WindowCurrent, [Next]_vars
             PROVE  WindowCurrent'
  OBVIOUS
<1>1. ASSUME NEW m \in Messages,
             Arrive(m) \/ RouteToHandler(m) \/ AskTimeout(m) \/ BridgeReturns(m)
               \/ SendChunk(m)
      PROVE  WindowCurrent'
  <2>1. UNCHANGED <<history, window>>
    BY <1>1 DEF Arrive, RouteToHandler, AskTimeout, BridgeReturns, SendChunk
  <2>2. /\ pc \in [Messages -> Phases]
        /\ \E ph \in Phases :
              /\ pc' = [pc EXCEPT ![m] = ph]
              /\ ph \in InFlight => pc[m] \in InFlight
    <3>1. pc \in [Messages -> Phases]
      BY DEF FlightInv, TypeOK
    <3>2. CASE Arrive(m)
      BY <3>1, <3>2 DEF Arrive, InFlight, Phases
    <3>3. CASE RouteToHandler(m)
      BY <3>1, <3>3 DEF RouteToHandler, InFlight, Phases
    <3>4. CASE AskTimeout(m)
      <4>1. pc[m] = "asking" /\ \E ph \in {"awaiting", "bridging"} : pc' = [pc EXCEPT ![m] = ph]
        BY <3>4 DEF AskTimeout
      <4> QED
        BY <3>1, <4>1 DEF InFlight, Phases
    <3>5. CASE BridgeReturns(m)
      BY <3>1, <3>5 DEF BridgeReturns, InFlight, Phases
    <3>6. CASE SendChunk(m)
      <4>1. \E ph \in {"finished", "replying"} : pc' = [pc EXCEPT ![m] = ph]
        BY <3>1, <3>6 DEF SendChunk
      <4> QED
        BY <3>1, <4>1 DEF InFlight, Phases
    <3> QED
      BY <1>1, <3>1, <3>2, <3>3, <3>4, <3>5, <3>6
  <2>3. \A n \in Messages : pc'[n] \in InFlight => pc[n] \in InFlight
    BY <2>2
  <2> QED
    BY <2>1, <2>3, QuietWindow
<1>2. ASSUME NEW m \in Messages, RouteToChat(m) \/ StartPending(m)
      PROVE  WindowCurrent'
  <2>1. CASE Park(m)
    <3>1. UNCHANGED <<history, window>>
      BY <1>2, <2>1 DEF RouteToChat, StartPending, Chat, Park
    <3>2. \A n \in Messages : pc'[n] \in InFlight => pc[n] \in InFlight
      BY <2>1 DEF Park, InFlight
    <3> QED
      BY <3>1, <3>2, QuietWindow
  <2>2. CASE Acquire(m)
    <3>1. /\ history' = history
          /\ window' = [window EXCEPT ![m] = LastN(history[ChatOf[m]], AskWindow)]
          /\ pc' = [pc EXCEPT ![m] = "asking"]
      BY <1>2, <2>2 DEF RouteToChat, StartPending, Chat, Acquire
    <3>2. pc \in [Messages -> Phases] /\ window \in [Messages -> Seq(Entry)]
      BY DEF FlightInv, TypeOK
    <3> QED
      BY <3>1, <3>2 DEF WindowCurrent
  <2> QED
    BY <1>2, <2>1, <2>2 DEF RouteToChat, StartPending, Chat
<1>3. ASSUME NEW m \in Messages, Answer(m)
      PROVE  WindowCurrent'
  <2>1. /\ history' = [history EXCEPT ![ChatOf[m]] = PushTurn(@, m)]
        /\ window' = [window EXCEPT ![m] = <<>>]
        /\ pc[m] \in InFlight
    BY <1>3 DEF Answer, InFlight
  <2>2. PICK after \in {"finished", "replying"} : Release(m, after)
    BY <1>3 DEF Answer
  <2>3. \A n \in Messages : pc'[n] \in InFlight => n # m /\ pc[n] \in InFlight
    BY <2>2 DEF Release, InFlight
  <2>4. \A n \in Messages : n # m /\ pc[n] \in InFlight => ChatOf[n] # ChatOf[m]
    BY <2>1 DEF FlightInv, SingleFlight
  <2>5. /\ window \in [Messages -> Seq(Entry)]
        /\ history \in [Chats -> Seq(Entry)]
        /\ \A n \in Messages : ChatOf[n] \in Chats
    BY ConstantTypes DEF FlightInv, TypeOK
  <2>6. ASSUME NEW n \in Messages, pc'[n] \in InFlight
        PROVE  window'[n] = window[n] /\ history'[ChatOf[n]] = history[ChatOf[n]]
    BY <2>1, <2>3, <2>4, <2>5, <2>6
  <2> QED
    BY <2>3, <2>6 DEF WindowCurrent
<1>4. ASSUME NEW c \in Chats, BridgeCooled(c)
      PROVE  WindowCurrent'
  BY <1>4 DEF BridgeCooled, WindowCurrent
<1>5. CASE Restart
  <2>1. \A n \in Messages : pc'[n] \notin InFlight
    BY <1>5 DEF Restart, Terminal, InFlight
  <2> QED
    BY <2>1 DEF WindowCurrent
<1>6. CASE UNCHANGED vars
  BY <1>6 DEF vars, WindowCurrent
<1> QED
  BY <1>1, <1>2, <1>3, <1>4, <1>5, <1>6 DEF Next, Step

\* The recent history an answer was generated from is still the recent history
\* when the answer is recorded.
THEOREM ContextIsCurrent == Spec => []WindowCurrent
<1>1. Init => WindowCurrent
  BY DEF Init, WindowCurrent, InFlight
<1>2. FlightInv /\ FlightInv' /\ WindowCurrent /\ [Next]_vars => WindowCurrent'
  BY NextWindow
<1> QED
  BY <1>1, <1>2, FlightInvariant, PTL DEF Spec
-----------------------------------------------------------------------------
(* The history is a list of whole turns *)

\* The history of a chat after push_history has recorded a turn of m: what is
\* left of h after its first k entries, and the two sides of the turn.
TurnPushed(g, h, m, k) ==
    /\ Len(g) = Len(h) + 2 - k
    /\ \A i \in 1..(Len(h) - k) : g[i] = h[i + k]
    /\ g[Len(h) + 1 - k] = [role |-> "user", msg |-> m]
    /\ g[Len(h) + 2 - k] = [role |-> "assistant", msg |-> m]

\* push_history appends, or appends and drops the first entry when the list is full.
LEMMA PushEntries ==
  ASSUME NEW h \in Seq(Entry), NEW e \in Entry, Len(h) <= HistoryCap
  PROVE  /\ Push(h, e) \in Seq(Entry)
         /\ Len(h) < HistoryCap =>
               /\ Len(Push(h, e)) = Len(h) + 1
               /\ \A i \in 1..Len(h) : Push(h, e)[i] = h[i]
               /\ Push(h, e)[Len(h) + 1] = e
         /\ Len(h) = HistoryCap =>
               /\ Len(Push(h, e)) = HistoryCap
               /\ \A i \in 1..(HistoryCap - 1) : Push(h, e)[i] = h[i + 1]
               /\ Push(h, e)[HistoryCap] = e
<1> DEFINE s == Append(h, e)
<1>1. /\ s \in Seq(Entry)
      /\ Len(s) = Len(h) + 1
      /\ \A i \in 1..Len(h) : s[i] = h[i]
      /\ s[Len(h) + 1] = e
  BY AppendProperties
<1>2. Len(h) \in Nat /\ HistoryCap \in Nat \ {0}
  BY ConstantTypes, LenProperties
<1>3. Push(h, e) = SubSeq(s, IF Len(s) > HistoryCap THEN Len(s) - HistoryCap + 1 ELSE 1, Len(s))
  BY DEF Push, LastN
<1> HIDE DEF s
<1>4. CASE Len(h) < HistoryCap
  <2>0. ~(Len(s) > HistoryCap)
    BY <1>1, <1>2, <1>4
  <2>1. Push(h, e) = SubSeq(s, 1, Len(s))
    BY <1>3, <2>0
  <2>2. SubSeq(s, 1, Len(s)) = s
    BY <1>1, SubSeqFull
  <2> QED
    BY <1>1, <1>2, <1>4, <2>1, <2>2
<1>5. CASE Len(h) = HistoryCap
  <2>0. Len(s) > HistoryCap /\ Len(s) - HistoryCap + 1 = 2 /\ Len(s) = HistoryCap + 1
    BY <1>1, <1>2, <1>5
  <2>1. Push(h, e) = SubSeq(s, 2, HistoryCap + 1)
    BY <1>3, <2>0
  <2>2. /\ SubSeq(s, 2, HistoryCap + 1) \in Seq(Entry)
        /\ Len(SubSeq(s, 2, HistoryCap + 1)) = HistoryCap
        /\ \A i \in 1..HistoryCap : SubSeq(s, 2, HistoryCap + 1)[i] = s[i + 1]
    <3>1. \A i \in 2..(HistoryCap + 1) : s[i] \in Entry
      BY <1>1, <1>2, <1>5, ElementOfSeq
    <3> QED
      BY <1>1, <1>2, <1>5, <3>1, SubSeqProperties
  <2> QED
    BY <1>1, <1>2, <1>5, <2>1, <2>2
<1> QED
  BY <1>2, <1>4, <1>5

LEMMA PushTurnEntries ==
  ASSUME NEW h \in Seq(Entry), NEW m \in Messages, Len(h) <= HistoryCap, Len(h) % 2 = 0
  PROVE  \E k \in {0, 2} :
           k <= Len(h) /\ Len(h) + 2 - k <= HistoryCap /\ TurnPushed(PushTurn(h, m), h, m, k)
<1> DEFINE u == [role |-> "user", msg |-> m]
<1> DEFINE a == [role |-> "assistant", msg |-> m]
<1> DEFINE h1 == Push(h, u)
<1>1. u \in Entry /\ a \in Entry
  BY DEF Entry
<1>2. Len(h) \in Nat /\ HistoryCap \in Nat \ {0} /\ HistoryCap % 2 = 0
  BY ConstantTypes, LenProperties, CapAssumption
<1>3. PushTurn(h, m) = Push(h1, a)
  BY DEF PushTurn
<1>4. /\ h1 \in Seq(Entry)
      /\ Len(h) < HistoryCap =>
            /\ Len(h1) = Len(h) + 1
            /\ \A i \in 1..Len(h) : h1[i] = h[i]
            /\ h1[Len(h) + 1] = u
      /\ Len(h) = HistoryCap =>
            /\ Len(h1) = HistoryCap
            /\ \A i \in 1..(HistoryCap - 1) : h1[i] = h[i + 1]
            /\ h1[HistoryCap] = u
  BY <1>1, PushEntries
<1>5. Len(h1) <= HistoryCap
  BY <1>2, <1>4
<1> HIDE DEF u, a, h1
<1>6. /\ Len(h1) < HistoryCap =>
            /\ Len(Push(h1, a)) = Len(h1) + 1
            /\ \A i \in 1..Len(h1) : Push(h1, a)[i] = h1[i]
            /\ Push(h1, a)[Len(h1) + 1] = a
      /\ Len(h1) = HistoryCap =>
            /\ Len(Push(h1, a)) = HistoryCap
            /\ \A i \in 1..(HistoryCap - 1) : Push(h1, a)[i] = h1[i + 1]
            /\ Push(h1, a)[HistoryCap] = a
  BY <1>1, <1>4, <1>5, PushEntries
<1>7. CASE Len(h) < HistoryCap
  <2>1. Len(h1) = Len(h) + 1 /\ Len(h1) < HistoryCap
    BY <1>2, <1>4, <1>7
  <2>2. TurnPushed(Push(h1, a), h, m, 0)
    <3>1. \A i \in 1..(Len(h) - 0) : Push(h1, a)[i] = h[i + 0]
      BY <1>2, <1>4, <1>6, <1>7, <2>1
    <3>2. Push(h1, a)[Len(h) + 1 - 0] = u /\ Push(h1, a)[Len(h) + 2 - 0] = a
      BY <1>2, <1>4, <1>6, <1>7, <2>1
    <3>3. Len(Push(h1, a)) = Len(h) + 2 - 0
      BY <1>2, <1>4, <1>6, <1>7, <2>1
    <3> QED
      BY <3>1, <3>2, <3>3 DEF TurnPushed, u, a
  <2> QED
    BY <1>2, <1>3, <2>1, <2>2
<1>8. CASE Len(h) = HistoryCap
  <2>1. Len(h1) = HistoryCap /\ HistoryCap >= 2
    BY <1>2, <1>4, <1>8
  <2>2. TurnPushed(Push(h1, a), h, m, 2)
    <3>1. \A i \in 1..(Len(h) - 2) : Push(h1, a)[i] = h[i + 2]
      <4>1. SUFFICES ASSUME NEW i \in 1..(Len(h) - 2)
                     PROVE  Push(h1, a)[i] = h[i + 2]
        OBVIOUS
      <4>2. i \in 1..(HistoryCap - 1) /\ i + 1 \in 1..(HistoryCap - 1)
        BY <1>2, <1>8
      <4>3. Push(h1, a)[i] = h1[i + 1]
        BY <1>6, <2>1, <4>2
      <4>4. h1[i + 1] = h[(i + 1) + 1]
        BY <1>4, <1>8, <4>2
      <4>5. (i + 1) + 1 = i + 2
        BY <4>2
      <4> QED
        BY <4>3, <4>4, <4>5
    <3>2. Push(h1, a)[Len(h) + 1 - 2] = u /\ Push(h1, a)[Len(h) + 2 - 2] = a
      <4>1. Len(h) + 1 - 2 = HistoryCap - 1 /\ Len(h) + 2 - 2 = HistoryCap
        BY <1>2, <1>8
      <4>2. HistoryCap - 1 \in 1..(HistoryCap - 1) /\ (HistoryCap - 1) + 1 = HistoryCap
        BY <1>2, <2>1
      <4>3. Push(h1, a)[HistoryCap - 1] = h1[(HistoryCap - 1) + 1]
        BY <1>6, <2>1, <4>2
      <4> QED
        BY <1>4, <1>6, <1>8, <2>1, <4>1, <4>2, <4>3
    <3>3. Len(Push(h1, a)) = Len(h) + 2 - 2
      BY <1>2, <1>6, <1>8, <2>1
    <3> QED
      BY <3>1, <3>2, <3>3 DEF TurnPushed, u, a
  <2> QED
    BY <1>2, <1>3, <1>8, <2>1, <2>2
<1> QED
  BY <1>2, <1>7, <1>8

\* A list of whole turns, within the cap.
Paired(h) ==
    /\ Len(h) <= HistoryCap
    /\ Len(h) % 2 = 0
    /\ \A i \in 1..Len(h) :
         /\ h[i].role = IF i % 2 = 1 THEN "user" ELSE "assistant"
         /\ i % 2 = 1 => h[i + 1].msg = h[i].msg

LEMMA EvenStep ==
  ASSUME NEW n \in Nat
  PROVE  /\ (n + 0) % 2 = n % 2
         /\ (n + 2) % 2 = n % 2
         /\ n % 2 = 0 => (n + 1) % 2 = 1
  OBVIOUS

LEMMA PushTurnPaired ==
  ASSUME NEW h \in Seq(Entry), NEW m \in Messages, Paired(h)
  PROVE  Paired(PushTurn(h, m))
<1> DEFINE g == PushTurn(h, m)
<1>1. PICK k \in {0, 2} :
        k <= Len(h) /\ Len(h) + 2 - k <= HistoryCap /\ TurnPushed(g, h, m, k)
  BY PushTurnEntries DEF Paired
<1>2. g \in Seq(Entry)
  BY PushTurnType
<1>3. Len(h) \in Nat /\ HistoryCap \in Nat /\ Len(h) % 2 = 0
  BY ConstantTypes, LenProperties DEF Paired
<1> DEFINE n == Len(h) - k
<1> HIDE DEF g
<1>4. /\ n \in Nat /\ n % 2 = 0
      /\ Len(g) = n + 2
      /\ \A i \in 1..n : g[i] = h[i + k]
      /\ g[n + 1] = [role |-> "user", msg |-> m]
      /\ g[n + 2] = [role |-> "assistant", msg |-> m]
  <2>1. n \in Nat /\ n % 2 = 0
    BY <1>1, <1>3
  <2>2. Len(h) + 2 - k = n + 2 /\ Len(h) + 1 - k = n + 1
    BY <1>1, <1>3
  <2> QED
    BY <1>1, <2>1, <2>2 DEF TurnPushed
<1>5. Len(h) = n + k
  BY <1>1, <1>3
<1> HIDE DEF n
<1>6. Len(g) <= HistoryCap /\ Len(g) % 2 = 0
  BY <1>1, <1>3, <1>4, <1>5
<1>7. ASSUME NEW i \in 1..Len(g)
      PROVE  /\ g[i].role = IF i % 2 = 1 THEN "user" ELSE "assistant"
             /\ i % 2 = 1 => g[i + 1].msg = g[i].msg
  <2>1. CASE i \in 1..n
    <3>1. i + k \in 1..Len(h) /\ ((i + k) % 2 = 1 <=> i % 2 = 1)
      <4>1. n \in Nat /\ k \in {0, 2} /\ i \in 1..n
        BY <1>4, <2>1
      <4>2. i + k \in 1..(n + k)
        BY <4>1
      <4>3. (i + k) % 2 = 1 <=> i % 2 = 1
        BY <4>1, EvenStep
      <4> QED
        BY <1>5, <4>2, <4>3
    <3>2. g[i] = h[i + k]
      BY <1>4, <2>1
    <3>3. h[i + k].role = IF (i + k) % 2 = 1 THEN "user" ELSE "assistant"
      BY <3>1 DEF Paired
    <3>4. ASSUME i % 2 = 1
          PROVE  g[i + 1].msg = g[i].msg
      <4>1. i + 1 \in 1..n
        BY <1>4, <2>1, <3>4
      <4>2. g[i + 1] = h[(i + k) + 1]
        <5>1. (i + 1) + k = (i + k) + 1
          BY <1>1, <2>1
        <5> QED
          BY <1>4, <4>1, <5>1
      <4>3. h[(i + k) + 1].msg = h[i + k].msg
        BY <3>1, <3>4 DEF Paired
      <4> QED
        BY <3>2, <4>2, <4>3
    <3> QED
      BY <3>1, <3>2, <3>3, <3>4
  <2>2. CASE i = n + 1
    <3>1. i % 2 = 1 /\ i + 1 = n + 2
      <4>1. n \in Nat /\ n % 2 = 0
        BY <1>4
      <4> QED
        BY <2>2, <4>1, EvenStep
    <3> QED
      BY <1>4, <2>2, <3>1
  <2>3. CASE i = n + 2
    <3>1. i % 2 = 0
      <4>1. n \in Nat /\ n % 2 = 0
        BY <1>4
      <4> QED
        BY <2>3, <4>1, EvenStep
    <3> QED
      BY <1>4, <2>3, <3>1
  <2>4. i \in 1..n \/ i = n + 1 \/ i = n + 2
    BY <1>4
  <2> QED
    BY <2>1, <2>2, <2>3, <2>4
<1> QED
  BY <1>6, <1>7 DEF Paired, g

LEMMA HistoryPairedDef == HistoryPaired <=> \A c \in Chats : Paired(history[c])
  BY DEF HistoryPaired, Paired

\* Only an answer and a restart touch a history.
LEMMA HistorySteps ==
  ASSUME [Next]_vars
  PROVE  \/ UNCHANGED history
         \/ history' = [c \in Chats |-> <<>>]
         \/ \E m \in Messages : history' = [history EXCEPT ![ChatOf[m]] = PushTurn(@, m)]
  BY DEF Next, Step, vars, Arrive, RouteToHandler, RouteToChat, StartPending, Chat,
         BridgeReturns, Answer, SendChunk, AskTimeout, BridgeCooled, Restart

\* However turns, restarts and truncation interleave, _history[c] is a list of
\* whole turns within the cap, for any cap that is even.
THEOREM HistoryIsPaired == Spec => []HistoryPaired
<1>1. Init => HistoryPaired
  BY ConstantTypes DEF Init, HistoryPaired
<1>2. TypeOK /\ HistoryPaired /\ [Next]_vars => HistoryPaired'
  <2> SUFFICES ASSUME TypeOK, HistoryPaired, [Next]_vars
               PROVE  \A c \in Chats : Paired(history'[c])
    BY DEF HistoryPaired, Paired
  <2>1. \A c \in Chats : Paired(history[c])
    BY HistoryPairedDef
  <2>2. CASE UNCHANGED history
    BY <2>1, <2>2
  <2>3. CASE history' = [c \in Chats |-> <<>>]
    <3>1. Paired(<<>>)
      BY ConstantTypes DEF Paired
    <3> QED
      BY <2>3, <3>1
  <2>4. ASSUME NEW m \in Messages,
               history' = [history EXCEPT ![ChatOf[m]] = PushTurn(@, m)]
        PROVE  \A c \in Chats : Paired(history'[c])
    <3>1. history \in [Chats -> Seq(Entry)] /\ ChatOf[m] \in Chats
      BY ConstantTypes DEF TypeOK
    <3>2. Paired(PushTurn(history[ChatOf[m]], m))
      BY <2>1, <3>1, PushTurnPaired
    <3> QED
      BY <2>1, <2>4, <3>1, <3>2
  <2> QED
    BY <2>2, <2>3, <2>4, HistorySteps
<1> QED
  BY <1>1, <1>2, TypeCorrect, PTL DEF Spec

-----------------------------------------------------------------------------
(* One turn per message *)

\* A message that is on its way to an answer, or was displaced on it.
Fresh == {"idle", "routing", "queued", "parked", "displaced"} \cup InFlight

TurnsOf(h, m) == {i \in 1..Len(h) : h[i] = [role |-> "assistant", msg |-> m]}

TurnInv ==
    \A m \in Messages :
      LET turns == TurnsOf(history[ChatOf[m]], m) IN
      /\ \A i, j \in turns : i = j
      /\ turns # {} => m \in learned
      /\ pc[m] \in Fresh => turns = {} /\ m \notin learned

\* A turn of x in the new history is one of the old history, or the one recorded.
LEMMA PushTurnTurns ==
  ASSUME NEW h \in Seq(Entry), NEW m \in Messages, NEW x \in Messages, Paired(h)
  PROVE  \E k \in {0, 2} :
           \A i \in TurnsOf(PushTurn(h, m), x) :
             \/ i + k \in TurnsOf(h, x)
             \/ x = m /\ i = Len(PushTurn(h, m))
<1> DEFINE g == PushTurn(h, m)
<1>1. PICK k \in {0, 2} : k <= Len(h) /\ TurnPushed(g, h, m, k)
  BY PushTurnEntries DEF Paired
<1> DEFINE n == Len(h) - k
<1> HIDE DEF g
<1>2. /\ n \in Nat
      /\ Len(g) = n + 2
      /\ Len(h) = n + k
      /\ \A i \in 1..n : g[i] = h[i + k]
      /\ g[n + 1] = [role |-> "user", msg |-> m]
      /\ g[n + 2] = [role |-> "assistant", msg |-> m]
  <2>1. Len(h) \in Nat
    BY LenProperties
  <2>2. n \in Nat /\ Len(h) = n + k /\ Len(h) + 2 - k = n + 2 /\ Len(h) + 1 - k = n + 1
    BY <1>1, <2>1
  <2> QED
    BY <1>1, <2>2 DEF TurnPushed
<1> HIDE DEF n
<1>3. ASSUME NEW i \in TurnsOf(g, x)
      PROVE  i + k \in TurnsOf(h, x) \/ (x = m /\ i = Len(g))
  <2>1. i \in 1..Len(g) /\ g[i] = [role |-> "assistant", msg |-> x]
    BY DEF TurnsOf
  <2>2. CASE i \in 1..n
    <3>1. i + k \in 1..(n + k)
      BY <1>2, <2>2
    <3> QED
      BY <1>2, <2>1, <2>2, <3>1 DEF TurnsOf
  <2>3. CASE i = n + 1
    <3>1. [role |-> "assistant", msg |-> x] = [role |-> "user", msg |-> m]
      BY <1>2, <2>1, <2>3
    <3>2. [role |-> "assistant", msg |-> x].role # [role |-> "user", msg |-> m].role
      OBVIOUS
    <3> QED
      BY <3>1, <3>2
  <2>4. CASE i = n + 2
    <3>1. [role |-> "assistant", msg |-> x] = [role |-> "assistant", msg |-> m]
      BY <1>2, <2>1, <2>4
    <3>2. [role |-> "assistant", msg |-> x].msg = x /\ [role |-> "assistant", msg |-> m].msg = m
      OBVIOUS
    <3>3. x = m
      BY <3>1, <3>2
    <3> QED
      BY <1>2, <2>4, <3>3
  <2>5. i \in 1..n \/ i = n + 1 \/ i = n + 2
    BY <1>2, <2>1
  <2> QED
    BY <2>2, <2>3, <2>4, <2>5
<1> QED
  BY <1>3 DEF g

\* A message that has left for good is never on its way again.
LEMMA FreshSteps ==
  ASSUME FlightInv, [Next]_vars, NEW x \in Messages, pc'[x] \in Fresh
  PROVE  pc[x] \in Fresh
<1>1. pc \in [Messages -> Phases] /\ \A m \in Messages : ChatOf[m] \in Chats
  BY ConstantTypes DEF FlightInv, TypeOK
<1>2. ASSUME NEW m \in Messages,
             Arrive(m) \/ RouteToHandler(m) \/ AskTimeout(m) \/ BridgeReturns(m) \/ SendChunk(m)
      PROVE  pc[x] \in Fresh
  <2>1. CASE x = m
    BY <1>1, <1>2, <2>1
       DEF Arrive, RouteToHandler, AskTimeout, BridgeReturns, SendChunk, Fresh, InFlight
  <2>2. CASE x # m
    BY <1>1, <1>2, <2>2 DEF Arrive, RouteToHandler, AskTimeout, BridgeReturns, SendChunk
  <2> QED
    BY <2>1, <2>2
<1>3. ASSUME NEW m \in Messages, RouteToChat(m) \/ StartPending(m)
      PROVE  pc[x] \in Fresh
  <2>1. pc[m] \in Fresh
    BY <1>3 DEF RouteToChat, StartPending, Fresh
  <2>2. CASE Park(m)
    <3>1. x = pending[ChatOf[m]] => pc[x] = "parked"
      BY <1>1, ConstantTypes DEF FlightInv, PendingHasRunner
    <3> QED
      BY <2>1, <2>2, <3>1 DEF Park, Fresh
  <2>3. CASE Acquire(m)
    BY <1>1, <2>1, <2>3 DEF Acquire
  <2> QED
    BY <1>3, <2>2, <2>3 DEF RouteToChat, StartPending, Chat
<1>4. ASSUME NEW m \in Messages, Answer(m)
      PROVE  pc[x] \in Fresh
  <2>1. pc[m] \in Fresh
    BY <1>4 DEF Answer, Fresh, InFlight
  <2>2. PICK after : Release(m, after)
    BY <1>4 DEF Answer
  <2>3. x = pending[ChatOf[m]] => pc[x] = "parked"
    BY <1>1, ConstantTypes DEF FlightInv, PendingHasRunner
  <2> QED
    BY <2>1, <2>2, <2>3 DEF Release, Fresh
<1>5. ASSUME NEW c \in Chats, BridgeCooled(c)
      PROVE  pc[x] \in Fresh
  BY <1>5 DEF BridgeCooled
<1>6. CASE Restart
  BY <1>6 DEF Restart, Fresh, InFlight
<1>7. CASE UNCHANGED vars
  BY <1>7 DEF vars
<1> QED
  BY <1>2, <1>3, <1>4, <1>5, <1>6, <1>7 DEF Next, Step

\* Only an answer records a turn, and only for a message on its way.
LEMMA LearnedSteps ==
  ASSUME FlightInv, [Next]_vars
  PROVE  \/ UNCHANGED <<history, learned>>
         \/ history' = [c \in Chats |-> <<>>] /\ UNCHANGED learned
         \/ \E m \in Messages :
              /\ history' = [history EXCEPT ![ChatOf[m]] = PushTurn(@, m)]
              /\ learned' = learned \cup {m}
              /\ pc[m] \in Fresh
              /\ pc'[m] \notin Fresh
<1>1. ASSUME NEW m \in Messages, Answer(m)
      PROVE  /\ history' = [history EXCEPT ![ChatOf[m]] = PushTurn(@, m)]
             /\ learned' = learned \cup {m}
             /\ pc[m] \in Fresh
             /\ pc'[m] \notin Fresh
  <2>1. PICK after \in {"finished", "replying"} : Release(m, after)
    BY <1>1 DEF Answer
  <2>2. pc'[m] = after
    BY <2>1 DEF Release
  <2> QED
    BY <1>1, <2>2 DEF Answer, Fresh, InFlight
<1> QED
  BY <1>1 DEF Next, Step, vars, Arrive, RouteToHandler, RouteToChat, StartPending, Chat,
         BridgeReturns, SendChunk, AskTimeout, BridgeCooled, Restart

LEMMA TurnStep == FlightInv /\ HistoryPaired /\ TurnInv /\ [Next]_vars => TurnInv'
<1> SUFFICES ASSUME FlightInv, HistoryPaired, TurnInv, [Next]_vars,
                    NEW x \in Messages
             PROVE  LET turns == TurnsOf(history'[ChatOf[x]], x) IN
                    /\ \A i, j \in turns : i = j
                    /\ turns # {} => x \in learned'
                    /\ pc'[x] \in Fresh => turns = {} /\ x \notin learned'
  BY DEF TurnInv, TurnsOf
<1> DEFINE old == TurnsOf(history[ChatOf[x]], x)
<1> DEFINE new == TurnsOf(history'[ChatOf[x]], x)
<1>1. /\ \A i, j \in old : i = j
      /\ old # {} => x \in learned
      /\ pc[x] \in Fresh => old = {} /\ x \notin learned
  BY DEF TurnInv
<1>2. pc'[x] \in Fresh => pc[x] \in Fresh
  BY FreshSteps
<1>3. CASE UNCHANGED <<history, learned>>
  BY <1>1, <1>2, <1>3
<1>4. CASE history' = [c \in Chats |-> <<>>] /\ UNCHANGED learned
  <2>1. new = {}
    BY <1>4, ConstantTypes DEF TurnsOf
  <2> QED
    BY <1>1, <1>2, <1>4, <2>1
<1>5. ASSUME NEW m \in Messages,
             history' = [history EXCEPT ![ChatOf[m]] = PushTurn(@, m)],
             learned' = learned \cup {m},
             pc[m] \in Fresh,
             pc'[m] \notin Fresh
      PROVE  /\ \A i, j \in new : i = j
             /\ new # {} => x \in learned'
             /\ pc'[x] \in Fresh => new = {} /\ x \notin learned'
  <2>1. history \in [Chats -> Seq(Entry)] /\ ChatOf[m] \in Chats /\ ChatOf[x] \in Chats
    BY ConstantTypes DEF FlightInv, TypeOK
  <2>2. CASE ChatOf[x] # ChatOf[m]
    <3>1. new = old /\ x # m
      BY <1>5, <2>1, <2>2
    <3> QED
      BY <1>1, <1>2, <1>5, <3>1
  <2>3. CASE ChatOf[x] = ChatOf[m]
    <3> DEFINE h == history[ChatOf[x]]
    <3>1. h \in Seq(Entry) /\ Paired(h)
      BY <2>1, HistoryPairedDef
    <3>2. history'[ChatOf[x]] = PushTurn(h, m)
      BY <1>5, <2>1, <2>3
    <3>3. PICK k \in {0, 2} : \A i \in new : i + k \in old \/ (x = m /\ i = Len(PushTurn(h, m)))
      BY <3>1, <3>2, PushTurnTurns
    <3>4. new \subseteq Nat
      <4>1. Len(history'[ChatOf[x]]) \in Nat
        BY <3>1, <3>2, PushTurnType, LenProperties
      <4> QED
        BY <4>1 DEF TurnsOf
    <3> HIDE DEF old, new, h
    <3>5. CASE x = m
      <4>1. old = {}
        BY <1>1, <1>5, <3>5
      <4> QED
        BY <1>5, <3>3, <3>5, <4>1
    <3>6. CASE x # m
      <4>1. \A i \in new : i + k \in old
        BY <3>3, <3>6
      <4>2. \A i, j \in new : i = j
        <5>1. \A i, j \in new : i + k = j + k
          BY <1>1, <4>1
        <5> QED
          BY <3>4, <5>1
      <4> QED
        BY <1>1, <1>2, <1>5, <3>6, <4>1, <4>2
    <3> QED
      BY <3>5, <3>6
  <2> QED
    BY <2>2, <2>3
<1> QED
  BY <1>3, <1>4, <1>5, LearnedSteps

\* A set whose elements are all equal has at most one.
LEMMA OneElement ==
  ASSUME NEW S, \A i, j \in S : i = j
  PROVE  Cardinality(S) <= 1
<1>1. CASE S = {}
  BY <1>1, FS_EmptySet
<1>2. CASE S # {}
  <2>1. PICK e : S = {e}
    BY <1>2
  <2> QED
    BY <2>1, FS_Singleton
<1> QED
  BY <1>1, <1>2

\* However often a message is parked, displaced and taken up again, its turn is
\* recorded at most once, and not before it is answered.
THEOREM TurnsAreSingle == Spec => []AnsweredOnce
<1>1. Init => TurnInv
  BY ConstantTypes DEF Init, TurnInv, TurnsOf
<1>2. TurnInv => AnsweredOnce
  <2> SUFFICES ASSUME TurnInv, NEW m \in Messages
               PROVE  LET turns == TurnsOf(history[ChatOf[m]], m) IN
                      /\ Cardinality(turns) <= 1
                      /\ turns # {} => m \in learned
                      /\ pc[m] \in {"routing", "queued", "parked", "displaced"} \cup InFlight
                           => turns = {} /\ m \notin learned
    BY DEF AnsweredOnce, TurnsOf
  <2>1. Cardinality(TurnsOf(history[ChatOf[m]], m)) <= 1
    BY OneElement DEF TurnInv
  <2> QED
    BY <2>1 DEF TurnInv, Fresh
<1> QED
  BY <1>1, <1>2, TurnStep, FlightInvariant, HistoryIsPaired, PTL DEF Spec

-----------------------------------------------------------------------------
(* Every piece of a reply somebody awaits *)

ReplyInv ==
    \A m \in Messages :
      /\ pc[m] \in Fresh => out[m] = 0
      /\ pc[m] = "replying" => out[m] < chunks[m]
      /\ pc[m] = "finished" /\ m \notin rerun => out[m] = chunks[m]

\* A message whose count of pieces does not change, and which does not get to an end.
LEMMA QuietReply ==
  ASSUME ReplyInv, NEW x \in Messages, out'[x] = out[x],
         pc'[x] \in Fresh => pc[x] \in Fresh,
         \/ pc'[x] \notin {"replying", "finished"}
         \/ pc'[x] = pc[x] /\ chunks'[x] = chunks[x] /\ (x \in rerun => x \in rerun')
  PROVE  /\ pc'[x] \in Fresh => out'[x] = 0
         /\ pc'[x] = "replying" => out'[x] < chunks'[x]
         /\ pc'[x] = "finished" /\ x \notin rerun' => out'[x] = chunks'[x]
  BY DEF ReplyInv

LEMMA ReplyStep == FlightInv /\ ReplyInv /\ [Next]_vars => ReplyInv'
<1> SUFFICES ASSUME FlightInv, ReplyInv, [Next]_vars, NEW x \in Messages
             PROVE  /\ pc'[x] \in Fresh => out'[x] = 0
                    /\ pc'[x] = "replying" => out'[x] < chunks'[x]
                    /\ pc'[x] = "finished" /\ x \notin rerun' => out'[x] = chunks'[x]
  BY DEF ReplyInv
<1> DEFINE Goal == /\ pc'[x] \in Fresh => out'[x] = 0
                   /\ pc'[x] = "replying" => out'[x] < chunks'[x]
                   /\ pc'[x] = "finished" /\ x \notin rerun' => out'[x] = chunks'[x]
<1>1. /\ pc \in [Messages -> Phases]
      /\ out \in [Messages -> Nat]
      /\ chunks \in [Messages -> 0..MaxChunks]
      /\ MaxChunks \in Nat
      /\ \A m \in Messages : ChatOf[m] \in Chats
  BY ConstantTypes DEF FlightInv, TypeOK
<1>2. pc'[x] \in Fresh => pc[x] \in Fresh
  BY FreshSteps
<1>3. ASSUME NEW m \in Messages, Arrive(m) \/ AskTimeout(m) \/ BridgeReturns(m)
      PROVE  Goal
  <2>1. out' = out /\ chunks' = chunks /\ rerun' = rerun
    BY <1>3 DEF Arrive, AskTimeout, BridgeReturns
  <2>2. pc'[x] = pc[x] \/ pc'[x] \notin {"replying", "finished"}
    BY <1>1, <1>3 DEF Arrive, AskTimeout, BridgeReturns
  <2> QED
    BY <1>2, <2>1, <2>2, QuietReply
<1>4. ASSUME NEW m \in Messages, RouteToHandler(m)
      PROVE  Goal
  <2>1. PICK n \in 0..MaxChunks :
          /\ chunks' = [chunks EXCEPT ![m] = n]
          /\ pc' = [pc EXCEPT ![m] = IF n = 0 THEN "finished" ELSE "replying"]
    BY <1>4 DEF RouteToHandler
  <2>2. out' = out /\ rerun' = rerun /\ pc[m] = "routing"
    BY <1>4 DEF RouteToHandler
  <2>3. CASE x = m
    <3>1. out[x] = 0
      BY <2>2, <2>3 DEF ReplyInv, Fresh
    <3>2. chunks'[x] = n /\ pc'[x] = IF n = 0 THEN "finished" ELSE "replying"
      BY <1>1, <2>1, <2>3
    <3> QED
      BY <1>1, <2>2, <3>1, <3>2
  <2>4. CASE x # m
    BY <1>1, <1>2, <2>1, <2>2, <2>4, QuietReply
  <2> QED
    BY <2>3, <2>4
<1>5. ASSUME NEW m \in Messages, RouteToChat(m) \/ StartPending(m)
      PROVE  Goal
  <2>1. out' = out /\ chunks' = chunks /\ rerun' = rerun
    BY <1>5 DEF RouteToChat, StartPending, Chat
  <2>2. pc'[x] = pc[x] \/ pc'[x] \notin {"replying", "finished"}
    BY <1>1, <1>5 DEF RouteToChat, StartPending, Chat, Park, Acquire
  <2> QED
    BY <1>2, <2>1, <2>2, QuietReply
<1>6. ASSUME NEW m \in Messages, Answer(m)
      PROVE  Goal
  <2>1. PICK n \in 0..MaxChunks :
          /\ chunks' = [chunks EXCEPT ![m] = n]
          /\ Release(m, IF m \in rerun \/ n = 0 THEN "finished" ELSE "replying")
    BY <1>6 DEF Answer
  <2>2. /\ out' = out
        /\ rerun \subseteq rerun'
        /\ pc[m] \in Fresh
    BY <1>6, <2>1 DEF Answer, Release, Fresh, InFlight
  <2>3. CASE x = m
    <3>1. out[x] = 0
      BY <2>2, <2>3 DEF ReplyInv
    <3>2. /\ chunks'[x] = n
          /\ pc'[x] = IF m \in rerun \/ n = 0 THEN "finished" ELSE "replying"
      BY <1>1, <2>1, <2>3 DEF Release
    <3>3. pc'[x] \notin Fresh
      BY <3>2 DEF Fresh, InFlight
    <3> QED
      BY <1>1, <2>2, <2>3, <3>1, <3>2, <3>3
  <2>4. CASE x # m
    <3>1. chunks'[x] = chunks[x]
      BY <1>1, <2>1, <2>4
    <3>2. pc'[x] = pc[x] \/ pc'[x] = "queued"
      BY <2>1, <2>4 DEF Release
    <3> QED
      BY <1>2, <2>2, <3>1, <3>2, QuietReply
  <2> QED
    BY <2>3, <2>4
<1>7. ASSUME NEW m \in Messages, SendChunk(m)
      PROVE  Goal
  <2>1. /\ pc[m] = "replying"
        /\ out' = [out EXCEPT ![m] = @ + 1]
        /\ pc' = [pc EXCEPT ![m] = IF out'[m] = chunks[m] THEN "finished" ELSE @]
        /\ chunks' = chunks
        /\ rerun' = rerun
    BY <1>7 DEF SendChunk
  <2>2. CASE x = m
    <3>1. out[x] < chunks[x] /\ out[x] \in Nat /\ chunks[x] \in Nat
      BY <1>1, <2>1, <2>2 DEF ReplyInv
    <3>2. out'[x] = out[x] + 1
      BY <1>1, <2>1, <2>2
    <3>3. pc'[x] = IF out'[x] = chunks[x] THEN "finished" ELSE "replying"
      BY <1>1, <2>1, <2>2
    <3>4. pc'[x] \notin Fresh
      BY <3>3 DEF Fresh, InFlight
    <3> QED
      BY <2>1, <3>1, <3>2, <3>3, <3>4
  <2>3. CASE x # m
    BY <1>1, <1>2, <2>1, <2>3, QuietReply
  <2> QED
    BY <2>2, <2>3
<1>8. ASSUME NEW c \in Chats, BridgeCooled(c)
      PROVE  Goal
  BY <1>2, <1>8, QuietReply DEF BridgeCooled
<1>9. CASE Restart
  <2>1. out' = out /\ chunks' = chunks /\ rerun' = rerun
    BY <1>9 DEF Restart
  <2>2. pc'[x] = pc[x] \/ pc'[x] = "lost"
    BY <1>9 DEF Restart
  <2> QED
    BY <1>2, <2>1, <2>2, QuietReply
<1>10. CASE UNCHANGED vars
  BY <1>2, <1>10, QuietReply DEF vars
<1> QED
  BY <1>3, <1>4, <1>5, <1>6, <1>7, <1>8, <1>9, <1>10 DEF Next, Step

\* A handler that awaits its reply, and comes to its end, has handed over every
\* piece of it, whatever restarts and other messages do.
THEOREM AwaitedRepliesDelivered == Spec => []AwaitedReplyDelivered
<1>1. Init => ReplyInv
  BY DEF Init, ReplyInv
<1>2. ReplyInv => AwaitedReplyDelivered
  BY DEF ReplyInv, AwaitedReplyDelivered
<1> QED
  BY <1>1, <1>2, ReplyStep, FlightInvariant, PTL DEF Spec
=============================================================================
