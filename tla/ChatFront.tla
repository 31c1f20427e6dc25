------------------------------ MODULE ChatFront ------------------------------
(***************************************************************************)
(* The chat front of the bot (bot.py): routing of an incoming message,     *)
(* the per-chat busy / pending slots that serialise LLM calls, the bridge  *)
(* phrase sent on a slow answer, the rolling history, and the delivery of  *)
(* the reply in chunks.                                                    *)
(*                                                                         *)
(* Every coroutine is one process of an asyncio event loop: an action is   *)
(* the code between two awaits, and any ready coroutine may run next.      *)
(*                                                                         *)
(*   idle      the platform has not delivered the message                  *)
(*   routing   _handle: a plugin command, game or decision hook is awaited *)
(*   queued    created with create_task(self._chat(...)), not yet started  *)
(*   asking    _ask: wait_for(shield(agent.ask in a thread), timeout_s)    *)
(*   bridging  _send_bridge is awaited                                     *)
(*   awaiting  _ask: await task, after the bridge                          *)
(*   replying  _reply_in_chunks, one message.reply per chunk               *)
(*   parked    stored in _chat_pending                                     *)
(*   displaced its _chat_pending entry was overwritten by another message  *)
(*   finished  the coroutine that owned the message returned               *)
(*   lost      in memory when the process stopped                          *)
(***************************************************************************)
EXTENDS Naturals, Sequences, FiniteSets

CONSTANTS
    Chats,          \* chat keys: g:<group> or c:<user>
    Messages,       \* the messages the platform may deliver
    ChatOf,         \* the chat key of each message
    NoMsg,          \* an empty _chat_pending slot
    HistoryCap,     \* entries kept by push_history (12 in the code)
    AskWindow,      \* entries passed to agent.ask (6 in the code)
    MaxChunks,      \* bound: pieces a reply is split into
    MaxRestarts     \* bound: process restarts in one behaviour

ASSUME ChatOfAssumption == ChatOf \in [Messages -> Chats]
ASSUME NoMsgAssumption == NoMsg \notin Messages
ASSUME CapAssumption ==
    /\ HistoryCap \in Nat \ {0}
    /\ HistoryCap % 2 = 0
    /\ AskWindow \in 1..HistoryCap
ASSUME BoundAssumption == MaxChunks \in Nat /\ MaxRestarts \in Nat

VARIABLES
    pc,        \* phase of each message
    busy,      \* _chat_busy
    pending,   \* _chat_pending, NoMsg for an absent key
    history,   \* _history
    bridged,   \* chats whose _bridge_last is younger than min_interval_s
    window,    \* per message: the slice of _history handed to agent.ask
    rerun,     \* messages whose current _chat runs as a task nobody awaits
    chunks,    \* per message: pieces of the reply computed for it
    out,       \* per message: pieces handed to message.reply
    learned,   \* messages an after_chat task was created for
    restarts

vars == <<pc, busy, pending, history, bridged, window, rerun, chunks, out,
          learned, restarts>>

Phases == {"idle", "routing", "queued", "asking", "bridging", "awaiting",
           "replying", "parked", "displaced", "finished", "lost"}
InFlight == {"asking", "bridging", "awaiting"}
Terminal == {"displaced", "finished", "lost"}
Entry == [role : {"user", "assistant"}, msg : Messages]

\* The last n entries of s, s[-n:].
LastN(s, n) == SubSeq(s, IF Len(s) > n THEN Len(s) - n + 1 ELSE 1, Len(s))

Init ==
    /\ pc = [m \in Messages |-> "idle"]
    /\ busy = {}
    /\ pending = [c \in Chats |-> NoMsg]
    /\ history = [c \in Chats |-> <<>>]
    /\ bridged = {}
    /\ window = [m \in Messages |-> <<>>]
    /\ rerun = {}
    /\ chunks = [m \in Messages |-> 0]
    /\ out = [m \in Messages |-> 0]
    /\ learned = {}
    /\ restarts = 0

-----------------------------------------------------------------------------
(* Routing *)

\* _handle starts on a delivered message; it may suspend in a plugin hook.
Arrive(m) ==
    /\ pc[m] = "idle"
    /\ pc' = [pc EXCEPT ![m] = "routing"]
    /\ UNCHANGED <<busy, pending, history, bridged, window, rerun, chunks, out,
                   learned, restarts>>

\* Help, a plugin command, a game or the decision adviser answers: the reply
\* goes out without touching the chat slots, even while the chat is busy.
\* Zero pieces is an empty text, for which nothing is sent.
RouteToHandler(m) ==
    /\ pc[m] = "routing"
    /\ \E n \in 0..MaxChunks :
         /\ chunks' = [chunks EXCEPT ![m] = n]
         /\ pc' = [pc EXCEPT ![m] = IF n = 0 THEN "finished" ELSE "replying"]
    /\ UNCHANGED <<busy, pending, history, bridged, window, rerun, out,
                   learned, restarts>>

-----------------------------------------------------------------------------
(* _chat and _chat_once *)

\* A busy chat keeps one message in _chat_pending; the previous one is gone.
Park(m) ==
    LET c == ChatOf[m] IN
    /\ c \in busy
    /\ pending' = [pending EXCEPT ![c] = m]
    /\ pc' = [x \in Messages |->
                IF x = m THEN "parked"
                ELSE IF x = pending[c] THEN "displaced" ELSE pc[x]]
    /\ UNCHANGED <<busy, window>>

\* Seeded fault: the busy check of _chat is missing.
AcquireUnchecked(m) ==
    LET c == ChatOf[m] IN
    /\ busy' = busy \cup {c}
    /\ window' = [window EXCEPT ![m] = LastN(history[c], AskWindow)]
    /\ pc' = [pc EXCEPT ![m] = "asking"]
    /\ UNCHANGED pending

\* A free chat is marked busy and agent.ask starts on the recent history.
Acquire(m) ==
    LET c == ChatOf[m] IN
    /\ c \notin busy
    /\ busy' = busy \cup {c}
    /\ window' = [window EXCEPT ![m] = LastN(history[c], AskWindow)]
    /\ pc' = [pc EXCEPT ![m] = "asking"]
    /\ UNCHANGED pending

Chat(m) ==
    /\ Park(m) \/ Acquire(m)
    /\ UNCHANGED <<history, bridged, rerun, chunks, out, learned, restarts>>

\* No hook took the message: _handle runs on into _chat without suspending.
RouteToChat(m) == pc[m] = "routing" /\ Chat(m)

\* The task created for a pending message gets the event loop.
StartPending(m) == pc[m] = "queued" /\ Chat(m)

\* Seeded fault: the chat is freed when the wait times out, not when it ends.
AskTimeoutReleases(m) ==
    /\ pc[m] = "asking"
    /\ pc' = [pc EXCEPT ![m] = "awaiting"]
    /\ busy' = busy \ {ChatOf[m]}
    /\ UNCHANGED <<pending, history, bridged, window, rerun, chunks, out, learned,
                   restarts>>

\* wait_for times out. _send_bridge returns at once during its cooldown.
AskTimeout(m) ==
    LET c == ChatOf[m] IN
    /\ pc[m] = "asking"
    /\ IF c \in bridged
         THEN pc' = [pc EXCEPT ![m] = "awaiting"] /\ UNCHANGED bridged
         ELSE pc' = [pc EXCEPT ![m] = "bridging"] /\ bridged' = bridged \cup {c}
    /\ UNCHANGED <<busy, pending, history, window, rerun, chunks, out, learned,
                   restarts>>

\* The thread running send_message returns: it only built a coroutine object.
BridgeReturns(m) ==
    /\ pc[m] = "bridging"
    /\ pc' = [pc EXCEPT ![m] = "awaiting"]
    /\ UNCHANGED <<busy, pending, history, bridged, window, rerun, chunks, out,
                   learned, restarts>>

BridgeCooled(c) ==
    /\ c \in bridged
    /\ bridged' = bridged \ {c}
    /\ UNCHANGED <<pc, busy, pending, history, window, rerun, chunks, out,
                   learned, restarts>>

\* Seeded fault: an odd number of entries survives the truncation.
PushShort(h, entry) == LastN(Append(h, entry), HistoryCap - 1)

\* push_history, once for each side of the turn.
Push(h, entry) == LastN(Append(h, entry), HistoryCap)
PushTurn(h, m) ==
    Push(Push(h, [role |-> "user", msg |-> m]), [role |-> "assistant", msg |-> m])

\* Seeded faults: the slot is read but not popped; popped but nothing runs it;
\* a task is created without asking whether anything was pending.
ReleaseUnpopped(m, after) ==
    LET p == pending[ChatOf[m]] IN
    /\ busy' = busy \ {ChatOf[m]}
    /\ pending' = pending
    /\ rerun' = IF p = NoMsg THEN rerun ELSE rerun \cup {p}
    /\ pc' = [x \in Messages |->
                IF x = m THEN after ELSE IF x = p THEN "queued" ELSE pc[x]]
ReleaseUnscheduled(m, after) ==
    /\ busy' = busy \ {ChatOf[m]}
    /\ pending' = [pending EXCEPT ![ChatOf[m]] = NoMsg]
    /\ pc' = [pc EXCEPT ![m] = after]
    /\ UNCHANGED rerun
ReleaseUnconditional(m, after) ==
    LET p == pending[ChatOf[m]] IN
    /\ busy' = busy \ {ChatOf[m]}
    /\ pending' = [pending EXCEPT ![ChatOf[m]] = NoMsg]
    /\ rerun' = rerun \cup {p}
    /\ pc' = [x \in Messages |->
                IF x = m THEN after ELSE IF x = p THEN "queued" ELSE pc[x]]

\* The finally block of _chat: the slot is freed and what was pending gets a
\* task of its own, in one step of the event loop.
Release(m, after) ==
    LET c == ChatOf[m]
        p == pending[c] IN
    /\ busy' = busy \ {c}
    /\ pending' = [pending EXCEPT ![c] = NoMsg]
    /\ rerun' = IF p = NoMsg THEN rerun ELSE rerun \cup {p}
    /\ pc' = [x \in Messages |->
                IF x = m THEN after ELSE IF x = p THEN "queued" ELSE pc[x]]

\* agent.ask returned or raised (a fallback text is the reply then): the turn
\* is recorded, after_chat is spawned, _chat releases the chat. The result goes
\* to on_*_message_create, or to nobody when _chat runs as a task of its own.
Answer(m) ==
    LET c == ChatOf[m] IN
    /\ pc[m] \in {"asking", "awaiting"}
    /\ history' = [history EXCEPT ![c] = PushTurn(@, m)]
    /\ learned' = learned \cup {m}
    /\ window' = [window EXCEPT ![m] = <<>>]
    /\ \E n \in 0..MaxChunks :
         /\ chunks' = [chunks EXCEPT ![m] = n]
         /\ Release(m, IF m \in rerun \/ n = 0 THEN "finished" ELSE "replying")
    /\ UNCHANGED <<bridged, out, restarts>>

-----------------------------------------------------------------------------
(* Delivery and restart *)

\* Seeded fault: the loop ends after the first piece.
SendChunkOnce(m) ==
    /\ pc[m] = "replying"
    /\ out' = [out EXCEPT ![m] = @ + 1]
    /\ pc' = [pc EXCEPT ![m] = "finished"]
    /\ UNCHANGED <<busy, pending, history, bridged, window, rerun, chunks,
                   learned, restarts>>

\* One turn of the loop of _reply_in_chunks; a failed send is logged and the
\* loop goes on with the next piece.
SendChunk(m) ==
    /\ pc[m] = "replying"
    /\ out' = [out EXCEPT ![m] = @ + 1]
    /\ pc' = [pc EXCEPT ![m] = IF out'[m] = chunks[m] THEN "finished" ELSE @]
    /\ UNCHANGED <<busy, pending, history, bridged, window, rerun, chunks,
                   learned, restarts>>

\* The process stops (SIGTERM, SIGINT or a crash) and is started again: every
\* one of these tables lives in memory only.
Restart ==
    /\ restarts < MaxRestarts
    /\ restarts' = restarts + 1
    /\ pc' = [m \in Messages |->
                IF pc[m] \in Terminal \cup {"idle"} THEN pc[m] ELSE "lost"]
    /\ busy' = {}
    /\ pending' = [c \in Chats |-> NoMsg]
    /\ history' = [c \in Chats |-> <<>>]
    /\ bridged' = {}
    /\ window' = [m \in Messages |-> <<>>]
    /\ UNCHANGED <<rerun, chunks, out, learned>>

-----------------------------------------------------------------------------
Step(m) ==
    \/ RouteToHandler(m) \/ RouteToChat(m) \/ StartPending(m)
    \/ BridgeReturns(m) \/ Answer(m) \/ SendChunk(m)

Next ==
    \/ \E m \in Messages : Arrive(m) \/ Step(m) \/ AskTimeout(m)
    \/ \E c \in Chats : BridgeCooled(c)
    \/ Restart

\* Every started coroutine gets the event loop again. agent.ask ends because
\* its LLM calls carry a timeout and a retry limit (_shared.py).
Fairness == \A m \in Messages : WF_vars(Step(m))

Spec == Init /\ [][Next]_vars /\ Fairness

-----------------------------------------------------------------------------
(* Properties *)

\* Every variable keeps its shape (the dictionaries and sets of bot.py).
TypeOK ==
    /\ pc \in [Messages -> Phases]
    /\ busy \in SUBSET Chats
    /\ pending \in [Chats -> Messages \cup {NoMsg}]
    /\ history \in [Chats -> Seq(Entry)]
    /\ bridged \in SUBSET Chats
    /\ window \in [Messages -> Seq(Entry)]
    /\ rerun \in SUBSET Messages
    /\ chunks \in [Messages -> 0..MaxChunks]
    /\ out \in [Messages -> Nat]
    /\ learned \in SUBSET Messages
    /\ restarts \in 0..MaxRestarts

\* _chat serialises a chat: at most one message of it is in an LLM call, and
\* _chat_busy is exactly the set of chats that have one (no leaked mark).
SingleFlight ==
    /\ \A m, n \in Messages :
         /\ pc[m] \in InFlight /\ pc[n] \in InFlight
         /\ ChatOf[m] = ChatOf[n]
         => m = n
    /\ \A c \in Chats :
         c \in busy <=> \E m \in Messages : ChatOf[m] = c /\ pc[m] \in InFlight

\* A message in _chat_pending belongs to that chat, is waiting there, and the
\* chat has a running _chat whose finally block will pick it up; conversely no
\* message waits outside the slot.
PendingHasRunner ==
    /\ \A c \in Chats :
         pending[c] # NoMsg =>
            /\ c \in busy
            /\ ChatOf[pending[c]] = c
            /\ pc[pending[c]] = "parked"
    /\ \A m \in Messages : pc[m] = "parked" => pending[ChatOf[m]] = m

\* However turns, restarts and truncation interleave, _history[c] is a list of
\* whole turns: user then assistant of one message, within the cap.
HistoryPaired ==
    \A c \in Chats :
      LET h == history[c] IN
      /\ Len(h) <= HistoryCap
      /\ Len(h) % 2 = 0
      /\ \A i \in 1..Len(h) :
           /\ h[i].role = IF i % 2 = 1 THEN "user" ELSE "assistant"
           /\ i % 2 = 1 => h[i + 1].msg = h[i].msg

\* The slice read when agent.ask started is still the recent history when the
\* answer is recorded: no other turn of the chat slips in between.
WindowCurrent ==
    \A m \in Messages :
      pc[m] \in InFlight => window[m] = LastN(history[ChatOf[m]], AskWindow)

\* However often a message is parked and taken up again, no turn is recorded
\* twice, and one that still waits, or was displaced, has neither a turn nor an
\* after_chat task.
AnsweredOnce ==
    \A m \in Messages :
      LET h == history[ChatOf[m]]
          turns == {i \in 1..Len(h) : h[i] = [role |-> "assistant", msg |-> m]} IN
      /\ Cardinality(turns) <= 1
      /\ turns # {} => m \in learned
      /\ pc[m] \in {"routing", "queued", "parked", "displaced"} \cup InFlight
           => turns = {} /\ m \notin learned

\* A message whose handler awaits the reply gets every piece of it.
AwaitedReplyDelivered ==
    \A m \in Messages :
      pc[m] = "finished" /\ m \notin rerun => out[m] = chunks[m]

\* Every delivered message is settled: answered, displaced, or lost with the
\* process; in particular no parked message waits for ever.
EventuallySettled ==
    \A m \in Messages : (pc[m] # "idle") ~> (pc[m] \in Terminal)

\* bot.py says a message that arrives while its chat is busy is no longer
\* silently dropped but processed afterwards: its reply reaches the chat.
PendingReplyDelivered ==
    \A m \in Messages :
      pc[m] = "finished" /\ m \in rerun => out[m] = chunks[m]
=============================================================================
