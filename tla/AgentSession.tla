----------------------------- MODULE AgentSession -----------------------------
(* The agent thread (agent/agent_loop.c), which answers one message after the  *)
(* other, and the session files it remembers conversations in                  *)
(* (memory/session_mgr.c).  A message is [chat, n]: the n-th message received; *)
(* what it says is not modelled.  The process may be killed at any point and   *)
(* starts again with the files it left.                                        *)
EXTENDS Naturals, Sequences, FiniteSets

CONSTANTS
    Chats,          \* chat ids
    MAX_HISTORY,    \* T113CLAW_AGENT_MAX_HISTORY
    MAX_TOOL_ITER,  \* T113CLAW_AGENT_MAX_TOOL_ITER
    QUEUE_LEN,      \* T113CLAW_BUS_QUEUE_LEN, of either queue
    MaxMsgs,        \* bound: messages ever received
    MaxCrashes      \* bound: how often the process is killed

ASSUME AgentAssumption ==
    /\ MAX_HISTORY \in Nat \ {0} /\ MAX_TOOL_ITER \in Nat \ {0}
    /\ QUEUE_LEN \in Nat \ {0} /\ MaxMsgs \in Nat /\ MaxCrashes \in Nat

\* 20 lines, so that the window cuts no question from its answer (t113claw_config.h:126).
ASSUME WindowAssumption == MAX_HISTORY % 2 = 0

VARIABLES
    file,           \* session file of each chat: its lines, oldest first
    unended,        \* chats whose file does not end in a newline
    inbound,        \* messages waiting for the agent
    received,       \* how many messages there were
    apc,            \* agent thread: where it is
    cur,            \* the message it handles
    ctx,            \* the messages array it sends to the LLM
    iter,           \* its LLM calls for this message
    inTool,         \* it is executing the tools the LLM has asked for
    outbound,       \* replies waiting for the dispatcher
    sent,           \* replies handed to their channel, oldest first (history)
    crashes,        \* how often the process was killed
    damaged         \* a line was not written, or not to its end (history)

disk == <<file, unended, damaged>>
bus == <<inbound, received, outbound, sent>>
turn == <<cur, ctx, iter>>
vars == <<disk, bus, turn, apc, inTool, crashes>>

Messages == [chat : Chats, n : 1 .. MaxMsgs]
NoMessage == [chat |-> CHOOSE c \in Chats : TRUE, n |-> 0]
\* A line of a session file, and an entry of the messages array.  "bad" is a line
\* that does not parse; "tools" a round of tool calls with all their results.
Entries == [role : {"user", "assistant", "tools", "bad"}, n : 1 .. MaxMsgs]
User(m) == [role |-> "user", n |-> m.n]
Assistant(m) == [role |-> "assistant", n |-> m.n]
Tools(m) == [role |-> "tools", n |-> m.n]
Parses(line) == line.role # "bad"

-------------------------------------------------------------------------------
\* session_append: the line is added, unless the file cannot be opened.  After a
\* file that does not end in a newline it becomes part of the last line, of which
\* only the first object is ever read.
Save(c, line) ==
    \/ /\ file' = IF c \in unended THEN file
                  ELSE [file EXCEPT ![c] = Append(@, line)]
       /\ unended' = unended \ {c}
       /\ UNCHANGED damaged
    \/ damaged' = TRUE /\ UNCHANGED <<file, unended>>

\* session_get_history_json: the last MAX_HISTORY lines, those that parse.  A line
\* counts if it has its newline.  Kept(lines)[k] is the array after k lines.
FirstLineOffByOne(c) ==
    LET total == Len(file[c]) - Cardinality(unended \cap {c})
    IN  IF total > MAX_HISTORY THEN total - MAX_HISTORY + 2 ELSE 1
FirstLine(c) ==
    LET total == Len(file[c]) - Cardinality(unended \cap {c})
    IN  IF total > MAX_HISTORY THEN total - MAX_HISTORY + 1 ELSE 1
Kept(lines) ==
    LET kept[k \in 0 .. Len(lines)] ==
          IF k = 0 THEN <<>>
          ELSE IF Parses(lines[k]) THEN Append(kept[k - 1], lines[k]) ELSE kept[k - 1]
    IN  kept
History(c) ==
    LET window == SubSeq(file[c], FirstLine(c), Len(file[c]))
    IN  Kept(window)[Len(window)]

-------------------------------------------------------------------------------
Init ==
    /\ file = [c \in Chats |-> <<>>] /\ unended = {}
    /\ inbound = <<>> /\ received = 0 /\ outbound = <<>> /\ sent = <<>>
    /\ apc = "idle" /\ cur = NoMessage /\ ctx = <<>> /\ iter = 0
    /\ inTool = FALSE /\ crashes = 0 /\ damaged = FALSE

\* A channel or the cron thread pushes a message.
Receive(c) ==
    /\ received < MaxMsgs /\ Len(inbound) < QUEUE_LEN
    /\ received' = received + 1
    /\ inbound' = Append(inbound, [chat |-> c, n |-> received + 1])
    /\ UNCHANGED <<disk, turn, apc, inTool, crashes, outbound, sent>>

Take ==
    /\ apc = "idle" /\ inbound # <<>>
    /\ cur' = Head(inbound) /\ inbound' = Tail(inbound)
    /\ apc' = "load"
    /\ UNCHANGED <<disk, received, outbound, sent, ctx, iter, crashes>>

\* No memory for the system prompt: the message is dropped without an answer.
OutOfMemory ==
    /\ apc = "load"
    /\ apc' = "idle" /\ cur' = NoMessage
    /\ UNCHANGED <<disk, bus, ctx, iter, crashes>>

\* The history is read before the question is saved; the question is put after it.
LoadHistory ==
    /\ apc = "load"
    /\ ctx' = Append(History(cur.chat), User(cur)) /\ iter' = 0
    /\ apc' = "saveUser"
    /\ UNCHANGED <<disk, bus, cur, crashes>>

SaveUserThenLoad ==
    /\ apc = "saveUser"
    /\ apc' = "ask"
    /\ UNCHANGED <<bus, cur, iter, crashes>>
    /\ Save(cur.chat, User(cur))
    /\ ctx' = Append(History(cur.chat)', User(cur))
SaveUserIfNew ==
    /\ apc = "saveUser"
    /\ IF Len(ctx) = 1 THEN Save(cur.chat, User(cur)) ELSE UNCHANGED disk
    /\ apc' = "ask"
    /\ UNCHANGED <<bus, turn, crashes>>
SaveUser ==
    /\ apc = "saveUser"
    /\ Save(cur.chat, User(cur))
    /\ apc' = "ask"
    /\ UNCHANGED <<bus, turn, crashes>>

\* One LLM call that asks for tools: each is executed and the round is appended.
AskForTools ==
    /\ apc = "ask" /\ ~inTool /\ iter < MAX_TOOL_ITER
    /\ inTool' = TRUE
    /\ UNCHANGED <<disk, bus, turn, apc, crashes>>
ToolRound ==
    /\ apc = "ask" /\ inTool /\ iter < MAX_TOOL_ITER
    /\ inTool' = FALSE
    /\ ctx' = Append(ctx, Tools(cur)) /\ iter' = iter + 1
    /\ UNCHANGED <<disk, bus, apc, cur, crashes>>

\* One LLM call that gives an answer or fails, or none because too many asked for
\* tools: there is a text to reply with.
HaveReplyOnlyFromLlm ==
    /\ apc = "ask" /\ ~inTool /\ iter < MAX_TOOL_ITER
    /\ apc' = "saveReply"
    /\ UNCHANGED <<disk, bus, turn, crashes>>
HaveReply ==
    /\ apc = "ask" /\ ~inTool
    /\ apc' = "saveReply"
    /\ UNCHANGED <<disk, bus, turn, crashes>>

SaveReplyOnlyIfShort ==
    /\ apc = "saveReply"
    /\ IF iter = 0 THEN Save(cur.chat, Assistant(cur)) ELSE UNCHANGED disk
    /\ apc' = "push"
    /\ UNCHANGED <<bus, turn, crashes>>
SaveReply ==
    /\ apc = "saveReply"
    /\ Save(cur.chat, Assistant(cur))
    /\ apc' = "push"
    /\ UNCHANGED <<bus, turn, crashes>>

\* message_bus_push_outbound; a full queue refuses the reply, which is lost.
PushReplyNewestFirst ==
    /\ apc = "push"
    /\ outbound' = IF Len(outbound) < QUEUE_LEN THEN <<cur>> \o outbound ELSE outbound
    /\ apc' = "idle" /\ cur' = NoMessage
    /\ UNCHANGED <<disk, inbound, received, sent, ctx, iter, crashes>>
PushReply ==
    /\ apc = "push"
    /\ outbound' = IF Len(outbound) < QUEUE_LEN THEN Append(outbound, cur) ELSE outbound
    /\ apc' = "idle" /\ cur' = NoMessage
    /\ UNCHANGED <<disk, inbound, received, sent, ctx, iter, crashes>>

\* The main thread hands the oldest reply to the channel of its chat.
Dispatch ==
    /\ outbound # <<>>
    /\ sent' = Append(sent, Head(outbound)) /\ outbound' = Tail(outbound)
    /\ UNCHANGED <<disk, turn, apc, inTool, crashes, inbound, received>>

\* The process is killed and started again.  While a line is written, a part of it
\* may have reached the file: none, all but the newline, or less.
Crash ==
    /\ crashes < MaxCrashes
    /\ crashes' = crashes + 1
    /\ \/ UNCHANGED disk
       \/ /\ apc \in {"saveUser", "saveReply"}
          /\ \E role \in {IF apc = "saveUser" THEN "user" ELSE "assistant", "bad"} :
               file' = IF cur.chat \in unended THEN file
                       ELSE [file EXCEPT ![cur.chat] =
                                Append(@, [role |-> role, n |-> cur.n])]
          /\ unended' = unended \cup {cur.chat} /\ damaged' = TRUE
    /\ apc' = "idle" /\ cur' = NoMessage /\ ctx' = <<>> /\ iter' = 0
    /\ inTool' = FALSE
    /\ inbound' = <<>> /\ outbound' = <<>>
    /\ UNCHANGED <<received, sent>>

Agent ==
    \/ /\ UNCHANGED inTool
       /\ \/ Take \/ OutOfMemory \/ LoadHistory \/ SaveUser \/ HaveReply
          \/ SaveReply \/ PushReply
    \/ AskForTools \/ ToolRound

Next ==
    \/ \E c \in Chats : Receive(c)
    \/ Agent \/ Dispatch \/ Crash

Spec == Init /\ [][Next]_vars

\* The agent thread and the main thread run while the program does.  An LLM call
\* returns, by its HTTP timeout at the latest; a tool need not: tool_exec reads the
\* command's output, and then waits for its end, until an alarm interrupts it that the
\* process has one of and that another thread may be given.
Fairness == WF_vars(~inTool /\ Agent) /\ WF_vars(Dispatch)
FairSpec == Spec /\ Fairness

-------------------------------------------------------------------------------
TypeOK ==
    /\ file \in [Chats -> Seq(Entries)] /\ unended \subseteq Chats
    /\ inbound \in Seq(Messages) /\ Len(inbound) <= QUEUE_LEN
    /\ received \in 0 .. MaxMsgs
    /\ apc \in {"idle", "load", "saveUser", "ask", "saveReply", "push"}
    /\ cur \in Messages \cup {NoMessage} /\ (apc # "idle" => cur \in Messages)
    /\ ctx \in Seq(Entries) /\ iter \in 0 .. MAX_TOOL_ITER /\ inTool \in BOOLEAN
    /\ outbound \in Seq(Messages) /\ Len(outbound) <= QUEUE_LEN
    /\ sent \in Seq(Messages)
    /\ crashes \in 0 .. MaxCrashes /\ damaged \in BOOLEAN

Places(entry, s) == {k \in 1 .. Len(s) : s[k] = entry}

\* The LLM is asked the current question once: it is in the messages array in one
\* place, after the whole history and before the tool rounds, though it is saved
\* to the file the history comes from.
AskedOnce ==
    apc = "ask" =>
        \E k \in 1 .. Len(ctx) :
            /\ Places(User(cur), ctx) = {k}
            /\ \A l \in k + 1 .. Len(ctx) : ctx[l] = Tools(cur)
            /\ \A l \in 1 .. k - 1 : ctx[l].role \in {"user", "assistant"}

\* While nothing is killed and every line written the history alternates: it begins with
\* a question and every question is followed by its own answer, however the window
\* is cut and whatever runs out of memory.
ContextAlternates ==
    apc = "ask" /\ crashes = 0 /\ ~damaged =>
        \A k \in 1 .. Len(ctx) - iter :
            /\ k % 2 = 1 => ctx[k].role = "user"
            /\ k % 2 = 0 => ctx[k] = [role |-> "assistant", n |-> ctx[k - 1].n]

\* Even if the process is killed between two lines no answer is taken for that of another
\* question: it stands behind its own, or is the first line left of the window.
AnswersFollow ==
    apc = "ask" /\ ~damaged =>
        \A k \in 2 .. Len(ctx) :
            ctx[k].role = "assistant" => ctx[k - 1] = [role |-> "user", n |-> ctx[k].n]

\* What the user is told is remembered: a reply that is on its way or has been
\* sent is in the session file, whenever the process is killed.
RepliesRecorded ==
    ~damaged =>
        \A s \in {outbound, sent} : \A k \in 1 .. Len(s) :
            Places(Assistant(s[k]), file[s[k].chat]) # {}

\* Every message gets at most one reply, and the replies come in the order of the
\* messages, whatever is refused, dropped or lost on the way.
RepliesInOrder ==
    LET replies == sent \o outbound
    IN  \A k, l \in 1 .. Len(replies) : k < l => replies[k].n < replies[l].n

\* The agent is done with every message some time, however many tools the LLM asks for,
\* unless it stays in one of them: no limit on a tool's time is sure to hold.
TurnEnds == []<>~inTool => ((apc # "idle") ~> (apc = "idle"))
===============================================================================
