-------------------------- MODULE AgentSessionProofs --------------------------
(* For any chats, window, queues and any number of crashes: replies leave in   *)
(* the order of the messages, what was told is in the session file, and the    *)
(* LLM is sent the current question once, behind a history that alternates.    *)
EXTENDS AgentSession, FiniteSetTheorems, WellFoundedInduction, TLAPS

\* The types the proofs need; what the LLM is sent is not among them.
AgentType ==
    /\ file \in [Chats -> Seq(Entries)] /\ unended \subseteq Chats
    /\ inbound \in Seq(Messages) /\ outbound \in Seq(Messages) /\ sent \in Seq(Messages)
    /\ received \in 0 .. MaxMsgs
    /\ apc \in {"idle", "load", "saveUser", "ask", "saveReply", "push"}
    /\ apc # "idle" => cur \in Messages

\* A message is in one place at a time, and these are passed in the order sent,
\* outbound, the agent, inbound, not yet received: older messages are further on.
Rising(s) == \A k, l \in 1 .. Len(s) : k < l => s[k].n < s[l].n
Before(s, t) == \A k \in 1 .. Len(s), l \in 1 .. Len(t) : s[k].n < t[l].n
Past(s, n) == \A k \in 1 .. Len(s) : s[k].n <= n
Older(s, n) == \A k \in 1 .. Len(s) : s[k].n < n

OrderInv ==
    /\ Rising(sent) /\ Rising(outbound) /\ Rising(inbound)
    /\ Before(sent, outbound) /\ Before(sent, inbound) /\ Before(outbound, inbound)
    /\ Past(sent, received) /\ Past(outbound, received) /\ Past(inbound, received)
    /\ apc # "idle" =>
         /\ Older(sent, cur.n) /\ Older(outbound, cur.n)
         /\ \A k \in 1 .. Len(inbound) : cur.n < inbound[k].n
         /\ cur.n <= received

\* The reply in the agent's hand is in the file too, and while nothing is damaged
\* every line that is appended is one of its own.
Recorded(m) == Places(Assistant(m), file[m.chat]) # {}
RecordInv ==
    ~damaged =>
        /\ unended = {}
        /\ apc = "push" => Recorded(cur)
        /\ \A k \in 1 .. Len(outbound) : Recorded(outbound[k])
        /\ \A k \in 1 .. Len(sent) : Recorded(sent[k])

LEMMA InitAgent == Init => AgentType /\ OrderInv /\ RecordInv
BY AgentAssumption
   DEF Init, AgentType, OrderInv, RecordInv, Rising, Before, Past

\* What appending and taking the head do to a sequence.
LEMMA AppendFacts ==
    ASSUME NEW S, NEW s \in Seq(S), NEW m \in S
    PROVE  /\ Append(s, m) \in Seq(S) /\ Len(s) \in Nat /\ Len(Append(s, m)) = Len(s) + 1
           /\ \A k \in 1 .. Len(s) : Append(s, m)[k] = s[k]
           /\ Append(s, m)[Len(s) + 1] = m
           /\ \A k \in 1 .. Len(s) : s[k] \in S
OBVIOUS

LEMMA TailFacts ==
    ASSUME NEW S, NEW s \in Seq(S), s # <<>>
    PROVE  /\ Tail(s) \in Seq(S) /\ Head(s) \in S /\ Head(s) = s[1]
           /\ Len(s) \in Nat \ {0} /\ Len(Tail(s)) = Len(s) - 1
           /\ \A k \in 1 .. Len(s) - 1 : Tail(s)[k] = s[k + 1]
OBVIOUS

\* A line saved keeps all earlier lines of every file.
LEMMA SaveFacts ==
    ASSUME AgentType, NEW c \in Chats, NEW line \in Entries, Save(c, line)
    PROVE  /\ file' \in [Chats -> Seq(Entries)] /\ unended' \subseteq Chats
           /\ \A d \in Chats, e \in Entries :
                Places(e, file[d]) # {} => Places(e, file'[d]) # {}
           /\ ~damaged' => ~damaged
           /\ ~damaged' /\ unended = {} =>
                unended' = {} /\ Places(line, file'[c]) # {}
<1>1. file \in [Chats -> Seq(Entries)] /\ unended \subseteq Chats
  BY DEF AgentType
<1>2. CASE damaged' = TRUE /\ UNCHANGED <<file, unended>>
  BY <1>1, <1>2
<1>3. CASE /\ file' = IF c \in unended THEN file
                      ELSE [file EXCEPT ![c] = Append(file[c], line)]
           /\ unended' = unended \ {c} /\ UNCHANGED damaged
  <2>1. CASE c \in unended
    BY <1>1, <1>3, <2>1
  <2>2. CASE c \notin unended
    <3>1. file[c] \in Seq(Entries)
      BY <1>1
    <3>2. /\ Append(file[c], line) \in Seq(Entries) /\ Len(file[c]) \in Nat
          /\ Len(Append(file[c], line)) = Len(file[c]) + 1
          /\ \A k \in 1 .. Len(file[c]) : Append(file[c], line)[k] = file[c][k]
          /\ Append(file[c], line)[Len(file[c]) + 1] = line
      BY <3>1, AppendFacts
    <3>3. /\ file' \in [Chats -> Seq(Entries)] /\ file'[c] = Append(file[c], line)
          /\ \A d \in Chats : d # c => file'[d] = file[d]
      BY <1>1, <1>3, <2>2, <3>2
    <3>4. ASSUME NEW e \in Entries, Places(e, file[c]) # {}
          PROVE  Places(e, file'[c]) # {}
      <4>1. PICK k \in 1 .. Len(file[c]) : file[c][k] = e
        BY <3>4 DEF Places
      <4>2. k \in 1 .. Len(file'[c]) /\ file'[c][k] = e
        BY <3>2, <3>3, <4>1
      <4>3. QED
        BY <4>2 DEF Places
    <3>5. Places(line, file'[c]) # {}
      <4>1. Len(file[c]) + 1 \in 1 .. Len(file'[c]) /\ file'[c][Len(file[c]) + 1] = line
        BY <3>2, <3>3
      <4>2. QED
        BY <4>1 DEF Places
    <3>6. \A d \in Chats, e \in Entries :
            Places(e, file[d]) # {} => Places(e, file'[d]) # {}
      BY <3>3, <3>4
    <3>7. QED
      BY <1>1, <1>3, <3>3, <3>5, <3>6
  <2>3. QED
    BY <2>1, <2>2
<1>4. QED
  BY <1>2, <1>3 DEF Save

\* What keeps the files, and the replies under way, keeps every reply recorded.
LEMMA RecordStays ==
    ASSUME AgentType, RecordInv, UNCHANGED <<file, unended, sent, damaged>>,
           outbound' = outbound \/ outbound' = <<>>,
           apc' = "push" => apc = "push" /\ cur' = cur
    PROVE  RecordInv'
<1>1. \A m \in Messages : Recorded(m)' <=> Recorded(m)
  BY DEF Recorded, Places, Assistant
<1>2. /\ \A k \in 1 .. Len(outbound) : outbound[k] \in Messages
      /\ \A k \in 1 .. Len(sent) : sent[k] \in Messages
  BY DEF AgentType
<1> SUFFICES ASSUME ~damaged'
             PROVE  /\ unended' = {}
                    /\ apc' = "push" => Recorded(cur)'
                    /\ \A k \in 1 .. Len(outbound') : Recorded(outbound[k])'
                    /\ \A k \in 1 .. Len(sent') : Recorded(sent[k])'
  BY DEF RecordInv
<1>3. unended' = {}
  BY DEF RecordInv
<1>4. apc' = "push" => Recorded(cur)'
  BY DEF RecordInv, Recorded, Places, Assistant
<1>5. \A k \in 1 .. Len(outbound') : Recorded(outbound[k])'
  <2>1. CASE outbound' = outbound
    BY <1>1, <1>2, <2>1 DEF RecordInv, Recorded
  <2>2. CASE outbound' = <<>>
    BY <2>2
  <2>3. QED
    BY <2>1, <2>2
<1>6. \A k \in 1 .. Len(sent') : Recorded(sent[k])'
  BY <1>1, <1>2 DEF RecordInv, Recorded
<1>7. QED
  BY <1>3, <1>4, <1>5, <1>6

\* What a step that touches no queue and no file leaves.
LEMMA QuietKeeps ==
    ASSUME AgentType, OrderInv, RecordInv,
           UNCHANGED <<file, unended, inbound, outbound, sent, received, damaged>>,
           apc' \in {"idle", "load", "saveUser", "ask", "saveReply"},
           apc' # "idle" => apc # "idle" /\ cur' = cur
    PROVE  AgentType' /\ OrderInv' /\ RecordInv'
<1>1. AgentType'
  BY DEF AgentType
<1>2. OrderInv'
  BY DEF OrderInv, Rising, Before, Past, Older
<1>3. RecordInv'
  BY RecordStays
<1>4. QED
  BY <1>1, <1>2, <1>3

LEMMA ReceiveKeeps ==
    ASSUME AgentType, OrderInv, RecordInv, NEW c \in Chats, Receive(c)
    PROVE  AgentType' /\ OrderInv' /\ RecordInv'
<1> DEFINE new == [chat |-> c, n |-> received + 1]
<1>1. /\ received \in Nat /\ received + 1 \in 1 .. MaxMsgs /\ received' = received + 1
      /\ inbound' = Append(inbound, new)
      /\ UNCHANGED <<file, unended, damaged, cur, apc, outbound, sent>>
  BY AgentAssumption DEF Receive, AgentType, disk, turn
<1>2. new \in Messages /\ new.n = received + 1
  BY <1>1 DEF Messages
<1> HIDE DEF new
<1>3. /\ inbound' \in Seq(Messages) /\ Len(inbound) \in Nat
      /\ Len(inbound') = Len(inbound) + 1
      /\ \A k \in 1 .. Len(inbound) : inbound'[k] = inbound[k]
      /\ inbound'[Len(inbound) + 1] = new
  BY <1>1, <1>2, AppendFacts DEF AgentType
<1>4. \A k \in 1 .. Len(inbound') :
        \/ k \in 1 .. Len(inbound) /\ inbound'[k] = inbound[k]
        \/ k = Len(inbound) + 1 /\ inbound'[k].n = received + 1
  BY <1>2, <1>3
<1>5. /\ \A k \in 1 .. Len(inbound) : inbound[k].n \in Nat
      /\ \A k \in 1 .. Len(outbound) : outbound[k].n \in Nat
      /\ \A k \in 1 .. Len(sent) : sent[k].n \in Nat
      /\ apc # "idle" => cur.n \in Nat
  <2>1. \A m \in Messages : m.n \in Nat
    BY DEF Messages
  <2>2. QED
    BY <2>1 DEF AgentType
<1>6. AgentType'
  BY <1>1, <1>3 DEF AgentType
<1>7. Rising(inbound') /\ Past(inbound', received')
  BY <1>1, <1>3, <1>4, <1>5 DEF OrderInv, Rising, Past
<1>8. /\ Before(sent, inbound') /\ Before(outbound, inbound')
      /\ Past(sent, received') /\ Past(outbound, received')
  BY <1>1, <1>4, <1>5 DEF OrderInv, Before, Past
<1>9. apc # "idle" => cur.n <= received' /\ \A k \in 1 .. Len(inbound') : cur.n < inbound'[k].n
  BY <1>1, <1>4, <1>5 DEF OrderInv
<1>10. OrderInv'
  BY <1>1, <1>7, <1>8, <1>9 DEF OrderInv, Rising, Before, Older
<1>11. RecordInv'
  BY <1>1, RecordStays
<1>12. QED
  BY <1>6, <1>10, <1>11

LEMMA TakeKeeps ==
    ASSUME AgentType, OrderInv, RecordInv, Take
    PROVE  AgentType' /\ OrderInv' /\ RecordInv'
<1>1. /\ inbound # <<>> /\ inbound' = Tail(inbound) /\ cur' = Head(inbound) /\ apc' = "load"
      /\ UNCHANGED <<file, unended, damaged, received, outbound, sent>>
  BY DEF Take, disk
<1>2. /\ inbound' \in Seq(Messages) /\ cur' \in Messages /\ cur' = inbound[1]
      /\ Len(inbound) \in Nat \ {0} /\ Len(inbound') = Len(inbound) - 1
      /\ \A k \in 1 .. Len(inbound) - 1 : inbound'[k] = inbound[k + 1]
  BY <1>1, TailFacts DEF AgentType
<1>3. AgentType'
  BY <1>1, <1>2 DEF AgentType
<1>4. /\ 1 \in 1 .. Len(inbound)
      /\ \A k \in 1 .. Len(inbound') :
           k \in Nat /\ k + 1 \in 1 .. Len(inbound) /\ inbound'[k] = inbound[k + 1] /\ 1 < k + 1
      /\ \A k, l \in 1 .. Len(inbound') : k < l => k + 1 < l + 1
  BY <1>2
<1>5. /\ Rising(inbound') /\ Before(sent, inbound') /\ Before(outbound, inbound')
      /\ Past(inbound', received)
      /\ Older(sent, cur'.n) /\ Older(outbound, cur'.n) /\ cur'.n <= received
      /\ \A k \in 1 .. Len(inbound') : cur'.n < inbound'[k].n
  BY <1>2, <1>4 DEF OrderInv, Rising, Before, Past, Older
<1>6. OrderInv'
  BY <1>1, <1>5 DEF OrderInv, Rising, Before, Past, Older
<1>7. RecordInv'
  BY <1>1, RecordStays
<1>8. QED
  BY <1>3, <1>6, <1>7

\* Saving a line: the question, or the reply that is then pushed.
LEMMA SaveKeeps ==
    ASSUME AgentType, OrderInv, RecordInv, SaveUser \/ SaveReply
    PROVE  AgentType' /\ OrderInv' /\ RecordInv'
<1>1. /\ apc # "idle" /\ cur \in Messages
      /\ UNCHANGED <<inbound, outbound, sent, received, cur>>
      /\ \/ apc' = "ask" /\ Save(cur.chat, User(cur))
         \/ apc' = "push" /\ Save(cur.chat, Assistant(cur))
  BY DEF SaveUser, SaveReply, AgentType, bus, turn
<1>2. cur.chat \in Chats /\ User(cur) \in Entries /\ Assistant(cur) \in Entries
  BY <1>1 DEF Messages, Entries, User, Assistant
<1>3. /\ file' \in [Chats -> Seq(Entries)] /\ unended' \subseteq Chats
      /\ \A d \in Chats, e \in Entries :
           Places(e, file[d]) # {} => Places(e, file'[d]) # {}
      /\ ~damaged' => ~damaged
      /\ ~damaged' /\ unended = {} =>
           unended' = {} /\ (apc' = "push" => Places(Assistant(cur), file'[cur.chat]) # {})
  BY <1>1, <1>2, SaveFacts
<1>4. AgentType'
  BY <1>1, <1>3 DEF AgentType
<1>5. OrderInv'
  BY <1>1 DEF OrderInv, Rising, Before, Past, Older
<1>6. \A m \in Messages : m.chat \in Chats /\ Assistant(m) \in Entries
  BY DEF Messages, Entries, Assistant
<1>7. \A m \in Messages : Recorded(m) => Places(Assistant(m), file'[m.chat]) # {}
  BY <1>3, <1>6 DEF Recorded
<1>8. /\ \A k \in 1 .. Len(outbound) : outbound[k] \in Messages
      /\ \A k \in 1 .. Len(sent) : sent[k] \in Messages
  BY DEF AgentType
<1>9. RecordInv'
  <2> SUFFICES ASSUME ~damaged'
               PROVE  /\ unended' = {}
                      /\ apc' = "push" => Recorded(cur)'
                      /\ \A k \in 1 .. Len(outbound') : Recorded(outbound[k])'
                      /\ \A k \in 1 .. Len(sent') : Recorded(sent[k])'
    BY DEF RecordInv
  <2>1. /\ unended = {}
        /\ \A k \in 1 .. Len(outbound) : Recorded(outbound[k])
        /\ \A k \in 1 .. Len(sent) : Recorded(sent[k])
    BY <1>3 DEF RecordInv
  <2>2. QED
    BY <1>1, <1>3, <1>7, <1>8, <2>1 DEF Recorded, Assistant
<1>10. QED
  BY <1>4, <1>5, <1>9

LEMMA PushKeeps ==
    ASSUME AgentType, OrderInv, RecordInv, PushReply
    PROVE  AgentType' /\ OrderInv' /\ RecordInv'
<1>1. /\ apc = "push" /\ apc' = "idle" /\ cur \in Messages
      /\ UNCHANGED <<file, unended, damaged, inbound, received, sent>>
  BY DEF PushReply, AgentType, disk
<1>2. CASE outbound' = outbound
  <2>1. AgentType' /\ OrderInv'
    BY <1>1, <1>2 DEF AgentType, OrderInv, Rising, Before, Past
  <2>2. RecordInv'
    BY <1>1, <1>2, RecordStays
  <2>3. QED
    BY <2>1, <2>2
<1>3. CASE outbound' = Append(outbound, cur)
  <2>1. /\ outbound' \in Seq(Messages) /\ Len(outbound) \in Nat
        /\ Len(outbound') = Len(outbound) + 1
        /\ \A k \in 1 .. Len(outbound) : outbound'[k] = outbound[k]
        /\ outbound'[Len(outbound) + 1] = cur
    BY <1>1, <1>3, AppendFacts DEF AgentType
  <2>2. \A k \in 1 .. Len(outbound') :
          \/ k \in 1 .. Len(outbound) /\ outbound'[k] = outbound[k]
          \/ k = Len(outbound) + 1 /\ outbound'[k] = cur
    BY <2>1
  <2>3. AgentType'
    BY <1>1, <2>1 DEF AgentType
  <2>4. /\ Older(sent, cur.n) /\ Older(outbound, cur.n) /\ cur.n <= received
        /\ \A k \in 1 .. Len(inbound) : cur.n < inbound[k].n
    BY <1>1 DEF OrderInv
  <2>5. Rising(outbound')
    BY <2>1, <2>2, <2>4 DEF OrderInv, Rising, Older
  <2>6. Before(sent, outbound') /\ Before(outbound', inbound) /\ Past(outbound', received)
    BY <2>2, <2>4 DEF OrderInv, Before, Past, Older
  <2>7. OrderInv'
    BY <1>1, <2>5, <2>6 DEF OrderInv, Rising, Before, Past
  <2>8. RecordInv'
    <3>1. \A m \in Messages : Recorded(m)' <=> Recorded(m)
      BY <1>1 DEF Recorded, Places, Assistant
    <3>2. \A k \in 1 .. Len(sent) : sent[k] \in Messages
      BY DEF AgentType
    <3>3. \A k \in 1 .. Len(outbound) : outbound[k] \in Messages
      BY DEF AgentType
    <3> SUFFICES ASSUME ~damaged'
                 PROVE  /\ unended' = {}
                        /\ apc' = "push" => Recorded(cur)'
                        /\ \A k \in 1 .. Len(outbound') : Recorded(outbound[k])'
                        /\ \A k \in 1 .. Len(sent') : Recorded(sent[k])'
      BY DEF RecordInv
    <3>4. unended' = {} /\ apc' # "push"
      BY <1>1 DEF RecordInv
    <3>5. \A k \in 1 .. Len(sent') : Recorded(sent[k])'
      BY <1>1, <3>1, <3>2 DEF RecordInv, Recorded
    <3>6. \A k \in 1 .. Len(outbound') : Recorded(outbound[k])'
      BY <1>1, <2>2, <3>1, <3>3 DEF RecordInv, Recorded
    <3>7. QED
      BY <3>4, <3>5, <3>6
  <2>9. QED
    BY <2>3, <2>7, <2>8
<1>4. QED
  BY <1>2, <1>3 DEF PushReply

LEMMA DispatchKeeps ==
    ASSUME AgentType, OrderInv, RecordInv, Dispatch
    PROVE  AgentType' /\ OrderInv' /\ RecordInv'
<1>1. /\ outbound # <<>> /\ outbound' = Tail(outbound)
      /\ sent' = Append(sent, Head(outbound))
      /\ UNCHANGED <<file, unended, damaged, inbound, received, cur, apc>>
  BY DEF Dispatch, disk, turn
<1>2. /\ outbound' \in Seq(Messages) /\ Head(outbound) \in Messages
      /\ Head(outbound) = outbound[1]
      /\ Len(outbound) \in Nat \ {0} /\ Len(outbound') = Len(outbound) - 1
      /\ \A k \in 1 .. Len(outbound) - 1 : outbound'[k] = outbound[k + 1]
  BY <1>1, TailFacts DEF AgentType
<1>3. /\ sent' \in Seq(Messages) /\ Len(sent) \in Nat /\ Len(sent') = Len(sent) + 1
      /\ \A k \in 1 .. Len(sent) : sent'[k] = sent[k]
      /\ sent'[Len(sent) + 1] = outbound[1]
  BY <1>1, <1>2, AppendFacts DEF AgentType
<1>4. AgentType'
  BY <1>1, <1>2, <1>3 DEF AgentType
<1>5. /\ 1 \in 1 .. Len(outbound)
      /\ \A k \in 1 .. Len(outbound') :
           k \in Nat /\ k + 1 \in 1 .. Len(outbound) /\ outbound'[k] = outbound[k + 1]
               /\ 1 < k + 1
      /\ \A k, l \in 1 .. Len(outbound') : k < l => k + 1 < l + 1
  BY <1>2
<1>6. \A k \in 1 .. Len(sent') :
        \/ k \in 1 .. Len(sent) /\ sent'[k] = sent[k]
        \/ k = Len(sent) + 1 /\ sent'[k] = outbound[1]
  BY <1>3
<1>7. Rising(outbound') /\ Before(outbound', inbound) /\ Past(outbound', received)
  BY <1>5 DEF OrderInv, Rising, Before, Past
<1>8. Rising(sent')
  BY <1>3, <1>5, <1>6 DEF OrderInv, Rising, Before
<1>9. Before(sent', outbound') /\ Before(sent', inbound) /\ Past(sent', received)
  BY <1>5, <1>6 DEF OrderInv, Rising, Before, Past
<1>10. apc # "idle" => Older(sent', cur.n) /\ Older(outbound', cur.n)
  BY <1>5, <1>6 DEF OrderInv, Older
<1>11. OrderInv'
  BY <1>1, <1>7, <1>8, <1>9, <1>10 DEF OrderInv, Rising, Before, Past, Older
<1>12. RecordInv'
  <2>1. \A m \in Messages : Recorded(m)' <=> Recorded(m)
    BY <1>1 DEF Recorded, Places, Assistant
  <2>2. /\ \A k \in 1 .. Len(outbound) : outbound[k] \in Messages
        /\ \A k \in 1 .. Len(sent) : sent[k] \in Messages
    BY DEF AgentType
  <2> SUFFICES ASSUME ~damaged'
               PROVE  /\ unended' = {}
                      /\ apc' = "push" => Recorded(cur)'
                      /\ \A k \in 1 .. Len(outbound') : Recorded(outbound[k])'
                      /\ \A k \in 1 .. Len(sent') : Recorded(sent[k])'
    BY DEF RecordInv
  <2>3. unended' = {} /\ (apc' = "push" => Recorded(cur)')
    BY <1>1 DEF RecordInv, Recorded, Places, Assistant
  <2>4. \A k \in 1 .. Len(outbound') : Recorded(outbound[k])'
    BY <1>1, <1>5, <2>1, <2>2 DEF RecordInv, Recorded
  <2>5. \A k \in 1 .. Len(sent') : Recorded(sent[k])'
    BY <1>1, <1>5, <1>6, <2>1, <2>2 DEF RecordInv, Recorded
  <2>6. QED
    BY <2>3, <2>4, <2>5
<1>13. QED
  BY <1>4, <1>11, <1>12

LEMMA CrashKeeps ==
    ASSUME AgentType, OrderInv, RecordInv, Crash
    PROVE  AgentType' /\ OrderInv' /\ RecordInv'
<1>1. /\ apc' = "idle" /\ inbound' = <<>> /\ outbound' = <<>>
      /\ UNCHANGED <<received, sent>>
      /\ \/ UNCHANGED <<file, unended, damaged>>
         \/ damaged' = TRUE
  BY DEF Crash, disk
<1>2. file' \in [Chats -> Seq(Entries)] /\ unended' \subseteq Chats
  <2>1. CASE UNCHANGED disk
    BY <2>1 DEF AgentType, disk
  <2>2. CASE /\ apc \in {"saveUser", "saveReply"}
             /\ \E role \in {IF apc = "saveUser" THEN "user" ELSE "assistant", "bad"} :
                  file' = IF cur.chat \in unended THEN file
                          ELSE [file EXCEPT ![cur.chat] =
                                   Append(@, [role |-> role, n |-> cur.n])]
             /\ unended' = unended \cup {cur.chat}
    <3>1. cur \in Messages /\ cur.chat \in Chats /\ cur.n \in 1 .. MaxMsgs
      BY <2>2 DEF AgentType, Messages
    <3>2. PICK role \in {"user", "assistant", "bad"} :
            file' = IF cur.chat \in unended THEN file
                    ELSE [file EXCEPT ![cur.chat] =
                             Append(@, [role |-> role, n |-> cur.n])]
      BY <2>2
    <3> DEFINE line == [role |-> role, n |-> cur.n]
    <3>3. line \in Entries
      BY <3>1 DEF Entries
    <3> HIDE DEF line
    <3>4. Append(file[cur.chat], line) \in Seq(Entries)
      BY <3>1, <3>3, AppendFacts DEF AgentType
    <3>5. file' = IF cur.chat \in unended THEN file
                  ELSE [file EXCEPT ![cur.chat] = Append(file[cur.chat], line)]
      BY <3>2 DEF line
    <3>6. QED
      BY <2>2, <3>1, <3>4, <3>5 DEF AgentType
  <2>3. QED
    BY <2>1, <2>2 DEF Crash
<1>3. AgentType'
  BY <1>1, <1>2 DEF AgentType
<1>4. OrderInv'
  BY <1>1 DEF OrderInv, Rising, Before, Past, AgentType
<1>5. RecordInv'
  <2>1. CASE UNCHANGED <<file, unended, damaged>>
    BY <1>1, <2>1, RecordStays
  <2>2. CASE damaged' = TRUE
    BY <2>2 DEF RecordInv
  <2>3. QED
    BY <1>1, <2>1, <2>2
<1>6. QED
  BY <1>3, <1>4, <1>5

LEMMA NextAgent ==
    AgentType /\ OrderInv /\ RecordInv /\ [Next]_vars => AgentType' /\ OrderInv' /\ RecordInv'
<1> SUFFICES ASSUME AgentType, OrderInv, RecordInv, [Next]_vars
             PROVE  AgentType' /\ OrderInv' /\ RecordInv'
  OBVIOUS
<1>1. CASE \E c \in Chats : Receive(c)
  BY <1>1, ReceiveKeeps
<1>2. CASE OutOfMemory \/ LoadHistory \/ AskForTools \/ ToolRound \/ HaveReply
  <2>1. /\ UNCHANGED <<file, unended, inbound, outbound, sent, received, damaged>>
        /\ apc' \in {"idle", "load", "saveUser", "ask", "saveReply"}
        /\ apc' # "idle" => apc # "idle" /\ cur' = cur
    BY <1>2 DEF OutOfMemory, LoadHistory, AskForTools, ToolRound, HaveReply, disk, bus, turn
  <2>2. QED
    BY <2>1, QuietKeeps
<1>3. CASE Take
  BY <1>3, TakeKeeps
<1>4. CASE SaveUser \/ SaveReply
  BY <1>4, SaveKeeps
<1>5. CASE PushReply
  BY <1>5, PushKeeps
<1>6. CASE Dispatch
  BY <1>6, DispatchKeeps
<1>7. CASE Crash
  BY <1>7, CrashKeeps
<1>8. CASE UNCHANGED vars
  <2>1. UNCHANGED <<file, unended, inbound, outbound, sent, received, damaged, apc, cur>>
    BY <1>8 DEF vars, disk, bus, turn
  <2>2. AgentType' /\ OrderInv'
    BY <2>1 DEF AgentType, OrderInv, Rising, Before, Past, Older
  <2>3. RecordInv'
    BY <2>1, RecordStays
  <2>4. QED
    BY <2>2, <2>3
<1>9. QED
  BY <1>1, <1>2, <1>3, <1>4, <1>5, <1>6, <1>7, <1>8 DEF Next, Agent

\* The inductive invariant holds always.
THEOREM AgentInvariant == Spec => [](AgentType /\ OrderInv /\ RecordInv)
BY InitAgent, NextAgent, PTL DEF Spec

\* Whatever is refused, dropped or lost with the process, each message gets at most
\* one reply and the replies come in the order of the messages.
THEOREM AgentRepliesInOrder == Spec => []RepliesInOrder
<1>1. AgentType /\ OrderInv => RepliesInOrder
  <2> SUFFICES ASSUME AgentType, OrderInv,
                      NEW k \in 1 .. Len(sent \o outbound),
                      NEW l \in 1 .. Len(sent \o outbound), k < l
               PROVE  (sent \o outbound)[k].n < (sent \o outbound)[l].n
    BY DEF RepliesInOrder
  <2>1. /\ sent \in Seq(Messages) /\ outbound \in Seq(Messages)
        /\ Len(sent) \in Nat /\ Len(outbound) \in Nat
        /\ Len(sent \o outbound) = Len(sent) + Len(outbound)
    BY DEF AgentType
  <2>2. \A j \in 1 .. Len(sent) + Len(outbound) :
          \/ j \in 1 .. Len(sent) /\ (sent \o outbound)[j] = sent[j]
          \/ /\ j - Len(sent) \in 1 .. Len(outbound)
             /\ (sent \o outbound)[j] = outbound[j - Len(sent)]
    BY <2>1
  <2>3. k \in Nat /\ l \in Nat /\ k - Len(sent) < l - Len(sent)
    BY <2>1
  <2>4. CASE l - Len(sent) \in 1 .. Len(outbound)
             /\ (sent \o outbound)[l] = outbound[l - Len(sent)]
    <3>1. CASE k \in 1 .. Len(sent) /\ (sent \o outbound)[k] = sent[k]
      BY <2>4, <3>1 DEF OrderInv, Before
    <3>2. CASE /\ k - Len(sent) \in 1 .. Len(outbound)
               /\ (sent \o outbound)[k] = outbound[k - Len(sent)]
      BY <2>3, <2>4, <3>2 DEF OrderInv, Rising
    <3>3. QED
      BY <2>1, <2>2, <3>1, <3>2
  <2>5. CASE l \in 1 .. Len(sent) /\ (sent \o outbound)[l] = sent[l]
    <3>1. k \in 1 .. Len(sent) /\ (sent \o outbound)[k] = sent[k]
      BY <2>1, <2>2, <2>5
    <3>2. QED
      BY <2>5, <3>1 DEF OrderInv, Rising
  <2>6. QED
    BY <2>1, <2>2, <2>4, <2>5
<1>2. QED
  BY <1>1, AgentInvariant, PTL

\* However often the process is killed, a reply that is on its way or has been sent
\* is in its session file, as long as every line was written to its end.
THEOREM AgentRepliesRecorded == Spec => []RepliesRecorded
<1>1. RecordInv => RepliesRecorded
  BY DEF RecordInv, RepliesRecorded, Recorded
<1>2. QED
  BY <1>1, AgentInvariant, PTL

------------------------------------------------------------------------------
\* Induction: a set of naturals that holds 0 and each successor holds them all, since
\* what it lacked would have a least element.
LEMMA Upward ==
    ASSUME NEW T, 0 \in T, \A n \in Nat : n \in T => n + 1 \in T
    PROVE  Nat \subseteq T
<1> DEFINE U == Nat \ T
<1> SUFFICES ASSUME U # {} PROVE FALSE
  OBVIOUS
<1>1. PICK m \in U : \A y \in U : <<y, m>> \notin OpToRel(<, Nat)
  BY NatLessThanWellFounded, WFMin
<1>2. m \in Nat /\ \A y \in U : ~(y < m)
  BY <1>1 DEF OpToRel
<1>3. m - 1 \in Nat /\ m - 1 + 1 = m
  BY <1>2
<1>4. m - 1 \in T
  BY <1>2, <1>3
<1>5. QED
  BY <1>3, <1>4

\* The array is defined for every file: it can be filled line by line.
More(array, line) == IF Parses(line) THEN Append(array, line) ELSE array
Fills(f, lines, n) ==
    /\ f = [k \in 0 .. n |-> f[k]] /\ f[0] = <<>>
    /\ \A k \in 1 .. n : f[k] = More(f[k - 1], lines[k])

LEMMA KeptFills ==
    ASSUME NEW S, NEW lines \in Seq(S)
    PROVE  Fills(Kept(lines), lines, Len(lines))
<1> DEFINE T == {n \in Nat : \E f : Fills(f, lines, n)}
<1>1. 0 \in T
  <2> DEFINE f == [k \in 0 .. 0 |-> <<>>]
  <2>1. f = [k \in 0 .. 0 |-> f[k]] /\ f[0] = <<>> /\ 1 .. 0 = {}
    OBVIOUS
  <2>2. Fills(f, lines, 0)
    BY <2>1 DEF Fills
  <2>3. QED
    BY <2>2
<1>2. ASSUME NEW n \in Nat, n \in T PROVE n + 1 \in T
  <2>1. PICK f : Fills(f, lines, n)
    BY <1>2
  <2> DEFINE last == More(f[n], lines[n + 1])
             g == [k \in 0 .. n + 1 |-> IF k = n + 1 THEN last ELSE f[k]]
  <2> HIDE DEF last
  <2>2. g = [k \in 0 .. n + 1 |-> g[k]] /\ g[n + 1] = last /\ \A k \in 0 .. n : g[k] = f[k]
    OBVIOUS
  <2> HIDE DEF g
  <2>3. ASSUME NEW k \in 1 .. n + 1 PROVE g[k] = More(g[k - 1], lines[k])
    <3>1. CASE k = n + 1
      <4>1. k - 1 = n /\ n \in 0 .. n
        BY <3>1
      <4>2. QED
        BY <2>2, <3>1, <4>1 DEF last
    <3>2. CASE k # n + 1
      <4>1. k \in 1 .. n /\ k \in 0 .. n /\ k - 1 \in 0 .. n
        BY <3>2
      <4>2. f[k] = More(f[k - 1], lines[k])
        BY <2>1, <4>1 DEF Fills
      <4>3. QED
        BY <2>2, <4>1, <4>2
    <3>3. QED
      BY <3>1, <3>2
  <2>4. g[0] = <<>>
    BY <2>1, <2>2 DEF Fills
  <2>5. Fills(g, lines, n + 1)
    BY <2>2, <2>3, <2>4 DEF Fills
  <2>6. QED
    BY <2>5
<1>3. PICK f : Fills(f, lines, Len(lines))
  <2>1. Len(lines) \in Nat
    OBVIOUS
  <2> HIDE DEF T
  <2>2. Nat \subseteq T
    BY <1>1, <1>2, Upward
  <2>3. QED
    BY <2>1, <2>2 DEF T
<1> DEFINE Step(g, k) == IF k = 0 THEN <<>>
                         ELSE IF Parses(lines[k]) THEN Append(g[k - 1], lines[k]) ELSE g[k - 1]
<1>4. f = [k \in 0 .. Len(lines) |-> Step(f, k)]
  <2>1. ASSUME NEW k \in 0 .. Len(lines) PROVE f[k] = Step(f, k)
    <3>1. k = 0 \/ k \in 1 .. Len(lines)
      OBVIOUS
    <3>2. QED
      BY <1>3, <3>1 DEF Fills, More
  <2> HIDE DEF Step
  <2>2. QED
    BY <1>3, <2>1 DEF Fills
<1>5. Kept(lines) = [k \in 0 .. Len(lines) |-> Step(Kept(lines), k)]
  BY <1>4 DEF Kept
<1>6. \A k \in 0 .. Len(lines) : Kept(lines)[k] = Step(Kept(lines), k)
  <2> HIDE DEF Step
  <2>1. QED
    BY <1>5
<1>7. \A k \in 1 .. Len(lines) : k # 0 /\ k \in 0 .. Len(lines)
  OBVIOUS
<1>8. 0 \in 0 .. Len(lines)
  OBVIOUS
<1>9. \A k \in 1 .. Len(lines) : Kept(lines)[k] = More(Kept(lines)[k - 1], lines[k])
  BY <1>6, <1>7 DEF More
<1>10. Kept(lines)[0] = <<>>
  BY <1>6, <1>8
<1>11. Kept(lines) = [k \in 0 .. Len(lines) |-> Kept(lines)[k]]
  <2> HIDE DEF Step
  <2>1. QED
    BY <1>5
<1>12. QED
  BY <1>9, <1>10, <1>11 DEF Fills

\* What the array holds: the lines that parse, and all of them when all do.
LEMMA KeptFacts ==
    ASSUME NEW S, NEW lines \in Seq(S)
    PROVE  LET kept == Kept(lines)[Len(lines)]
           IN  /\ kept \in Seq(S)
               /\ \A k \in 1 .. Len(kept) :
                    Parses(kept[k]) /\ \E j \in 1 .. Len(lines) : kept[k] = lines[j]
               /\ (\A j \in 1 .. Len(lines) : Parses(lines[j])) => kept = lines
<1> DEFINE F == Kept(lines)
           n == Len(lines)
           Good(k) ==
             /\ F[k] \in Seq(S)
             /\ \A i \in 1 .. Len(F[k]) :
                  Parses(F[k][i]) /\ \E j \in 1 .. n : F[k][i] = lines[j]
             /\ (\A j \in 1 .. n : Parses(lines[j])) =>
                  Len(F[k]) = k /\ \A i \in 1 .. k : F[k][i] = lines[i]
           T == {k \in Nat : k <= n => Good(k)}
<1>1. n \in Nat
  OBVIOUS
<1>2. /\ F[0] = <<>>
      /\ \A k \in 1 .. n : F[k] = IF Parses(lines[k]) THEN Append(F[k - 1], lines[k]) ELSE F[k - 1]
  BY KeptFills DEF Fills, More
<1> HIDE DEF F
<1>3. 0 \in T
  <2>1. F[0] = <<>> /\ F[0] \in Seq(S) /\ Len(F[0]) = 0
    BY <1>2
  <2>2. Good(0)
    BY <2>1
  <2>3. QED
    BY <2>2
<1>4. ASSUME NEW k \in Nat, k \in T PROVE k + 1 \in T
  <2> SUFFICES ASSUME k + 1 <= n PROVE Good(k + 1)
    OBVIOUS
  <2>1. Good(k)
    BY <1>1, <1>4
  <2>2. k + 1 \in 1 .. n /\ (k + 1) - 1 = k
    BY <1>1
  <2>3. F[k + 1] = IF Parses(lines[k + 1]) THEN Append(F[k], lines[k + 1]) ELSE F[k]
    BY <1>2, <2>2
  <2>4. CASE ~Parses(lines[k + 1])
    BY <2>1, <2>2, <2>3, <2>4
  <2>5. CASE Parses(lines[k + 1])
    <3>1. lines[k + 1] \in S /\ F[k] \in Seq(S)
      BY <2>1, <2>2
    <3>2. /\ F[k + 1] \in Seq(S) /\ Len(F[k]) \in Nat /\ Len(F[k + 1]) = Len(F[k]) + 1
          /\ \A i \in 1 .. Len(F[k]) : F[k + 1][i] = F[k][i]
          /\ F[k + 1][Len(F[k]) + 1] = lines[k + 1]
      BY <2>3, <2>5, <3>1
    <3>3. \A i \in 1 .. Len(F[k + 1]) : i \in 1 .. Len(F[k]) \/ i = Len(F[k]) + 1
      BY <3>2
    <3>4. \A i \in 1 .. Len(F[k + 1]) :
            Parses(F[k + 1][i]) /\ \E j \in 1 .. n : F[k + 1][i] = lines[j]
      BY <2>1, <2>2, <2>5, <3>2, <3>3
    <3>5. ASSUME \A j \in 1 .. n : Parses(lines[j])
          PROVE  Len(F[k + 1]) = k + 1 /\ \A i \in 1 .. k + 1 : F[k + 1][i] = lines[i]
      <4>1. Len(F[k]) = k /\ \A i \in 1 .. k : F[k][i] = lines[i]
        BY <2>1, <3>5
      <4>2. QED
        BY <3>2, <3>3, <4>1
    <3>6. QED
      BY <3>2, <3>4, <3>5
  <2>6. QED
    BY <2>4, <2>5
<1>5. Good(n) /\ F[n] \in Seq(S)
  <2>1. Nat \subseteq T
    <3> HIDE DEF T
    <3>1. QED
      BY <1>3, <1>4, Upward
  <2>2. n \in T
    BY <1>1, <2>1
  <2>3. QED
    BY <1>1, <2>2
<1>6. (\A j \in 1 .. n : Parses(lines[j])) => F[n] = lines
  <2>1. /\ F[n] \in Seq(S)
        /\ (\A j \in 1 .. n : Parses(lines[j])) =>
             Len(F[n]) = n /\ \A i \in 1 .. n : F[n][i] = lines[i]
    BY <1>5
  <2>2. QED
    BY <2>1
<1>7. QED
  BY <1>5, <1>6 DEF F

------------------------------------------------------------------------------
\* What LoadHistory puts into the messages array.
LEMMA HistoryFacts ==
    ASSUME AgentType, NEW c \in Chats
    PROVE  LET f == FirstLine(c)
               n == Len(file[c])
               h == History(c)
           IN  /\ h \in Seq(Entries)
               /\ \A k \in 1 .. Len(h) : Parses(h[k]) /\ \E j \in 1 .. n : h[k] = file[c][j]
               /\ (\A j \in 1 .. n : Parses(file[c][j])) =>
                    /\ f \in 1 .. n + 1 /\ Len(h) = n + 1 - f
                    /\ \A k \in 1 .. Len(h) : h[k] = file[c][f + k - 1]
<1> DEFINE f == FirstLine(c)
           n == Len(file[c])
           window == SubSeq(file[c], f, n)
<1>1. file[c] \in Seq(Entries) /\ n \in Nat
  BY DEF AgentType
<1>2. Cardinality(unended \cap {c}) \in {0, 1}
  <2>1. unended \cap {c} = {} \/ unended \cap {c} = {c}
    OBVIOUS
  <2>2. Cardinality({}) = 0 /\ Cardinality({c}) = 1
    BY FS_EmptySet, FS_Singleton
  <2>3. QED
    BY <2>1, <2>2
<1>3. f \in 1 .. n + 1
  BY <1>1, <1>2, AgentAssumption DEF FirstLine
<1> HIDE DEF f
<1>4. /\ window \in Seq(Entries) /\ Len(window) = n + 1 - f
      /\ \A k \in 1 .. Len(window) : f + k - 1 \in 1 .. n /\ window[k] = file[c][f + k - 1]
  BY <1>1, <1>3
<1> HIDE DEF window
<1>5. History(c) = Kept(window)[Len(window)]
  BY DEF History, window, f
<1> DEFINE h == Kept(window)[Len(window)]
<1>6. /\ h \in Seq(Entries)
      /\ \A k \in 1 .. Len(h) : Parses(h[k]) /\ \E j \in 1 .. Len(window) : h[k] = window[j]
      /\ (\A j \in 1 .. Len(window) : Parses(window[j])) => h = window
  BY <1>4, KeptFacts
<1> HIDE DEF h
<1>7. \A k \in 1 .. Len(h) : \E j \in 1 .. n : h[k] = file[c][j]
  BY <1>4, <1>6
<1>8. ASSUME \A j \in 1 .. n : Parses(file[c][j]) PROVE h = window
  BY <1>4, <1>6, <1>8
<1>9. QED
  BY <1>3, <1>4, <1>5, <1>6, <1>7, <1>8 DEF f, h

\* Where the lines and the entries come from: every line is of a message received, and
\* the one in the agent's hand has none before it is saved.
LineInv ==
    \A c \in Chats : \A k \in 1 .. Len(file[c]) :
        /\ file[c][k].role \in {"user", "assistant", "bad"}
        /\ file[c][k].n <= received
        /\ apc # "idle" => file[c][k].n <= cur.n
        /\ apc \in {"load", "saveUser"} => file[c][k].n < cur.n
        /\ \A l \in 1 .. Len(inbound) : file[c][k].n < inbound[l].n

\* The question comes behind the history and before the rounds of tools.
Question == Len(ctx) - iter
CtxInv ==
    /\ ctx \in Seq(Entries) /\ iter \in 0 .. MAX_TOOL_ITER
    /\ apc \in {"saveUser", "ask"} =>
         /\ Question \in 1 .. Len(ctx) /\ ctx[Question] = User(cur)
         /\ \A k \in 1 .. Question - 1 : ctx[k].role \in {"user", "assistant"} /\ ctx[k].n < cur.n
         /\ \A k \in Question + 1 .. Len(ctx) : ctx[k] = Tools(cur)

\* As long as every line is written to its end an answer follows its question, in the
\* files and in the array.
Follows(s) == \A k \in 1 .. Len(s) :
    s[k].role = "assistant" => k > 1 /\ s[k - 1] = User(s[k])
FollowInv == ~damaged =>
    /\ \A c \in Chats :
         Follows(file[c]) /\ \A k \in 1 .. Len(file[c]) : Parses(file[c][k])
    /\ apc \in {"ask", "saveReply"} =>
         LET s == file[cur.chat] IN Len(s) > 0 /\ s[Len(s)] = User(cur)
    /\ apc \in {"saveUser", "ask"} =>
         \A k \in 2 .. Len(ctx) : ctx[k].role = "assistant" => ctx[k - 1] = User(ctx[k])

\* And as long as nothing is killed either, they come in pairs.
Pairs(s, n) == \A k \in 1 .. n :
    /\ k % 2 = 1 => s[k].role = "user"
    /\ k % 2 = 0 => s[k] = Assistant(s[k - 1])
PairsInv == crashes = 0 /\ ~damaged =>
    /\ \A c \in Chats : Pairs(file[c], Len(file[c]))
    /\ \A c \in Chats :
         Len(file[c]) % 2 = IF apc \in {"ask", "saveReply"} /\ cur.chat = c THEN 1 ELSE 0
    /\ apc \in {"saveUser", "ask"} => Pairs(ctx, Question)

LEMMA Parity ==
    ASSUME NEW a \in Nat, NEW b \in Nat
    PROVE  /\ a % 2 \in {0, 1} /\ (a + 1) % 2 = 1 - (a % 2)
           /\ a % 2 = 0 /\ b % 2 = 0 /\ a > b => (a - b + 1) % 2 = 1
           /\ b % 2 = 1 /\ a > 0 => (b + a - 1) % 2 = a % 2
           /\ a % 2 = 0 /\ b % 2 = 1 /\ b <= a + 1 => (a + 1 - b + 1) % 2 = 1
OBVIOUS

LEMMA LineTypes ==
    ASSUME AgentType, NEW c \in Chats, NEW k \in 1 .. Len(file[c])
    PROVE  /\ file[c][k] \in Entries /\ file[c][k].n \in Nat
           /\ file[c][k].role \in {"user", "assistant", "tools", "bad"}
<1>1. file[c] \in Seq(Entries)
  BY DEF AgentType
<1>2. file[c][k] \in Entries
  BY <1>1
<1>3. QED
  BY <1>2 DEF Entries

LEMMA InitHistory == Init => LineInv /\ CtxInv /\ FollowInv /\ PairsInv
<1> SUFFICES ASSUME Init PROVE LineInv /\ CtxInv /\ FollowInv /\ PairsInv
  OBVIOUS
<1>1. /\ \A c \in Chats : file[c] = <<>> /\ Len(file[c]) = 0
      /\ apc = "idle" /\ iter = 0 /\ ctx = <<>> /\ ctx \in Seq(Entries)
  BY DEF Init
<1>2. LineInv /\ FollowInv
  BY <1>1 DEF LineInv, FollowInv, Follows
<1>3. CtxInv
  BY <1>1, AgentAssumption DEF CtxInv
<1>4. PairsInv
  <2>1. 0 % 2 = 0
    OBVIOUS
  <2>2. ASSUME NEW c \in Chats
        PROVE  Pairs(file[c], Len(file[c])) /\ Len(file[c]) % 2 = 0
    <3>1. Len(file[c]) = 0 /\ \A k \in 1 .. 0 : FALSE
      BY <1>1
    <3>2. QED
      BY <2>1, <3>1 DEF Pairs
  <2>3. QED
    BY <1>1, <2>2 DEF PairsInv
<1>5. QED
  BY <1>2, <1>3, <1>4

\* What a saved line changes.
LEMMA SaveAdds ==
    ASSUME AgentType, RecordInv, NEW c \in Chats, NEW line \in Entries, Save(c, line)
    PROVE  /\ \A d \in Chats : \A k \in 1 .. Len(file'[d]) :
                \/ k \in 1 .. Len(file[d]) /\ file'[d][k] = file[d][k]
                \/ d = c /\ file'[d][k] = line
           /\ ~damaged' =>
                /\ ~damaged
                /\ \A d \in Chats : d # c => file'[d] = file[d]
                /\ Len(file[c]) \in Nat /\ Len(file'[c]) = Len(file[c]) + 1
                /\ \A k \in 1 .. Len(file[c]) : file'[c][k] = file[c][k]
                /\ file'[c][Len(file[c]) + 1] = line
<1>1. file \in [Chats -> Seq(Entries)] /\ file[c] \in Seq(Entries)
  BY DEF AgentType
<1>2. /\ Append(file[c], line) \in Seq(Entries) /\ Len(file[c]) \in Nat
      /\ Len(Append(file[c], line)) = Len(file[c]) + 1
      /\ \A k \in 1 .. Len(file[c]) : Append(file[c], line)[k] = file[c][k]
      /\ Append(file[c], line)[Len(file[c]) + 1] = line
  BY <1>1, AppendFacts
<1>3. CASE file' = file /\ (damaged' \/ unended # {})
  <2>1. damaged' = TRUE \/ damaged' = damaged
    BY DEF Save
  <2>2. damaged'
    BY <1>3, <2>1 DEF RecordInv
  <2>3. QED
    BY <1>3, <2>2
<1>4. CASE file' = [file EXCEPT ![c] = Append(file[c], line)] /\ damaged' = damaged
  <2>1. file'[c] = Append(file[c], line) /\ \A d \in Chats : d # c => file'[d] = file[d]
    BY <1>1, <1>4
  <2>2. \A k \in 1 .. Len(file'[c]) : k \in 1 .. Len(file[c]) \/ k = Len(file[c]) + 1
    BY <1>2, <2>1
  <2>3. QED
    BY <1>2, <1>4, <2>1, <2>2
<1>5. QED
  BY <1>3, <1>4 DEF Save

HistoryInv == LineInv /\ CtxInv /\ FollowInv /\ PairsInv
Base == AgentType /\ OrderInv /\ RecordInv

LEMMA ReceiveKeepsHistory ==
    ASSUME Base, HistoryInv, NEW c \in Chats, Receive(c) PROVE HistoryInv'
<1> DEFINE new == [chat |-> c, n |-> received + 1]
<1>1. /\ received' = received + 1 /\ inbound' = Append(inbound, new)
      /\ UNCHANGED <<file, damaged, cur, ctx, iter, apc, crashes>>
  BY DEF Receive, disk, turn
<1>2. new \in Messages /\ new.n = received + 1 /\ received \in Nat
  BY AgentAssumption DEF Messages, Base, AgentType, Receive
<1> HIDE DEF new
<1>3. \A k \in 1 .. Len(inbound') :
        \/ k \in 1 .. Len(inbound) /\ inbound'[k] = inbound[k]
        \/ inbound'[k].n = received + 1
  <2>1. /\ Len(inbound) \in Nat /\ Len(inbound') = Len(inbound) + 1
        /\ \A k \in 1 .. Len(inbound) : inbound'[k] = inbound[k]
        /\ inbound'[Len(inbound) + 1] = new
    BY <1>1, <1>2, AppendFacts DEF Base, AgentType
  <2>2. QED
    BY <1>2, <2>1
<1>4. \A d \in Chats : \A k \in 1 .. Len(file[d]) : file[d][k].n \in Nat
  BY LineTypes DEF Base
<1>5. LineInv'
  BY <1>1, <1>2, <1>3, <1>4 DEF HistoryInv, LineInv
<1>6. CtxInv' /\ FollowInv' /\ PairsInv'
  BY <1>1 DEF HistoryInv, CtxInv, Question, FollowInv, Follows, PairsInv, Pairs
<1>7. QED
  BY <1>5, <1>6 DEF HistoryInv

LEMMA TakeKeepsHistory == ASSUME Base, HistoryInv, Take PROVE HistoryInv'
<1>1. /\ inbound # <<>> /\ inbound' = Tail(inbound) /\ cur' = Head(inbound) /\ apc' = "load"
      /\ apc = "idle" /\ UNCHANGED <<file, damaged, ctx, iter, crashes, received>>
  BY DEF Take, disk
<1>2. /\ cur' = inbound[1] /\ 1 \in 1 .. Len(inbound)
      /\ \A k \in 1 .. Len(inbound') : k + 1 \in 1 .. Len(inbound) /\ inbound'[k] = inbound[k + 1]
  <2>1. /\ cur' = inbound[1] /\ Len(inbound) \in Nat \ {0} /\ Len(inbound') = Len(inbound) - 1
        /\ \A k \in 1 .. Len(inbound) - 1 : inbound'[k] = inbound[k + 1]
    BY <1>1, TailFacts DEF Base, AgentType
  <2>2. QED
    BY <2>1
<1>3. cur'.n \in Nat /\ \A d \in Chats : \A k \in 1 .. Len(file[d]) : file[d][k].n \in Nat
  <2>1. inbound \in Seq(Messages)
    BY DEF Base, AgentType
  <2>2. cur' \in Messages
    BY <1>2, <2>1
  <2>3. QED
    BY <2>2, LineTypes DEF Base, Messages
<1>4. LineInv'
  BY <1>1, <1>2, <1>3 DEF HistoryInv, LineInv
<1>5. CtxInv' /\ FollowInv' /\ PairsInv'
  BY <1>1 DEF HistoryInv, CtxInv, FollowInv, Follows, PairsInv, Pairs
<1>6. QED
  BY <1>4, <1>5 DEF HistoryInv

\* The history is loaded: it keeps its order, and if nothing was killed the window begins
\* with a question, because it is as even as the file.
LEMMA LoadKeepsHistory == ASSUME Base, HistoryInv, LoadHistory PROVE HistoryInv'
<1> DEFINE c == cur.chat
           n == Len(file[c])
           f == FirstLine(c)
           h == History(c)
<1>1. /\ apc = "load" /\ apc' = "saveUser" /\ ctx' = Append(h, User(cur)) /\ iter' = 0
      /\ UNCHANGED <<file, unended, damaged, inbound, received, cur, crashes>>
      /\ cur \in Messages /\ c \in Chats /\ User(cur) \in Entries /\ n \in Nat
      /\ User(cur).role = "user" /\ cur.n \in Nat
  BY DEF LoadHistory, disk, bus, Base, AgentType, Messages, Entries, User
<1>2. /\ h \in Seq(Entries)
      /\ \A k \in 1 .. Len(h) : Parses(h[k]) /\ \E j \in 1 .. n : h[k] = file[c][j]
      /\ (\A j \in 1 .. n : Parses(file[c][j])) =>
           /\ f \in 1 .. n + 1 /\ Len(h) = n + 1 - f
           /\ \A k \in 1 .. Len(h) : h[k] = file[c][f + k - 1]
  BY <1>1, HistoryFacts DEF Base
<1>3. f = IF n - Cardinality(unended \cap {c}) > MAX_HISTORY
          THEN n - Cardinality(unended \cap {c}) - MAX_HISTORY + 1 ELSE 1
  BY DEF FirstLine
<1> HIDE DEF h, f
<1>4. /\ ctx' \in Seq(Entries) /\ Len(h) \in Nat /\ Len(ctx') = Len(h) + 1
      /\ \A k \in 1 .. Len(h) : ctx'[k] = h[k]
      /\ ctx'[Len(h) + 1] = User(cur)
      /\ Question' = Len(h) + 1
  <2>1. /\ ctx' \in Seq(Entries) /\ Len(h) \in Nat /\ Len(ctx') = Len(h) + 1
        /\ \A k \in 1 .. Len(h) : ctx'[k] = h[k]
        /\ ctx'[Len(h) + 1] = User(cur)
    BY <1>1, <1>2, AppendFacts
  <2>2. Question' = Len(h) + 1
    BY <1>1, <2>1 DEF Question
  <2>3. QED
    BY <2>1, <2>2
<1>5. LineInv'
  BY <1>1 DEF HistoryInv, LineInv
<1>6. CtxInv'
  <2>1. \A k \in 1 .. Len(h) : h[k].role \in {"user", "assistant"} /\ h[k].n < cur.n
    <3>1. ASSUME NEW k \in 1 .. Len(h) PROVE h[k].role \in {"user", "assistant"}
      <4>1. h[k].role \in {"user", "assistant", "bad"} /\ h[k].role # "bad"
        BY <1>1, <1>2 DEF Parses, HistoryInv, LineInv
      <4>2. QED
        BY <4>1
    <3>2. QED
      BY <1>1, <1>2, <3>1 DEF HistoryInv, LineInv
  <2>2. QED
    BY <1>1, <1>4, <2>1, AgentAssumption DEF CtxInv
<1>7. ASSUME ~damaged
      PROVE  /\ f \in 1 .. n + 1 /\ Len(h) = n + 1 - f
             /\ \A k \in 1 .. Len(h) : ctx'[k] = file[c][f + k - 1] /\ f + k - 1 \in 1 .. n
  <2>1. \A j \in 1 .. n : Parses(file[c][j])
    BY <1>1, <1>7 DEF HistoryInv, FollowInv
  <2>2. /\ f \in 1 .. n + 1 /\ Len(h) = n + 1 - f
        /\ \A k \in 1 .. Len(h) : h[k] = file[c][f + k - 1]
    BY <1>2, <2>1
  <2>3. \A k \in 1 .. Len(h) : f + k - 1 \in 1 .. n
    BY <1>1, <2>2
  <2>4. QED
    BY <1>4, <2>2, <2>3
<1>8. FollowInv'
  <2> SUFFICES ASSUME ~damaged, NEW k \in 2 .. Len(ctx'), ctx'[k].role = "assistant"
               PROVE  ctx'[k - 1] = User(ctx'[k])
    BY <1>1 DEF HistoryInv, FollowInv, Follows, User
  <2>1. k \in 1 .. Len(h) /\ k - 1 \in 1 .. Len(h)
    BY <1>1, <1>4
  <2>2. /\ ctx'[k] = file[c][f + k - 1] /\ ctx'[k - 1] = file[c][f + (k - 1) - 1]
        /\ f + k - 1 \in 1 .. n
    BY <1>7, <2>1
  <2>3. Follows(file[c])
    BY <1>1 DEF HistoryInv, FollowInv
  <2>4. file[c][(f + k - 1) - 1] = User(file[c][f + k - 1])
    BY <2>2, <2>3 DEF Follows
  <2>5. (f + k - 1) - 1 = f + (k - 1) - 1
    BY <1>1, <1>7, <2>1
  <2>6. QED
    BY <2>2, <2>4, <2>5
<1>9. PairsInv'
  <2> SUFFICES ASSUME crashes = 0, ~damaged PROVE Pairs(ctx, Question)'
    BY <1>1 DEF HistoryInv, PairsInv, Pairs
  <2>1. n % 2 = 0 /\ Pairs(file[c], n)
    BY <1>1 DEF HistoryInv, PairsInv
  <2>2. f \in Nat \ {0} /\ f <= n + 1 /\ Len(h) = n + 1 - f
    BY <1>1, <1>7
  <2>3. f % 2 = 1
    <3>1. unended \cap {c} = {}
      BY DEF Base, RecordInv
    <3>2. Cardinality(unended \cap {c}) = 0
      BY <3>1, FS_EmptySet
    <3>3. f = IF n > MAX_HISTORY THEN n - MAX_HISTORY + 1 ELSE 1
      BY <1>1, <1>3, <3>2
    <3>4. MAX_HISTORY \in Nat /\ n \in Nat /\ MAX_HISTORY % 2 = 0 /\ n % 2 = 0
      BY <1>1, <2>1, AgentAssumption, WindowAssumption
    <3>5. 1 % 2 = 1
      OBVIOUS
    <3>6. QED
      BY <3>3, <3>4, <3>5, Parity
  <2>4. ASSUME NEW k \in 1 .. Len(h)
        PROVE  /\ k % 2 = 1 => ctx'[k].role = "user"
               /\ k % 2 = 0 => ctx'[k] = Assistant(ctx'[k - 1])
    <3> DEFINE j == f + k - 1
    <3>1. j \in 1 .. n /\ ctx'[k] = file[c][j] /\ k \in Nat
      BY <1>7
    <3>2. j % 2 = k % 2
      BY <2>2, <2>3, <3>1, Parity
    <3>3. /\ j % 2 = 1 => file[c][j].role = "user"
          /\ j % 2 = 0 => file[c][j] = Assistant(file[c][j - 1])
      BY <2>1, <3>1 DEF Pairs
    <3>4. ASSUME k % 2 = 0 PROVE ctx'[k - 1] = file[c][j - 1]
      <4>1. k # 1
        <5>1. 1 % 2 = 1
          OBVIOUS
        <5>2. QED
          BY <3>4, <5>1
      <4>2. k - 1 \in 1 .. Len(h) /\ f + (k - 1) - 1 = j - 1
        BY <2>2, <3>1, <4>1
      <4>3. QED
        BY <1>7, <4>2
    <3>5. QED
      BY <3>1, <3>2, <3>3, <3>4
  <2>5. (Len(h) + 1) % 2 = 1
    <3>1. (n + 1 - f + 1) % 2 = 1
      BY <1>1, <2>1, <2>2, <2>3, Parity
    <3>2. QED
      BY <2>2, <3>1
  <2>6. ASSUME NEW k \in 1 .. Len(h) + 1
        PROVE  /\ k % 2 = 1 => ctx'[k].role = "user"
               /\ k % 2 = 0 => ctx'[k] = Assistant(ctx'[k - 1])
    <3>1. CASE k = Len(h) + 1
      BY <1>1, <1>4, <2>5, <3>1
    <3>2. CASE k # Len(h) + 1
      <4>1. k \in 1 .. Len(h)
        BY <1>4, <3>2
      <4>2. QED
        BY <2>4, <4>1
    <3>3. QED
      BY <3>1, <3>2
  <2>7. QED
    BY <1>4, <2>6 DEF Pairs
<1>10. QED
  BY <1>5, <1>6, <1>8, <1>9 DEF HistoryInv

\* A question or an answer is saved: behind all lines of its chat, the answer right behind
\* its question.
LEMMA SaveKeepsHistory ==
    ASSUME Base, HistoryInv, SaveUser \/ SaveReply PROVE HistoryInv'
<1> DEFINE c == cur.chat
           n == Len(file[c])
<1>1. PICK line \in {User(cur), Assistant(cur)} :
        /\ Save(c, line)
        /\ UNCHANGED <<inbound, received, cur, ctx, iter, crashes>>
        /\ \/ apc = "saveUser" /\ apc' = "ask" /\ line = User(cur)
           \/ apc = "saveReply" /\ apc' = "push" /\ line = Assistant(cur)
  BY DEF SaveUser, SaveReply, bus, turn
<1>2. /\ cur \in Messages /\ c \in Chats /\ line \in Entries /\ cur.n \in Nat
      /\ line.n = cur.n /\ line.role \in {"user", "assistant"} /\ Parses(line)
      /\ User(line) = User(cur) /\ (line.role = "assistant" => line = Assistant(cur))
      /\ Assistant(User(cur)) = Assistant(cur) /\ User(cur).role = "user"
      /\ (apc' = "ask" => line.role = "user")
  BY <1>1 DEF Base, AgentType, Messages, Entries, User, Assistant, Parses
<1>3. /\ \A d \in Chats : \A k \in 1 .. Len(file'[d]) :
           \/ k \in 1 .. Len(file[d]) /\ file'[d][k] = file[d][k]
           \/ d = c /\ file'[d][k] = line
      /\ ~damaged' =>
           /\ ~damaged
           /\ \A d \in Chats : d # c => file'[d] = file[d]
           /\ n \in Nat /\ Len(file'[c]) = n + 1
           /\ \A k \in 1 .. n : file'[c][k] = file[c][k]
           /\ file'[c][n + 1] = line
  BY <1>1, <1>2, SaveAdds DEF Base
<1>4. LineInv'
  <2>1. \A l \in 1 .. Len(inbound) : cur.n < inbound[l].n
    BY <1>1 DEF Base, OrderInv
  <2>2. cur.n <= received /\ apc # "idle" /\ apc' \notin {"load", "saveUser"}
    BY <1>1 DEF Base, OrderInv
  <2>3. ASSUME NEW d \in Chats, NEW k \in 1 .. Len(file'[d])
        PROVE  /\ file'[d][k].role \in {"user", "assistant", "bad"}
               /\ file'[d][k].n <= received /\ file'[d][k].n <= cur.n
               /\ \A l \in 1 .. Len(inbound) : file'[d][k].n < inbound[l].n
    <3>1. CASE file'[d][k] = line
      BY <1>2, <2>1, <2>2, <3>1
    <3>2. CASE k \in 1 .. Len(file[d]) /\ file'[d][k] = file[d][k]
      BY <2>2, <3>2 DEF HistoryInv, LineInv
    <3>3. QED
      BY <1>3, <3>1, <3>2
  <2>4. QED
    BY <1>1, <2>2, <2>3 DEF LineInv
<1>5. CtxInv'
  BY <1>1 DEF HistoryInv, CtxInv, Question
<1>6. ASSUME ~damaged', apc = "saveReply" PROVE n > 0 /\ file[c][n] = User(cur)
  BY <1>3, <1>6 DEF HistoryInv, FollowInv
<1>7. FollowInv'
  <2> SUFFICES ASSUME ~damaged' PROVE FollowInv'
    BY DEF FollowInv
  <2>1. /\ ~damaged /\ n \in Nat /\ Len(file'[c]) = n + 1 /\ file'[c][n + 1] = line
        /\ \A k \in 1 .. n : file'[c][k] = file[c][k]
        /\ \A d \in Chats : d # c => file'[d] = file[d]
    BY <1>3
  <2>2. \A d \in Chats : Follows(file[d]) /\ \A k \in 1 .. Len(file[d]) : Parses(file[d][k])
    BY <2>1 DEF HistoryInv, FollowInv
  <2>3. ASSUME NEW k \in 1 .. n + 1
        PROVE  /\ Parses(file'[c][k])
               /\ file'[c][k].role = "assistant" => k > 1 /\ file'[c][k - 1] = User(file'[c][k])
    <3>1. CASE k = n + 1
      <4>1. file'[c][k] = line
        BY <2>1, <3>1
      <4>2. ASSUME line.role = "assistant" PROVE k > 1 /\ file'[c][k - 1] = User(line)
        <5>1. apc = "saveReply"
          BY <1>1, <1>2, <4>2
        <5>2. n > 0 /\ file[c][n] = User(cur)
          BY <1>6, <5>1
        <5>3. n \in 1 .. n /\ k - 1 = n
          BY <2>1, <3>1, <5>2
        <5>4. QED
          BY <1>2, <2>1, <3>1, <5>2, <5>3
      <4>3. QED
        BY <1>2, <4>1, <4>2
    <3>2. CASE k # n + 1
      <4>1. k \in 1 .. n /\ file'[c][k] = file[c][k]
        BY <2>1, <3>2
      <4>2. /\ Parses(file[c][k])
            /\ file[c][k].role = "assistant" => k > 1 /\ file[c][k - 1] = User(file[c][k])
        BY <1>2, <2>2, <4>1 DEF Follows
      <4>3. k > 1 => file'[c][k - 1] = file[c][k - 1]
        BY <2>1, <4>1
      <4>4. QED
        BY <4>1, <4>2, <4>3
    <3>3. QED
      BY <3>1, <3>2
  <2>4. \A d \in Chats : Follows(file'[d]) /\ \A k \in 1 .. Len(file'[d]) : Parses(file'[d][k])
    <3>1. Follows(file'[c]) /\ \A k \in 1 .. Len(file'[c]) : Parses(file'[c][k])
      BY <2>1, <2>3 DEF Follows
    <3>2. QED
      BY <2>1, <2>2, <3>1
  <2>5. apc' = "ask" => Len(file'[c]) > 0 /\ file'[c][Len(file'[c])] = User(cur)
    BY <1>1, <2>1
  <2>6. apc' = "ask" =>
          \A k \in 2 .. Len(ctx) : ctx[k].role = "assistant" => ctx[k - 1] = User(ctx[k])
    BY <1>1, <2>1 DEF HistoryInv, FollowInv
  <2>7. QED
    BY <1>1, <2>4, <2>5, <2>6 DEF FollowInv
<1>8. PairsInv'
  <2> SUFFICES ASSUME crashes' = 0, ~damaged' PROVE PairsInv'
    BY DEF PairsInv
  <2>1. /\ ~damaged /\ n \in Nat /\ Len(file'[c]) = n + 1 /\ file'[c][n + 1] = line
        /\ \A k \in 1 .. n : file'[c][k] = file[c][k]
        /\ \A d \in Chats : d # c => file'[d] = file[d]
    BY <1>3
  <2>2. /\ \A d \in Chats : Pairs(file[d], Len(file[d]))
        /\ \A d \in Chats :
             Len(file[d]) % 2 = IF apc \in {"ask", "saveReply"} /\ c = d THEN 1 ELSE 0
        /\ apc = "saveUser" => Pairs(ctx, Question)
    BY <1>1, <2>1 DEF HistoryInv, PairsInv
  <2>3. \A d \in Chats :
          Len(file'[d]) % 2 = IF apc' \in {"ask", "saveReply"} /\ c = d THEN 1 ELSE 0
    <3>1. ASSUME NEW d \in Chats, d # c PROVE Len(file'[d]) % 2 = 0
      BY <2>1, <2>2, <3>1
    <3>2. n % 2 = IF apc = "saveReply" THEN 1 ELSE 0
      BY <1>1, <1>2, <2>2
    <3>3. (n + 1) % 2 = IF apc' = "ask" THEN 1 ELSE 0
      <4>1. (n + 1) % 2 = 1 - (n % 2)
        BY <2>1, Parity
      <4>2. n % 2 \in {0, 1} /\ (apc' = "ask" <=> apc # "saveReply")
        BY <1>1, <3>2
      <4> HIDE DEF n
      <4>3. QED
        BY <3>2, <4>1, <4>2
    <3>4. QED
      BY <1>1, <2>1, <3>1, <3>3
  <2>4. ASSUME NEW k \in 1 .. n + 1
        PROVE  /\ k % 2 = 1 => file'[c][k].role = "user"
               /\ k % 2 = 0 => file'[c][k] = Assistant(file'[c][k - 1])
    <3>1. CASE k = n + 1
      <4>1. k % 2 = IF apc' = "ask" THEN 1 ELSE 0
        <5>1. Len(file'[c]) % 2 = IF apc' = "ask" THEN 1 ELSE 0
          BY <1>1, <1>2, <2>3
        <5>2. QED
          BY <2>1, <3>1, <5>1
      <4>2. CASE apc' = "ask"
        <5>1. file'[c][k].role = "user" /\ k % 2 = 1
          BY <1>2, <2>1, <3>1, <4>1, <4>2
        <5>2. QED
          BY <5>1
      <4>3. CASE apc = "saveReply"
        <5>1. n > 0 /\ file[c][n] = User(cur) /\ line = Assistant(cur)
          BY <1>1, <1>6, <4>3
        <5>2. n \in 1 .. n /\ k - 1 = n
          BY <2>1, <3>1, <5>1
        <5>3. file'[c][k - 1] = User(cur)
          BY <2>1, <5>1, <5>2
        <5>4. k % 2 = 0
          BY <1>1, <4>1, <4>3
        <5>5. file'[c][k] = Assistant(file'[c][k - 1])
          BY <1>2, <2>1, <3>1, <5>1, <5>3
        <5>6. QED
          BY <5>4, <5>5
      <4>4. QED
        BY <1>1, <4>2, <4>3
    <3>2. CASE k # n + 1
      <4>1. k \in 1 .. n /\ file'[c][k] = file[c][k]
        BY <2>1, <3>2
      <4>2. /\ k % 2 = 1 => file[c][k].role = "user"
            /\ k % 2 = 0 => file[c][k] = Assistant(file[c][k - 1])
        BY <1>2, <2>2, <4>1 DEF Pairs
      <4>3. k % 2 = 0 => k - 1 \in 1 .. n
        <5>1. 1 % 2 = 1 /\ k \in Nat
          BY <4>1
        <5>2. k % 2 = 0 => k # 1
          BY <5>1
        <5>3. QED
          BY <2>1, <4>1, <5>2
      <4>4. QED
        BY <2>1, <4>1, <4>2, <4>3
    <3>3. QED
      BY <3>1, <3>2
  <2>5. \A d \in Chats : Pairs(file'[d], Len(file'[d]))
    <3>1. Pairs(file'[c], Len(file'[c]))
      BY <2>1, <2>4 DEF Pairs
    <3>2. QED
      BY <2>1, <2>2, <3>1
  <2>6. apc' = "ask" => Pairs(ctx, Question)'
    BY <1>1, <2>2 DEF Pairs, Question
  <2>7. QED
    BY <1>1, <2>3, <2>5, <2>6 DEF PairsInv
<1>9. QED
  BY <1>4, <1>5, <1>7, <1>8 DEF HistoryInv

LEMMA ToolsKeepHistory == ASSUME Base, HistoryInv, ToolRound PROVE HistoryInv'
<1>1. /\ apc = "ask" /\ apc' = "ask" /\ iter < MAX_TOOL_ITER /\ iter' = iter + 1
      /\ ctx' = Append(ctx, Tools(cur))
      /\ UNCHANGED <<file, damaged, inbound, received, cur, crashes>>
  BY DEF ToolRound, disk, bus
<1>2. Tools(cur) \in Entries /\ Tools(cur).role = "tools"
  BY <1>1 DEF Base, AgentType, Messages, Entries, Tools
<1>3. ctx \in Seq(Entries) /\ iter \in Nat /\ Question \in 1 .. Len(ctx)
  BY <1>1, AgentAssumption DEF HistoryInv, CtxInv
<1>4. /\ ctx' \in Seq(Entries) /\ Len(ctx) \in Nat /\ Len(ctx') = Len(ctx) + 1
      /\ \A k \in 1 .. Len(ctx) : ctx'[k] = ctx[k]
      /\ ctx'[Len(ctx) + 1] = Tools(cur)
  BY <1>1, <1>2, <1>3, AppendFacts
<1>5. Question' = Question
  BY <1>1, <1>3, <1>4 DEF Question
<1>6. LineInv'
  BY <1>1 DEF HistoryInv, LineInv
<1>7. CtxInv'
  <2>1. /\ ctx[Question] = User(cur) /\ User(cur)' = User(cur) /\ Tools(cur)' = Tools(cur)
        /\ \A k \in 1 .. Question - 1 : ctx[k].role \in {"user", "assistant"} /\ ctx[k].n < cur.n
        /\ \A k \in Question + 1 .. Len(ctx) : ctx[k] = Tools(cur)
    BY <1>1 DEF HistoryInv, CtxInv, User, Tools
  <2>2. ctx'[Question] = User(cur)
    BY <1>3, <1>4, <2>1
  <2>3. \A k \in 1 .. Question - 1 : ctx'[k].role \in {"user", "assistant"} /\ ctx'[k].n < cur.n
    BY <1>3, <1>4, <2>1
  <2>4. ASSUME NEW k \in Question + 1 .. Len(ctx) + 1 PROVE ctx'[k] = Tools(cur)
    <3>1. CASE k = Len(ctx) + 1
      BY <1>4, <3>1
    <3>2. CASE k # Len(ctx) + 1
      <4>1. k \in Question + 1 .. Len(ctx) /\ k \in 1 .. Len(ctx)
        BY <1>3, <1>4, <3>2
      <4>2. QED
        BY <1>4, <2>1, <4>1
    <3>3. QED
      BY <3>1, <3>2
  <2>5. Question \in 1 .. Len(ctx') /\ iter' \in 0 .. MAX_TOOL_ITER
    BY <1>1, <1>3, <1>4, AgentAssumption
  <2>6. QED
    BY <1>1, <1>4, <1>5, <2>1, <2>2, <2>3, <2>4, <2>5 DEF CtxInv
<1>8. FollowInv'
  <2>1. ASSUME ~damaged, NEW k \in 2 .. Len(ctx'), ctx'[k].role = "assistant"
        PROVE  ctx'[k - 1] = User(ctx'[k])
    <3>1. k # Len(ctx) + 1
      BY <1>2, <1>4, <2>1
    <3>2. k \in 2 .. Len(ctx) /\ k \in 1 .. Len(ctx) /\ k - 1 \in 1 .. Len(ctx)
      BY <1>4, <3>1
    <3>3. ctx[k].role = "assistant" => ctx[k - 1] = User(ctx[k])
      BY <1>1, <2>1, <3>2 DEF HistoryInv, FollowInv
    <3>4. QED
      BY <1>4, <2>1, <3>2, <3>3
  <2>2. QED
    BY <1>1, <2>1 DEF HistoryInv, FollowInv, Follows, User
<1>9. PairsInv'
  <2>1. ASSUME crashes = 0, ~damaged PROVE Pairs(ctx', Question)
    <3>1. Pairs(ctx, Question)
      BY <1>1, <2>1 DEF HistoryInv, PairsInv
    <3>2. \A k \in 1 .. Question :
            k \in 1 .. Len(ctx) /\ (k % 2 = 0 => k - 1 \in 1 .. Len(ctx))
      <4> SUFFICES ASSUME NEW k \in 1 .. Question
                   PROVE  k \in 1 .. Len(ctx) /\ (k % 2 = 0 => k - 1 \in 1 .. Len(ctx))
        OBVIOUS
      <4>1. k \in Nat /\ k \in 1 .. Len(ctx) /\ 1 % 2 = 1
        BY <1>3, <1>4
      <4>2. k % 2 = 0 => k # 1
        BY <4>1
      <4>3. QED
        BY <1>4, <4>1, <4>2
    <3>3. QED
      BY <1>4, <3>1, <3>2 DEF Pairs
  <2>2. QED
    BY <1>1, <1>5, <2>1 DEF HistoryInv, PairsInv, Pairs
<1>10. QED
  BY <1>6, <1>7, <1>8, <1>9 DEF HistoryInv

\* Steps that touch neither file nor array.
LEMMA OthersKeepHistory ==
    ASSUME Base, HistoryInv, UNCHANGED <<file, damaged, inbound, received, ctx, iter, crashes>>,
           \/ UNCHANGED <<apc, cur>>
           \/ apc \in {"load", "push"} /\ apc' = "idle"
           \/ apc = "ask" /\ apc' = "saveReply" /\ cur' = cur
    PROVE  HistoryInv'
<1>1. LineInv'
  BY DEF HistoryInv, LineInv
<1>2. CtxInv'
  BY DEF HistoryInv, CtxInv, Question, User, Tools
<1>3. FollowInv'
  BY DEF HistoryInv, FollowInv, Follows, User
<1>4. PairsInv'
  BY DEF HistoryInv, PairsInv, Pairs, Question
<1>5. QED
  BY <1>1, <1>2, <1>3, <1>4 DEF HistoryInv

\* The process is killed, perhaps in the middle of a line.
LEMMA CrashKeepsHistory ==
    ASSUME Base, HistoryInv, crashes \in Nat, Crash PROVE HistoryInv'
<1>1. /\ crashes' = crashes + 1 /\ crashes' # 0
      /\ apc' = "idle" /\ ctx' = <<>> /\ iter' = 0 /\ inbound' = <<>> /\ received' = received
      /\ ctx' \in Seq(Entries)
  BY DEF Crash
<1>2. LineInv'
  <2>1. ASSUME NEW d \in Chats, NEW k \in 1 .. Len(file'[d])
        PROVE  file'[d][k].role \in {"user", "assistant", "bad"} /\ file'[d][k].n <= received
    <3>1. CASE file' = file
      BY <3>1 DEF HistoryInv, LineInv
    <3>2. CASE file' # file
      <4> DEFINE c == cur.chat
      <4>1. PICK role \in {"user", "assistant", "bad"} :
              /\ apc # "idle"
              /\ file' = [file EXCEPT ![c] = Append(@, [role |-> role, n |-> cur.n])]
        BY <3>2 DEF Crash, disk
      <4> DEFINE line == [role |-> role, n |-> cur.n]
      <4>2. cur \in Messages /\ c \in Chats /\ line \in Entries /\ line.role = role /\ line.n = cur.n
        BY <4>1 DEF Base, AgentType, Messages, Entries
      <4>3. cur.n <= received
        BY <4>1 DEF Base, OrderInv
      <4> HIDE DEF line
      <4>4. file'[d] = IF d = c THEN Append(file[c], line) ELSE file[d]
        BY <4>1, <4>2 DEF Base, AgentType, line
      <4>5. file[c] \in Seq(Entries)
        BY <4>2 DEF Base, AgentType
      <4>6. \/ k \in 1 .. Len(file[d]) /\ file'[d][k] = file[d][k]
            \/ file'[d][k] = line
        <5>1. /\ Len(file[c]) \in Nat /\ Len(Append(file[c], line)) = Len(file[c]) + 1
              /\ \A j \in 1 .. Len(file[c]) : Append(file[c], line)[j] = file[c][j]
              /\ Append(file[c], line)[Len(file[c]) + 1] = line
          BY <4>2, <4>5, AppendFacts
        <5>2. QED
          BY <4>4, <5>1
      <4>7. QED
        BY <4>2, <4>3, <4>6 DEF HistoryInv, LineInv
    <3>3. QED
      BY <3>1, <3>2
  <2>2. QED
    BY <1>1, <2>1 DEF LineInv
<1>3. CtxInv'
  BY <1>1, AgentAssumption DEF CtxInv
<1>4. FollowInv'
  <2>1. ~damaged' => file' = file /\ ~damaged
    BY DEF Crash, disk
  <2>2. QED
    BY <1>1, <2>1 DEF HistoryInv, FollowInv, Follows, User
<1>5. PairsInv'
  BY <1>1 DEF PairsInv
<1>6. QED
  BY <1>2, <1>3, <1>4, <1>5 DEF HistoryInv

LEMMA NextHistory ==
    Base /\ crashes \in Nat /\ HistoryInv /\ [Next]_vars => HistoryInv' /\ crashes' \in Nat
<1> SUFFICES ASSUME Base, crashes \in Nat, HistoryInv, [Next]_vars
             PROVE  HistoryInv' /\ crashes' \in Nat
  OBVIOUS
<1>1. crashes' \in Nat
  <2>1. crashes' = crashes \/ crashes' = crashes + 1
    BY DEF Next, Agent, Receive, Take, OutOfMemory, LoadHistory, SaveUser, AskForTools,
           ToolRound, HaveReply, SaveReply, PushReply, Dispatch, Crash, vars
  <2>2. QED
    BY <2>1
<1>2. CASE OutOfMemory \/ AskForTools \/ HaveReply \/ PushReply \/ Dispatch \/ UNCHANGED vars
  <2>1. /\ UNCHANGED <<file, damaged, inbound, received, ctx, iter, crashes>>
        /\ \/ UNCHANGED <<apc, cur>>
           \/ apc \in {"load", "push"} /\ apc' = "idle"
           \/ apc = "ask" /\ apc' = "saveReply" /\ cur' = cur
    BY <1>2 DEF OutOfMemory, AskForTools, HaveReply, PushReply, Dispatch, vars, disk, bus, turn
  <2>2. QED
    BY <2>1, OthersKeepHistory
<1>3. QED
  BY <1>1, <1>2, ReceiveKeepsHistory, TakeKeepsHistory, LoadKeepsHistory, SaveKeepsHistory,
     ToolsKeepHistory, CrashKeepsHistory DEF Next, Agent

\* The second invariant, of files and array, holds always.
THEOREM AgentHistoryInvariant == Spec => []HistoryInv
<1>1. Init => Base /\ crashes \in Nat /\ HistoryInv
  BY InitAgent, InitHistory DEF Base, HistoryInv, Init
<1>2. Base /\ crashes \in Nat /\ HistoryInv /\ [Next]_vars
        => (Base /\ crashes \in Nat /\ HistoryInv)'
  BY NextAgent, NextHistory DEF Base
<1>3. QED
  BY <1>1, <1>2, PTL DEF Spec

\* The LLM is asked the current question in one place: behind the history, which cannot
\* hold it though it is saved to the same file, and before the rounds of tools.
THEOREM AgentAskedOnce == Spec => []AskedOnce
<1>1. HistoryInv => AskedOnce
  <2> SUFFICES ASSUME HistoryInv, apc = "ask"
               PROVE  \E k \in 1 .. Len(ctx) :
                        /\ Places(User(cur), ctx) = {k}
                        /\ \A l \in k + 1 .. Len(ctx) : ctx[l] = Tools(cur)
                        /\ \A l \in 1 .. k - 1 : ctx[l].role \in {"user", "assistant"}
    BY DEF AskedOnce
  <2>1. /\ Question \in 1 .. Len(ctx) /\ ctx[Question] = User(cur) /\ Len(ctx) \in Nat
        /\ \A k \in 1 .. Question - 1 : ctx[k].role \in {"user", "assistant"} /\ ctx[k].n < cur.n
        /\ \A k \in Question + 1 .. Len(ctx) : ctx[k] = Tools(cur)
    BY DEF HistoryInv, CtxInv
  <2>2. User(cur).n = cur.n /\ User(cur).role # Tools(cur).role
    BY DEF User, Tools
  <2>3. ASSUME NEW k \in 1 .. Len(ctx), ctx[k] = User(cur) PROVE k = Question
    <3>1. k \notin Question + 1 .. Len(ctx)
      BY <2>1, <2>2, <2>3
    <3>2. k \notin 1 .. Question - 1
      <4>1. ctx \in Seq(Entries) /\ ctx[k] \in Entries
        BY DEF HistoryInv, CtxInv
      <4>2. ctx[k].n = cur.n /\ ctx[k].n \in Nat
        BY <2>2, <2>3, <4>1 DEF Entries
      <4>3. QED
        BY <2>1, <4>2
    <3>3. QED
      BY <2>1, <3>1, <3>2
  <2>4. Places(User(cur), ctx) = {Question}
    BY <2>1, <2>3 DEF Places
  <2>5. QED
    BY <2>1, <2>4
<1>2. QED
  BY <1>1, AgentHistoryInvariant, PTL

\* While nothing is killed and no line lost the LLM sees question, answer, question,
\* answer, however often the window moved on.
THEOREM AgentContextAlternates == Spec => []ContextAlternates
<1>1. HistoryInv => ContextAlternates
  BY DEF HistoryInv, PairsInv, Pairs, Question, Assistant, ContextAlternates
<1>2. QED
  BY <1>1, AgentHistoryInvariant, PTL

\* However often the process is killed between two lines, no answer is taken for that of
\* another question.
THEOREM AgentAnswersFollow == Spec => []AnswersFollow
<1>1. HistoryInv => AnswersFollow
  BY DEF HistoryInv, FollowInv, User, AnswersFollow
<1>2. QED
  BY <1>1, AgentHistoryInvariant, PTL

\* The types hold always; those of the array that the agent sends need what
\* session_get_history_json loads into it.
THEOREM AgentTypeCorrect == Spec => []TypeOK
<1> DEFINE Rest == /\ Len(inbound) <= QUEUE_LEN /\ Len(outbound) <= QUEUE_LEN
                   /\ cur \in Messages \cup {NoMessage}
                   /\ crashes \in 0 .. MaxCrashes /\ damaged \in BOOLEAN
                   /\ inTool \in BOOLEAN
<1>1. Init => Rest
  <2> SUFFICES ASSUME Init PROVE Rest
    OBVIOUS
  <2>1. Len(inbound) = 0 /\ Len(outbound) = 0 /\ crashes = 0
    BY DEF Init
  <2>2. QUEUE_LEN \in Nat /\ MaxCrashes \in Nat
    BY AgentAssumption
  <2>3. damaged \in BOOLEAN /\ inTool \in BOOLEAN /\ cur = NoMessage
    BY DEF Init
  <2>4. Len(inbound) <= QUEUE_LEN /\ Len(outbound) <= QUEUE_LEN /\ crashes \in 0 .. MaxCrashes
    BY <2>1, <2>2
  <2>5. QED
    BY <2>3, <2>4
<1>2. AgentType /\ Rest /\ [Next]_vars => Rest'
  <2> SUFFICES ASSUME AgentType, Rest, [Next]_vars PROVE Rest'
    OBVIOUS
  <2>0. inTool' \in BOOLEAN
    <3>1. inTool' = inTool \/ inTool' = TRUE \/ inTool' = FALSE
      BY DEF Next, Agent, Receive, Dispatch, AskForTools, ToolRound, Crash, vars
    <3>2. QED
      BY <3>1
  <2>1. CASE \E c \in Chats : Receive(c)
    <3>1. PICK c \in Chats : Receive(c)
      BY <2>1
    <3> DEFINE new == [chat |-> c, n |-> received + 1]
    <3>2. new \in Messages
      BY <3>1, AgentAssumption DEF Receive, AgentType, Messages
    <3> HIDE DEF new
    <3>3. Len(inbound) < QUEUE_LEN /\ inbound' = Append(inbound, new)
      BY <3>1 DEF Receive, new
    <3>4. Len(inbound') <= QUEUE_LEN
      BY <3>2, <3>3, AppendFacts, AgentAssumption DEF AgentType
    <3>5. QED
      BY <2>0, <3>1, <3>4 DEF Receive, turn, disk
  <2>2. CASE Take
    <3>1. Len(inbound') <= QUEUE_LEN /\ cur' \in Messages
      BY <2>2, TailFacts, AgentAssumption DEF Take, AgentType
    <3>2. QED
      BY <2>0, <2>2, <3>1 DEF Take, disk
  <2>3. CASE OutOfMemory \/ LoadHistory \/ AskForTools \/ ToolRound \/ HaveReply
    BY <2>0, <2>3 DEF OutOfMemory, LoadHistory, AskForTools, ToolRound, HaveReply, disk, bus, turn
  <2>4. CASE SaveUser \/ SaveReply
    BY <2>0, <2>4 DEF SaveUser, SaveReply, Save, bus, turn
  <2>5. CASE PushReply
    <3>1. cur \in Messages
      BY <2>5 DEF PushReply, AgentType
    <3>2. Len(outbound') <= QUEUE_LEN
      BY <2>5, <3>1, AppendFacts, AgentAssumption DEF PushReply, AgentType
    <3>3. QED
      BY <2>0, <2>5, <3>2 DEF PushReply, disk
  <2>6. CASE Dispatch
    <3>1. Len(outbound') <= QUEUE_LEN
      BY <2>6, TailFacts, AgentAssumption DEF Dispatch, AgentType
    <3>2. QED
      BY <2>0, <2>6, <3>1 DEF Dispatch, disk, turn
  <2>7. CASE Crash
    <3>1. crashes' \in 0 .. MaxCrashes
      BY <2>7, AgentAssumption DEF Crash
    <3>2. damaged' = damaged \/ damaged' = TRUE
      BY <2>7 DEF Crash, disk
    <3>3. cur' = NoMessage /\ Len(inbound') = 0 /\ Len(outbound') = 0
      BY <2>7 DEF Crash
    <3>4. QUEUE_LEN \in Nat
      BY AgentAssumption
    <3>5. Len(inbound') <= QUEUE_LEN /\ Len(outbound') <= QUEUE_LEN
      BY <3>3, <3>4
    <3>6. damaged' \in BOOLEAN
      BY <3>2
    <3>7. QED
      BY <2>0, <3>1, <3>3, <3>5, <3>6
  <2>8. CASE UNCHANGED vars
    BY <2>0, <2>8 DEF vars, disk, bus, turn
  <2>9. QED
    BY <2>1, <2>2, <2>3, <2>4, <2>5, <2>6, <2>7, <2>8 DEF Next, Agent
<1>3. AgentType /\ HistoryInv /\ Rest => TypeOK
  BY DEF AgentType, HistoryInv, CtxInv, TypeOK
<1> HIDE DEF Rest
<1>4. QED
  BY <1>1, <1>2, <1>3, AgentInvariant, AgentHistoryInvariant, PTL DEF Spec
===============================================================================
