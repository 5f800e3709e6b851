------------------------------ MODULE IpcProofs -----------------------------
(***************************************************************************)
(* For any number of processes, servers and messages: no message is         *)
(* overlooked, and a call is in one place only, answered once, and returns  *)
(* with its own answer, whoever ends and whose slot is used again.          *)
(***************************************************************************)
EXTENDS Ipc, SequenceTheorems, TLAPS

Places(p) == 1 .. Len(queue[p])

(* Ids are given out in order, and a tag names the call of its message.     *)
MessagesOK ==
    /\ \A p \in Procs : \A i \in Places(p) :
          queue[p][i].id < counter /\ queue[p][i].tag[2] = queue[p][i].id
    /\ \A p \in Procs : hold[p] # NoMsg =>
          /\ hold[p].type = "MSG_PUB" /\ hold[p].id < counter
          /\ hold[p].tag[2] = hold[p].id

(* No two messages that are anywhere have the same id.                      *)
OnePlace ==
    /\ \A p, q \in Procs : \A i \in Places(p), j \in Places(q) :
          queue[p][i].id = queue[q][j].id => p = q /\ i = j
    /\ \A p, q \in Procs : \A i \in Places(p) : queue[p][i].id # hold[q].id
    /\ \A p, q \in Procs : hold[p] # NoMsg /\ hold[p].id = hold[q].id => p = q

(* Requests are in the order in which they were sent.                       *)
Sorted ==
    /\ \A p \in Procs : \A i, j \in Places(p) :
          i < j /\ queue[p][i].type = "MSG_PUB" /\ queue[p][j].type = "MSG_PUB" =>
             queue[p][i].id < queue[p][j].id
    /\ \A p \in Procs : \A i \in Places(p) : queue[p][i].type = "MSG_PUB" =>
          hold[p].id < queue[p][i].id

(* Where the message of a pending call may be, and what it says then.       *)
CallsOK ==
    \A p \in Procs : want[p] # NoCall =>
        /\ p \in alive
        /\ want[p].id < counter /\ want[p].tag = <<p, want[p].id>> /\ want[p].to # p
        /\ \A q \in Procs : want[q].id = want[p].id => q = p
        /\ \A q \in Procs : \A i \in Places(q) : queue[q][i].id = want[p].id =>
              /\ queue[q][i].tag = want[p].tag
              /\ queue[q][i].type = "MSG_ID" => q = p
              /\ queue[q][i].type = "MSG_PUB" =>
                    q = want[p].to /\ queue[q][i].from = p /\ queue[q][i].answer
        /\ \A q \in Procs : hold[q].id = want[p].id =>
              /\ hold[q].tag = want[p].tag
              /\ q = want[p].to /\ hold[q].from = p /\ hold[q].answer

IInv == TypeOK /\ MessagesOK /\ OnePlace /\ Sorted /\ CallsOK /\ NoLostWakeup

-----------------------------------------------------------------------------
(* Queues.                                                                 *)

LEMMA AppendFacts ==
    ASSUME NEW M, NEW s \in Seq(M), NEW m \in M
    PROVE  /\ Append(s, m) \in Seq(M) /\ Len(s) \in Nat /\ Len(Append(s, m)) = Len(s) + 1
           /\ \A j \in 1 .. Len(s) : Append(s, m)[j] = s[j]
           /\ Append(s, m)[Len(s) + 1] = m
OBVIOUS

LEMMA RemoveFacts ==
    ASSUME NEW M, NEW s \in Seq(M), NEW i \in 1 .. Len(s)
    PROVE  /\ RemoveAt(s, i) \in Seq(M) /\ Len(s) \in Nat /\ Len(RemoveAt(s, i)) = Len(s) - 1
           /\ \A j \in 1 .. Len(s) - 1 : RemoveAt(s, i)[j] = IF j < i THEN s[j] ELSE s[j + 1]
<1> DEFINE a == SubSeq(s, 1, i - 1)
           b == SubSeq(s, i + 1, Len(s))
<1>1. Len(s) \in Nat /\ i \in Nat /\ 1 =< i /\ i =< Len(s)
  OBVIOUS
<1>2. /\ a \in Seq(M) /\ Len(a) = i - 1
      /\ \A j \in 1 .. i - 1 : a[j] = s[j]
  BY <1>1
<1>3. /\ b \in Seq(M) /\ Len(b) = Len(s) - i
      /\ \A j \in 1 .. Len(s) - i : b[j] = s[j + i]
  BY <1>1
<1> HIDE DEF a, b
<1>4. /\ a \o b \in Seq(M) /\ Len(a \o b) = Len(s) - 1
      /\ \A j \in 1 .. Len(s) - 1 : (a \o b)[j] = IF j < i THEN s[j] ELSE s[j + 1]
  <2>1. a \o b \in Seq(M) /\ Len(a \o b) = Len(s) - 1
    <3>1. a \o b \in Seq(M) /\ Len(a \o b) = Len(a) + Len(b)
      BY <1>2, <1>3, ConcatProperties
    <3> QED
      BY <3>1, <1>1, <1>2, <1>3
  <2>2. ASSUME NEW j \in 1 .. Len(s) - 1, j < i PROVE (a \o b)[j] = s[j]
    BY <1>1, <1>2, <1>3, <2>2
  <2>3. ASSUME NEW j \in 1 .. Len(s) - 1, ~ (j < i) PROVE (a \o b)[j] = s[j + 1]
    <3> DEFINE k == j - (i - 1)
    <3>1. k \in 1 .. Len(s) - i /\ k + i = j + 1 /\ j = k + Len(a)
      BY <1>1, <1>2, <2>3
    <3>2. (a \o b)[j] = b[k]
      BY <1>1, <1>2, <1>3, <2>3, ConcatProperties
    <3>3. b[k] = s[k + i]
      BY <1>3, <3>1
    <3> QED
      BY <3>1, <3>2, <3>3
  <2> QED
    BY <2>1, <2>2, <2>3
<1> QED
  BY <1>1, <1>4 DEF RemoveAt, a, b

(* What is in the queues after a message was put in or taken out: all that  *)
(* was there, in the order in which it was there, and the new one last.     *)
LEMMA SendFacts ==
    ASSUME TypeOK, NEW to \in Procs, NEW m \in Messages, Send(to, m)
    PROVE  /\ queue' \in [Procs -> Seq(Messages)]
           /\ \A q \in Procs \ {to} : queue'[q] = queue[q]
           /\ Len(queue[to]) \in Nat /\ Places(to)' = 1 .. Len(queue[to]) + 1
           /\ \A j \in Places(to) : queue'[to][j] = queue[to][j]
           /\ queue'[to][Len(queue[to]) + 1] = m
           /\ blocked' = blocked \ {to}
<1>1. queue[to] \in Seq(Messages) /\ queue' = [queue EXCEPT ![to] = Append(queue[to], m)]
  BY DEF TypeOK, Send
<1>2. queue'[to] = Append(queue[to], m) /\ \A q \in Procs \ {to} : queue'[q] = queue[q]
  BY <1>1 DEF TypeOK
<1>3. /\ Append(queue[to], m) \in Seq(Messages) /\ Len(queue[to]) \in Nat
      /\ Len(Append(queue[to], m)) = Len(queue[to]) + 1
      /\ \A j \in 1 .. Len(queue[to]) : Append(queue[to], m)[j] = queue[to][j]
      /\ Append(queue[to], m)[Len(queue[to]) + 1] = m
  BY <1>1, AppendFacts
<1> QED
  BY <1>1, <1>2, <1>3 DEF TypeOK, Send, Places

LEMMA TakeFacts ==
    ASSUME TypeOK, NEW p \in Procs, NEW i \in Places(p), Take(p, i)
    PROVE  /\ queue' \in [Procs -> Seq(Messages)] /\ queue[p][i] \in Messages
           /\ \A q \in Procs \ {p} : queue'[q] = queue[q]
           /\ Len(queue[p]) \in Nat /\ Places(p)' = 1 .. Len(queue[p]) - 1
           /\ \A j \in Places(p)' : queue'[p][j] = queue[p][IF j < i THEN j ELSE j + 1]
           /\ blocked' = blocked
<1>1. /\ queue[p] \in Seq(Messages) /\ i \in 1 .. Len(queue[p])
      /\ queue' = [queue EXCEPT ![p] = RemoveAt(queue[p], i)]
  BY DEF TypeOK, Take, Places
<1>2. queue'[p] = RemoveAt(queue[p], i) /\ \A q \in Procs \ {p} : queue'[q] = queue[q]
  BY <1>1 DEF TypeOK
<1>3. /\ RemoveAt(queue[p], i) \in Seq(Messages) /\ Len(queue[p]) \in Nat
      /\ Len(RemoveAt(queue[p], i)) = Len(queue[p]) - 1
      /\ \A j \in 1 .. Len(queue[p]) - 1 :
            RemoveAt(queue[p], i)[j] = IF j < i THEN queue[p][j] ELSE queue[p][j + 1]
  BY <1>1, RemoveFacts
<1>4. queue[p][i] \in Messages
  BY <1>1, ElementOfSeq
<1>5. Places(p)' = 1 .. Len(queue[p]) - 1
  BY <1>2, <1>3 DEF Places
<1> QED
  BY <1>1, <1>2, <1>3, <1>4, <1>5 DEF TypeOK, Take

LEMMA Typed ==
    ASSUME TypeOK
    PROVE  /\ \A p \in Procs : hold[p] = NoMsg \/ (hold[p] \in Messages /\ hold[p].id \in Nat)
           /\ NoMsg.id = NULL /\ NoCall.id = NULL /\ NULL \notin Nat
           /\ \A p \in Procs : want[p] = NoCall \/ (want[p] \in Waits /\ want[p].id \in Nat)
           /\ \A p \in Procs : \A i \in Places(p) :
                 queue[p][i] \in Messages /\ queue[p][i].id \in Nat /\ i \in Nat
           /\ counter \in Nat
<1>1. MSG_MAX \in Nat /\ \A i \in 0 .. MSG_MAX : i \in Nat
  BY IpcAssumption
<1>2. \A m \in Messages : m.id \in Nat
  BY <1>1 DEF Messages
<1>3. \A w \in Waits : w.id \in Nat
  BY <1>1 DEF Waits
<1>4. ASSUME NEW p \in Procs, NEW i \in Places(p) PROVE queue[p][i] \in Messages /\ i \in Nat
  BY <1>4 DEF TypeOK, Places
<1> QED
  BY <1>1, <1>2, <1>3, <1>4 DEF TypeOK, NoMsg, NoCall, NULL

LEMMA InitIInv == Init => IInv
<1> SUFFICES ASSUME Init PROVE IInv
  OBVIOUS
<1>1. \A p \in Procs : queue[p] = <<>> /\ Places(p) = {} /\ hold[p] = NoMsg /\ want[p] = NoCall
  BY DEF Init, Places
<1>2. TypeOK
  BY IpcAssumption DEF Init, TypeOK
<1>3. MessagesOK /\ CallsOK /\ NoLostWakeup
  BY <1>1 DEF Init, MessagesOK, CallsOK, NoLostWakeup
<1>4. OnePlace /\ Sorted
  BY <1>1 DEF OnePlace, Sorted
<1> QED
  BY <1>2, <1>3, <1>4 DEF IInv

-----------------------------------------------------------------------------
(* Requests: the id is new, so that nothing that is anywhere has it.        *)

LEMMA RequestFacts ==
    ASSUME IInv, NEW p \in Procs, NEW q \in Procs, NEW a \in BOOLEAN, Request(p, q, a),
           hold' = hold
    PROVE  /\ queue' \in [Procs -> Seq(Messages)] /\ counter' = counter + 1
           /\ counter \in 0 .. MSG_MAX /\ counter' \in 0 .. MSG_MAX
           /\ \A r \in Procs : \A i \in Places(r)' :
                 \/ i \in Places(r) /\ queue'[r][i] = queue[r][i]
                 \/ /\ r = q /\ i = Len(queue[q]) + 1 /\ Len(queue[q]) \in Nat
                    /\ queue'[r][i] = [id |-> counter, type |-> "MSG_PUB", from |-> p,
                                       answer |-> a, tag |-> <<p, counter>>]
           /\ \A r \in Procs : Places(r) \subseteq Places(r)'
           /\ \E i \in Places(q)' : queue'[q][i].id = counter /\ queue'[q][i].type = "MSG_PUB"
           /\ \A r \in Procs, i \in Nat : i \in Places(r) => queue'[r][i] = queue[r][i]
           /\ MessagesOK' /\ OnePlace' /\ Sorted'
           /\ blocked' = blocked \ {q} /\ \A r \in Procs \ {q} : queue'[r] = queue[r]
<1> DEFINE m == [id |-> counter, type |-> "MSG_PUB", from |-> p, answer |-> a,
                 tag |-> <<p, counter>>]
<1>1. /\ counter < MSG_MAX /\ counter' = counter + 1 /\ Send(q, m)
      /\ TypeOK /\ counter \in 0 .. MSG_MAX /\ MSG_MAX \in Nat
  BY IpcAssumption DEF Request, IInv, TypeOK
<1>2. m \in Messages /\ m.id = counter /\ m.type = "MSG_PUB" /\ m.tag[2] = m.id /\ m.from = p
  BY <1>1 DEF Messages, Tags
<1> HIDE DEF m
<1>3. /\ queue' \in [Procs -> Seq(Messages)]
      /\ \A r \in Procs \ {q} : queue'[r] = queue[r]
      /\ Len(queue[q]) \in Nat /\ Places(q)' = 1 .. Len(queue[q]) + 1
      /\ \A j \in Places(q) : queue'[q][j] = queue[q][j]
      /\ queue'[q][Len(queue[q]) + 1] = m
      /\ blocked' = blocked \ {q}
  BY <1>1, <1>2, SendFacts
<1>4. ASSUME NEW r \in Procs, NEW i \in Places(r)'
      PROVE  \/ i \in Places(r) /\ queue'[r][i] = queue[r][i]
             \/ r = q /\ i = Len(queue[q]) + 1 /\ queue'[r][i] = m
  BY <1>3 DEF Places
<1>5. \A r \in Procs, i \in Nat :
         i \in Places(r) => i \in Places(r)' /\ queue'[r][i] = queue[r][i]
  BY <1>3 DEF Places
<1>6. /\ \A r \in Procs : \A i \in Places(r) : queue[r][i].id < counter /\ queue[r][i].id \in Nat
      /\ \A r \in Procs : hold[r] # NoMsg => hold[r].id < counter
      /\ \A r \in Procs : hold[r].id # counter /\ (hold[r].id < counter)
  BY <1>1, Typed DEF IInv, MessagesOK, NULL
<1>7. MessagesOK'
  <2>1. ASSUME NEW r \in Procs, NEW i \in Places(r)'
        PROVE  queue'[r][i].id < counter' /\ queue'[r][i].tag[2] = queue'[r][i].id
    BY <1>1, <1>2, <1>4, <1>6 DEF IInv, MessagesOK
  <2>2. ASSUME NEW r \in Procs, hold[r] # NoMsg
        PROVE  /\ hold[r].type = "MSG_PUB" /\ hold[r].id < counter'
               /\ hold[r].tag[2] = hold[r].id
    <3>1. hold[r].id \in Nat /\ hold[r].id < counter
      BY <1>1, <1>6, <2>2, Typed
    <3> QED
      BY <1>1, <2>2, <3>1 DEF IInv, MessagesOK
  <2> QED
    BY <2>1, <2>2 DEF MessagesOK
<1>8. OnePlace'
  <2>1. ASSUME NEW r \in Procs, NEW t \in Procs, NEW i \in Places(r)', NEW k \in Places(t)',
               queue'[r][i].id = queue'[t][k].id
        PROVE  r = t /\ i = k
    BY <1>2, <1>4, <1>6, <2>1 DEF IInv, OnePlace
  <2>2. ASSUME NEW r \in Procs, NEW t \in Procs, NEW i \in Places(r)'
        PROVE  queue'[r][i].id # hold[t].id
    BY <1>2, <1>4, <1>6 DEF IInv, OnePlace
  <2> QED
    BY <2>1, <2>2 DEF IInv, OnePlace
<1>9. Sorted'
  <2>1. ASSUME NEW r \in Procs, NEW i \in Places(r)', NEW k \in Places(r)', i < k,
               queue'[r][i].type = "MSG_PUB", queue'[r][k].type = "MSG_PUB"
        PROVE  queue'[r][i].id < queue'[r][k].id
    <3>1. CASE i \in Places(r) /\ k \in Places(r)
      BY <1>1, <1>5, <2>1, <3>1, Typed DEF IInv, Sorted
    <3>2. CASE k \notin Places(r)
      <4>1. r = q /\ k = Len(queue[q]) + 1 /\ queue'[r][k] = m
        BY <1>4, <3>2
      <4>2. i \in Places(r) /\ queue'[r][i] = queue[r][i]
        BY <1>3, <1>4, <2>1, <4>1
      <4> QED
        BY <1>2, <1>6, <4>1, <4>2
    <3>3. k \in Places(r) => i \in Places(r)
      BY <1>3, <1>4, <2>1 DEF Places
    <3> QED
      BY <3>1, <3>2, <3>3
  <2>2. ASSUME NEW r \in Procs, NEW i \in Places(r)', queue'[r][i].type = "MSG_PUB"
        PROVE  hold[r].id < queue'[r][i].id
    BY <1>2, <1>4, <1>6, <2>2 DEF IInv, Sorted
  <2> QED
    BY <2>1, <2>2 DEF Sorted
<1>10. \E i \in Places(q)' : queue'[q][i].id = counter /\ queue'[q][i].type = "MSG_PUB"
  <2>1. Len(queue[q]) + 1 \in Places(q)'
    BY <1>3
  <2> QED
    BY <2>1, <1>2, <1>3
<1>11. \A r \in Procs : Places(r) \subseteq Places(r)'
  BY <1>5 DEF Places
<1> QED
  BY <1>1, <1>3, <1>4, <1>5, <1>7, <1>8, <1>9, <1>10, <1>11 DEF m

(* Who stays blocked has the queue that he had.                             *)
LEMMA StillBlocked ==
    ASSUME IInv, blocked' \subseteq blocked, \A r \in blocked' : queue'[r] = queue[r],
           \A r \in blocked' : want'[r] = want[r] /\ hold'[r] = hold[r]
    PROVE  NoLostWakeup'
<1> SUFFICES ASSUME NEW r \in blocked'
             PROVE  IF want'[r] # NoCall THEN Matches(r, want[r].id)' = {}
                    ELSE hold'[r] = NoMsg /\ Matches(r, NULL)' = {}
  BY DEF NoLostWakeup
<1>1. r \in blocked /\ queue'[r] = queue[r] /\ want'[r] = want[r] /\ hold'[r] = hold[r]
  OBVIOUS
<1>2. Matches(r, want[r].id)' = Matches(r, want[r].id) /\ Matches(r, NULL)' = Matches(r, NULL)
  BY <1>1 DEF Matches
<1> QED
  BY <1>1, <1>2 DEF IInv, NoLostWakeup

LEMMA TellIInv ==
    ASSUME IInv, NEW p \in Procs, NEW q \in Procs, Tell(p, q)
    PROVE  IInv'
<1> PICK a \in BOOLEAN : a = FALSE
  OBVIOUS
<1>1. Request(p, q, a) /\ UNCHANGED <<alive, want, hold>>
  BY DEF Tell
<1>2. /\ queue' \in [Procs -> Seq(Messages)] /\ counter' = counter + 1 /\ counter' \in 0 .. MSG_MAX
      /\ MessagesOK' /\ OnePlace' /\ Sorted'
      /\ blocked' = blocked \ {q} /\ \A r \in Procs \ {q} : queue'[r] = queue[r]
  BY <1>1, RequestFacts
<1>0. \A r \in Procs : \A i \in Places(r)' :
         \/ i \in Places(r) /\ queue'[r][i] = queue[r][i]
         \/ /\ r = q /\ i = Len(queue[q]) + 1 /\ Len(queue[q]) \in Nat
            /\ queue'[r][i] = [id |-> counter, type |-> "MSG_PUB", from |-> p,
                               answer |-> a, tag |-> <<p, counter>>]
  BY <1>1, RequestFacts
<1>3. \A r \in Procs : \A i \in Places(r)' :
         \/ i \in Places(r) /\ queue'[r][i] = queue[r][i]
         \/ queue'[r][i].id = counter
  BY <1>0
<1>4. TypeOK'
  BY <1>1, <1>2 DEF IInv, TypeOK
<1>5. CallsOK'
  <2> SUFFICES ASSUME NEW c \in Procs, want[c] # NoCall
               PROVE  /\ c \in alive
                      /\ want[c].id < counter' /\ want[c].tag = <<c, want[c].id>> /\ want[c].to # c
                      /\ \A r \in Procs : want[r].id = want[c].id => r = c
                      /\ \A r \in Procs : \A i \in Places(r)' : queue'[r][i].id = want[c].id =>
                            /\ queue'[r][i].tag = want[c].tag
                            /\ queue'[r][i].type = "MSG_ID" => r = c
                            /\ queue'[r][i].type = "MSG_PUB" =>
                                  r = want[c].to /\ queue'[r][i].from = c /\ queue'[r][i].answer
                      /\ \A r \in Procs : hold[r].id = want[c].id =>
                            /\ hold[r].tag = want[c].tag
                            /\ r = want[c].to /\ hold[r].from = c /\ hold[r].answer
    BY <1>1 DEF CallsOK
  <2>1. want[c].id < counter /\ want[c].id \in Nat /\ counter \in Nat
    BY Typed DEF IInv, CallsOK
  <2>2. want[c].id < counter' /\ want[c].id # counter
    BY <2>1, <1>2
  <2> QED
    BY <2>2, <1>3 DEF IInv, CallsOK
<1>6. NoLostWakeup'
  BY <1>1, <1>2, StillBlocked DEF IInv, TypeOK
<1> QED
  BY <1>2, <1>4, <1>5, <1>6 DEF IInv

(* The call's request is the only message with its id.                      *)
LEMMA CallIInv ==
    ASSUME IInv, NEW p \in Procs, NEW q \in Procs, Call(p, q)
    PROVE  IInv'
<1> DEFINE w == [id |-> counter, to |-> q, tag |-> <<p, counter>>]
<1>1. /\ Request(p, q, TRUE) /\ UNCHANGED <<alive, hold>> /\ want' = [want EXCEPT ![p] = w]
      /\ p \in alive /\ p \notin blocked /\ want[p] = NoCall /\ p # q
  BY IpcAssumption DEF Call, Runs
<1>2. /\ queue' \in [Procs -> Seq(Messages)] /\ counter' = counter + 1 /\ counter' \in 0 .. MSG_MAX
      /\ MessagesOK' /\ OnePlace' /\ Sorted' /\ counter \in 0 .. MSG_MAX
      /\ blocked' = blocked \ {q} /\ \A r \in Procs \ {q} : queue'[r] = queue[r]
  BY <1>1, RequestFacts
<1>3. \A r \in Procs : \A i \in Places(r)' :
         \/ i \in Places(r) /\ queue'[r][i] = queue[r][i]
         \/ /\ r = q /\ i = Len(queue[q]) + 1 /\ Len(queue[q]) \in Nat
            /\ queue'[r][i] = [id |-> counter, type |-> "MSG_PUB", from |-> p,
                               answer |-> TRUE, tag |-> <<p, counter>>]
  BY <1>1, RequestFacts
<1>4. w \in Waits /\ w.id = counter /\ w.to = q /\ w.tag = <<p, counter>> /\ w # NoCall
  BY <1>2, Typed DEF Waits, Tags, IInv
<1> HIDE DEF w
<1>5. /\ want' \in [Procs -> Waits \cup {NoCall}] /\ want'[p] = w
      /\ \A r \in Procs \ {p} : want'[r] = want[r]
  BY <1>1, <1>4 DEF IInv, TypeOK
<1>6. TypeOK'
  BY <1>1, <1>2, <1>5 DEF IInv, TypeOK
<1>7. /\ \A r \in Procs : \A i \in Places(r) : queue[r][i].id # counter
      /\ \A r \in Procs : hold[r].id # counter
      /\ \A r \in Procs : want[r].id # counter
      /\ \A r \in Procs : want[r] # NoCall => want[r].id < counter' /\ want[r].id # NULL
      /\ counter < counter' /\ counter \in Nat
  <2>1. counter \in Nat /\ counter < counter'
    BY <1>2, Typed DEF IInv
  <2>2. ASSUME NEW r \in Procs, NEW i \in Places(r) PROVE queue[r][i].id # counter
    BY <2>1, Typed DEF IInv, MessagesOK
  <2>3. ASSUME NEW r \in Procs PROVE hold[r].id # counter
    BY <2>1, Typed DEF IInv, MessagesOK, NULL
  <2>4. ASSUME NEW r \in Procs, want[r] # NoCall
        PROVE  want[r].id \in Nat /\ want[r].id < counter /\ want[r].id < counter'
    <3>1. want[r].id \in Nat /\ want[r].id < counter
      BY <2>4, Typed DEF IInv, CallsOK
    <3> QED
      BY <2>1, <3>1, <1>2
  <2> QED
    BY <2>1, <2>2, <2>3, <2>4, Typed DEF IInv
<1>8. CallsOK'
  <2> SUFFICES ASSUME NEW c \in Procs, want'[c] # NoCall
               PROVE  /\ c \in alive
                      /\ want'[c].id < counter' /\ want'[c].tag = <<c, want'[c].id>>
                      /\ want'[c].to # c
                      /\ \A r \in Procs : want'[r].id = want'[c].id => r = c
                      /\ \A r \in Procs : \A i \in Places(r)' : queue'[r][i].id = want'[c].id =>
                            /\ queue'[r][i].tag = want'[c].tag
                            /\ queue'[r][i].type = "MSG_ID" => r = c
                            /\ queue'[r][i].type = "MSG_PUB" =>
                                  r = want'[c].to /\ queue'[r][i].from = c /\ queue'[r][i].answer
                      /\ \A r \in Procs : hold[r].id = want'[c].id =>
                            /\ hold[r].tag = want'[c].tag
                            /\ r = want'[c].to /\ hold[r].from = c /\ hold[r].answer
    BY <1>1 DEF CallsOK
  <2>1. CASE c = p
    <3>1. \A r \in Procs : want'[r].id = counter => r = p
      BY <1>5, <1>7
    <3>2. \A r \in Procs : \A i \in Places(r)' : queue'[r][i].id = counter =>
             /\ r = q /\ queue'[r][i].tag = <<p, counter>> /\ queue'[r][i].type = "MSG_PUB"
             /\ queue'[r][i].from = p /\ queue'[r][i].answer
      BY <1>3, <1>7
    <3> QED
      BY <2>1, <3>1, <3>2, <1>1, <1>4, <1>5, <1>7
  <2>2. CASE c # p
    <3>1. want'[c] = want[c] /\ want[c] # NoCall /\ want[c].id # counter
      BY <2>2, <1>5, <1>7
    <3>2. \A r \in Procs : want'[r].id = want[c].id => r = c
      BY <3>1, <1>4, <1>5 DEF IInv, CallsOK
    <3>3. \A r \in Procs : \A i \in Places(r)' : queue'[r][i].id = want[c].id =>
             i \in Places(r) /\ queue'[r][i] = queue[r][i]
      BY <3>1, <1>3
    <3> QED
      BY <3>1, <3>2, <3>3, <1>7 DEF IInv, CallsOK
  <2> QED
    BY <2>1, <2>2
<1>9. NoLostWakeup'
  BY <1>1, <1>2, <1>5, StillBlocked DEF IInv, TypeOK
<1> QED
  BY <1>2, <1>6, <1>8, <1>9 DEF IInv

-----------------------------------------------------------------------------
(* A message leaves a queue.                                               *)

(* Where the message at place j of r was before place i of p was taken.     *)
Was(p, i, r, j) == IF r # p \/ j < i THEN j ELSE j + 1

LEMMA WasFacts ==
    ASSUME TypeOK, NEW p \in Procs, NEW i \in Places(p), Take(p, i)
    PROVE  /\ queue' \in [Procs -> Seq(Messages)] /\ queue[p][i] \in Messages
           /\ \A r \in Procs : \A j \in Places(r)' :
                 /\ Was(p, i, r, j) \in Places(r) /\ (r = p => Was(p, i, r, j) # i)
                 /\ queue'[r][j] = queue[r][Was(p, i, r, j)]
           /\ \A r \in Procs : \A j, k \in Places(r)' :
                 /\ Was(p, i, r, j) = Was(p, i, r, k) => j = k
                 /\ j < k => Was(p, i, r, j) < Was(p, i, r, k)
           /\ \A r \in Procs : \A k \in Places(r) :
                 r # p \/ k # i => \E j \in Places(r)' : queue'[r][j] = queue[r][k]
           /\ blocked' = blocked
<1>1. /\ queue' \in [Procs -> Seq(Messages)] /\ queue[p][i] \in Messages
      /\ \A q \in Procs \ {p} : queue'[q] = queue[q]
      /\ Len(queue[p]) \in Nat /\ Places(p)' = 1 .. Len(queue[p]) - 1
      /\ \A j \in Places(p)' : queue'[p][j] = queue[p][IF j < i THEN j ELSE j + 1]
      /\ blocked' = blocked
  BY TakeFacts
<1>2. i \in 1 .. Len(queue[p]) /\ Places(p) = 1 .. Len(queue[p])
  BY DEF Places
<1>3. \A r \in Procs \ {p} : Places(r)' = Places(r)
  BY <1>1 DEF Places
<1>4. ASSUME NEW r \in Procs, NEW j \in Places(r)'
      PROVE  /\ Was(p, i, r, j) \in Places(r) /\ (r = p => Was(p, i, r, j) # i)
             /\ queue'[r][j] = queue[r][Was(p, i, r, j)]
  <2>1. CASE r # p
    BY <2>1, <1>1, <1>3 DEF Was
  <2>2. CASE r = p /\ j < i
    BY <2>2, <1>1, <1>2 DEF Was
  <2>3. CASE r = p /\ ~ (j < i)
    <3>1. Was(p, i, r, j) = j + 1 /\ j + 1 # i /\ j + 1 \in 1 .. Len(queue[p])
      BY <2>3, <1>1, <1>2 DEF Was
    <3>2. queue'[p][j] = queue[p][j + 1]
      BY <2>3, <1>1
    <3> QED
      BY <2>3, <3>1, <3>2, <1>2
  <2> QED
    BY <2>1, <2>2, <2>3
<1>5. ASSUME NEW r \in Procs, NEW j \in Places(r)', NEW k \in Places(r)'
      PROVE  /\ Was(p, i, r, j) = Was(p, i, r, k) => j = k
             /\ j < k => Was(p, i, r, j) < Was(p, i, r, k)
  <2>1. j \in Int /\ k \in Int
    BY DEF Places
  <2> QED
    BY <2>1, <1>2 DEF Was
<1>6. ASSUME NEW r \in Procs, NEW k \in Places(r), r # p \/ k # i
      PROVE  \E j \in Places(r)' : queue'[r][j] = queue[r][k]
  <2>1. CASE r # p
    BY <2>1, <1>1, <1>3
  <2>2. CASE r = p /\ k < i
    <3>1. k \in Places(p)' /\ queue'[p][k] = queue[p][k]
      BY <2>2, <1>1, <1>2
    <3> QED
      BY <2>2, <3>1
  <2>3. CASE r = p /\ ~ (k < i)
    <3>1. k - 1 \in Places(p)' /\ ~ (k - 1 < i) /\ k - 1 + 1 = k
      BY <1>6, <2>3, <1>1, <1>2
    <3> QED
      BY <2>3, <3>1, <1>1
  <2> QED
    BY <2>1, <2>2, <2>3
<1> QED
  BY <1>1, <1>4, <1>5, <1>6

(* ipc_recv comes back with its answer, or is blocked.                      *)
LEMMA RecvIInv ==
    ASSUME IInv, NEW p \in Procs, Recv(p)
    PROVE  IInv'
<1>1. p \in alive \ blocked /\ want[p] # NoCall /\ UNCHANGED <<alive, counter, hold>>
  BY DEF Recv
<1>2. CASE Matches(p, want[p].id) = {} /\ Block(p) /\ UNCHANGED want
  <2>1. UNCHANGED <<alive, queue, counter, want, hold>> /\ blocked' = blocked \cup {p}
    BY <1>1, <1>2 DEF Block
  <2>2. TypeOK' /\ MessagesOK' /\ OnePlace' /\ Sorted' /\ CallsOK'
    BY <1>1, <2>1 DEF IInv, TypeOK, MessagesOK, OnePlace, Sorted, CallsOK, Places
  <2>3. NoLostWakeup'
    BY <1>1, <1>2, <2>1 DEF IInv, NoLostWakeup, Matches
  <2> QED
    BY <2>2, <2>3 DEF IInv
<1>3. ASSUME NEW i \in Places(p), Take(p, i), want' = [want EXCEPT ![p] = NoCall]
      PROVE  IInv'
  <2>1. /\ queue' \in [Procs -> Seq(Messages)]
        /\ \A r \in Procs : \A j \in Places(r)' :
              /\ Was(p, i, r, j) \in Places(r) /\ queue'[r][j] = queue[r][Was(p, i, r, j)]
        /\ \A r \in Procs : \A j, k \in Places(r)' :
              /\ Was(p, i, r, j) = Was(p, i, r, k) => j = k
              /\ j < k => Was(p, i, r, j) < Was(p, i, r, k)
        /\ blocked' = blocked
    BY <1>3, WasFacts DEF IInv
  <2>2. /\ want' \in [Procs -> Waits \cup {NoCall}] /\ want'[p] = NoCall
        /\ \A r \in Procs \ {p} : want'[r] = want[r]
    BY <1>3 DEF IInv, TypeOK
  <2>3. TypeOK'
    BY <1>1, <2>1, <2>2 DEF IInv, TypeOK
  <2>4. MessagesOK'
    BY <1>1, <2>1 DEF IInv, MessagesOK
  <2>5. OnePlace'
    <3>1. ASSUME NEW r \in Procs, NEW t \in Procs, NEW j \in Places(r)', NEW k \in Places(t)',
                 queue'[r][j].id = queue'[t][k].id
          PROVE  r = t /\ j = k
      BY <2>1, <3>1 DEF IInv, OnePlace
    <3>2. ASSUME NEW r \in Procs, NEW t \in Procs, NEW j \in Places(r)'
          PROVE  queue'[r][j].id # hold[t].id
      BY <2>1 DEF IInv, OnePlace
    <3> QED
      BY <1>1, <3>1, <3>2 DEF IInv, OnePlace
  <2>6. Sorted'
    <3>1. ASSUME NEW r \in Procs, NEW j \in Places(r)', NEW k \in Places(r)', j < k,
                 queue'[r][j].type = "MSG_PUB", queue'[r][k].type = "MSG_PUB"
          PROVE  queue'[r][j].id < queue'[r][k].id
      BY <2>1, <3>1 DEF IInv, Sorted
    <3>2. ASSUME NEW r \in Procs, NEW j \in Places(r)', queue'[r][j].type = "MSG_PUB"
          PROVE  hold[r].id < queue'[r][j].id
      BY <2>1, <3>2 DEF IInv, Sorted
    <3> QED
      BY <1>1, <3>1, <3>2 DEF Sorted
  <2>7. CallsOK'
    <3> SUFFICES ASSUME NEW c \in Procs, want'[c] # NoCall
                 PROVE  /\ c \in alive
                        /\ want'[c].id < counter /\ want'[c].tag = <<c, want'[c].id>>
                        /\ want'[c].to # c
                        /\ \A r \in Procs : want'[r].id = want'[c].id => r = c
                        /\ \A r \in Procs : \A j \in Places(r)' : queue'[r][j].id = want'[c].id =>
                              /\ queue'[r][j].tag = want'[c].tag
                              /\ queue'[r][j].type = "MSG_ID" => r = c
                              /\ queue'[r][j].type = "MSG_PUB" =>
                                    r = want'[c].to /\ queue'[r][j].from = c /\ queue'[r][j].answer
                        /\ \A r \in Procs : hold[r].id = want'[c].id =>
                              /\ hold[r].tag = want'[c].tag
                              /\ r = want'[c].to /\ hold[r].from = c /\ hold[r].answer
      BY <1>1 DEF CallsOK
    <3>1. c # p /\ want'[c] = want[c] /\ want[c] # NoCall /\ want[c].id # NoCall.id
      BY <2>2, Typed DEF IInv
    <3>2. \A r \in Procs : want'[r].id = want[c].id => r = c
      BY <2>2, <3>1 DEF IInv, CallsOK
    <3>3. \A r \in Procs : \A j \in Places(r)' : \E k \in Places(r) : queue'[r][j] = queue[r][k]
      BY <2>1
    <3> QED
      BY <3>1, <3>2, <3>3 DEF IInv, CallsOK
  <2>8. NoLostWakeup'
    <3>1. \A r \in blocked : r \in Procs /\ r # p
      BY <1>1 DEF IInv, TypeOK
    <3>2. \A r \in Procs \ {p} : queue'[r] = queue[r]
      BY <1>3, TakeFacts DEF IInv
    <3> QED
      BY <1>1, <2>1, <2>2, <3>1, <3>2, StillBlocked
  <2> QED
    BY <2>3, <2>4, <2>5, <2>6, <2>7, <2>8 DEF IInv
<1> QED
  BY <1>1, <1>2, <1>3 DEF Recv, Places

(* The server takes the first request, or is blocked.                       *)
LEMMA ServeIInv ==
    ASSUME IInv, NEW p \in Procs, Serve(p)
    PROVE  IInv'
<1>1. p \in alive \ blocked /\ want[p] = NoCall /\ hold[p] = NoMsg /\ UNCHANGED <<alive, counter, want>>
  BY DEF Serve, Runs
<1>2. CASE Matches(p, NULL) = {} /\ Block(p) /\ UNCHANGED hold
  <2>1. UNCHANGED <<alive, queue, counter, want, hold>> /\ blocked' = blocked \cup {p}
    BY <1>1, <1>2 DEF Block
  <2>2. TypeOK' /\ MessagesOK' /\ OnePlace' /\ Sorted' /\ CallsOK'
    BY <1>1, <2>1 DEF IInv, TypeOK, MessagesOK, OnePlace, Sorted, CallsOK, Places
  <2>3. NoLostWakeup'
    BY <1>1, <1>2, <2>1 DEF IInv, NoLostWakeup, Matches
  <2> QED
    BY <2>2, <2>3 DEF IInv
<1>3. ASSUME NEW i \in Places(p), Found(p, NULL, i), Take(p, i),
             hold' = [hold EXCEPT ![p] = queue[p][i]]
      PROVE  IInv'
  <2> DEFINE m == queue[p][i]
  <2>1. /\ queue' \in [Procs -> Seq(Messages)] /\ m \in Messages
        /\ \A r \in Procs : \A j \in Places(r)' :
              /\ Was(p, i, r, j) \in Places(r) /\ (r = p => Was(p, i, r, j) # i)
              /\ queue'[r][j] = queue[r][Was(p, i, r, j)]
        /\ \A r \in Procs : \A j, k \in Places(r)' :
              /\ Was(p, i, r, j) = Was(p, i, r, k) => j = k
              /\ j < k => Was(p, i, r, j) < Was(p, i, r, k)
        /\ blocked' = blocked
    BY <1>3, WasFacts DEF IInv
  <2>2. /\ hold' \in [Procs -> Messages \cup {NoMsg}] /\ hold'[p] = m
        /\ \A r \in Procs \ {p} : hold'[r] = hold[r]
    BY <1>3, <2>1 DEF IInv, TypeOK
  <2>3. /\ m.type = "MSG_PUB" /\ m.id < counter /\ m.tag[2] = m.id /\ m.id \in Nat
        /\ \A j \in Places(p) : queue[p][j].type = "MSG_PUB" => i <= j
    BY <1>3, Typed DEF Found, Matches, NULL, Places, IInv, MessagesOK
  <2>4. /\ \A r \in Procs : \A j \in Places(r) : queue[r][j].id = m.id => r = p /\ j = i
        /\ \A r \in Procs : hold[r].id # m.id
    BY DEF IInv, OnePlace
  <2> HIDE DEF m
  <2>5. TypeOK'
    BY <1>1, <2>1, <2>2 DEF IInv, TypeOK
  <2>6. MessagesOK'
    <3>1. \A r \in Procs : \A j \in Places(r)' :
             queue'[r][j].id < counter /\ queue'[r][j].tag[2] = queue'[r][j].id
      BY <2>1 DEF IInv, MessagesOK
    <3>2. ASSUME NEW r \in Procs, hold'[r] # NoMsg
          PROVE  /\ hold'[r].type = "MSG_PUB" /\ hold'[r].id < counter
                 /\ hold'[r].tag[2] = hold'[r].id
      BY <2>2, <2>3, <3>2 DEF IInv, MessagesOK
    <3> QED
      BY <1>1, <3>1, <3>2 DEF MessagesOK
  <2>7. OnePlace'
    <3>1. ASSUME NEW r \in Procs, NEW t \in Procs, NEW j \in Places(r)', NEW k \in Places(t)',
                 queue'[r][j].id = queue'[t][k].id
          PROVE  r = t /\ j = k
      BY <2>1, <3>1 DEF IInv, OnePlace
    <3>2. ASSUME NEW r \in Procs, NEW t \in Procs, NEW j \in Places(r)'
          PROVE  queue'[r][j].id # hold'[t].id
      BY <2>1, <2>2, <2>4 DEF IInv, OnePlace
    <3>3. ASSUME NEW r \in Procs, NEW t \in Procs, hold'[r] # NoMsg, hold'[r].id = hold'[t].id
          PROVE  r = t
      BY <2>2, <2>4, <3>3 DEF IInv, OnePlace
    <3> QED
      BY <3>1, <3>2, <3>3 DEF OnePlace
  <2>8. Sorted'
    <3>1. ASSUME NEW r \in Procs, NEW j \in Places(r)', NEW k \in Places(r)', j < k,
                 queue'[r][j].type = "MSG_PUB", queue'[r][k].type = "MSG_PUB"
          PROVE  queue'[r][j].id < queue'[r][k].id
      BY <2>1, <3>1 DEF IInv, Sorted
    <3>2. ASSUME NEW r \in Procs, NEW j \in Places(r)', queue'[r][j].type = "MSG_PUB"
          PROVE  hold'[r].id < queue'[r][j].id
      <4>1. CASE r = p
        <5> DEFINE k == Was(p, i, p, j)
        <5>1. k \in Places(p) /\ k # i /\ queue'[p][j] = queue[p][k]
          BY <2>1, <4>1
        <5>2. k \in Nat /\ i \in Nat
          BY <5>1, Typed DEF IInv
        <5> HIDE DEF k
        <5>3. i < k /\ queue[p][k].type = "MSG_PUB"
          BY <2>3, <3>2, <4>1, <5>1, <5>2
        <5>4. m.id < queue[p][k].id
          BY <2>3, <5>1, <5>3 DEF IInv, Sorted, m
        <5> QED
          BY <2>2, <4>1, <5>1, <5>4
      <4>2. CASE r # p
        BY <2>1, <2>2, <3>2, <4>2 DEF IInv, Sorted
      <4> QED
        BY <4>1, <4>2
    <3> QED
      BY <3>1, <3>2 DEF Sorted
  <2>9. CallsOK'
    <3> SUFFICES ASSUME NEW c \in Procs, want[c] # NoCall
                 PROVE  /\ c \in alive
                        /\ want[c].id < counter /\ want[c].tag = <<c, want[c].id>>
                        /\ want[c].to # c
                        /\ \A r \in Procs : want[r].id = want[c].id => r = c
                        /\ \A r \in Procs : \A j \in Places(r)' : queue'[r][j].id = want[c].id =>
                              /\ queue'[r][j].tag = want[c].tag
                              /\ queue'[r][j].type = "MSG_ID" => r = c
                              /\ queue'[r][j].type = "MSG_PUB" =>
                                    r = want[c].to /\ queue'[r][j].from = c /\ queue'[r][j].answer
                        /\ \A r \in Procs : hold'[r].id = want[c].id =>
                              /\ hold'[r].tag = want[c].tag
                              /\ r = want[c].to /\ hold'[r].from = c /\ hold'[r].answer
      BY <1>1 DEF CallsOK
    <3>1. \A r \in Procs : \A j \in Places(r)' : \E k \in Places(r) : queue'[r][j] = queue[r][k]
      BY <2>1
    <3>2. m.id = want[c].id => m.tag = want[c].tag /\ p = want[c].to /\ m.from = c /\ m.answer
      BY <2>3 DEF IInv, CallsOK, m
    <3>3. ASSUME NEW r \in Procs, hold'[r].id = want[c].id
          PROVE  /\ hold'[r].tag = want[c].tag
                 /\ r = want[c].to /\ hold'[r].from = c /\ hold'[r].answer
      BY <2>2, <3>2, <3>3 DEF IInv, CallsOK
    <3> QED
      BY <3>1, <3>3 DEF IInv, CallsOK
  <2>10. NoLostWakeup'
    <3>1. \A r \in blocked : r \in Procs /\ r # p
      BY <1>1 DEF IInv, TypeOK
    <3>2. \A r \in Procs \ {p} : queue'[r] = queue[r]
      BY <1>3, TakeFacts DEF IInv
    <3> QED
      BY <1>1, <2>1, <2>2, <3>1, <3>2, StillBlocked
  <2> QED
    BY <2>5, <2>6, <2>7, <2>8, <2>9, <2>10 DEF IInv
<1> QED
  BY <1>1, <1>2, <1>3 DEF Serve, Places

(* A server that is done with a request: the answer has its id, or there is *)
(* no answer.                                                              *)
LEMMA DropIInv ==
    ASSUME IInv, NEW p \in Procs, hold' = [hold EXCEPT ![p] = NoMsg],
           UNCHANGED <<alive, queue, counter, want, blocked>>, p \notin blocked
    PROVE  IInv'
<1>1. /\ hold' \in [Procs -> Messages \cup {NoMsg}] /\ hold'[p] = NoMsg
      /\ \A r \in Procs \ {p} : hold'[r] = hold[r]
  BY DEF IInv, TypeOK
<1>2. /\ NoMsg.id = NULL /\ NULL \notin Nat
      /\ \A r \in Procs : \A j \in Places(r) : queue[r][j].id \in Nat
      /\ \A r \in Procs : want[r] # NoCall => want[r].id \in Nat
      /\ \A r \in Procs : hold[r] # NoMsg => hold[r].id \in Nat
  BY Typed DEF IInv
<1>3. TypeOK' /\ MessagesOK'
  BY <1>1 DEF IInv, TypeOK, MessagesOK, Places
<1>4. OnePlace'
  BY <1>1, <1>2 DEF IInv, OnePlace, Places
<1>5. Sorted'
  <2>1. \A r \in Procs : \A j \in Places(r) : NoMsg.id < queue[r][j].id
    BY <1>2 DEF NULL
  <2> QED
    BY <1>1, <2>1 DEF IInv, Sorted, Places
<1>6. CallsOK'
  BY <1>1, <1>2 DEF IInv, CallsOK, Places
<1>7. NoLostWakeup'
  BY <1>1, StillBlocked DEF IInv, TypeOK
<1> QED
  BY <1>3, <1>4, <1>5, <1>6, <1>7 DEF IInv

LEMMA ReplyIInv ==
    ASSUME IInv, NEW p \in Procs, Reply(p)
    PROVE  IInv'
<1> DEFINE h == hold[p]
           m == [id |-> h.id, type |-> "MSG_ID", from |-> p, answer |-> FALSE, tag |-> h.tag]
<1>1. /\ p \notin blocked /\ h # NoMsg /\ hold' = [hold EXCEPT ![p] = NoMsg]
      /\ UNCHANGED <<alive, counter, want>>
  BY DEF Reply, Runs
<1>2. CASE ~ (h.answer /\ h.from \in alive)
  BY <1>1, <1>2, DropIInv DEF Reply
<1>3. CASE h.answer /\ h.from \in alive
  <2>1. h \in Messages /\ h.from \in Procs /\ h.id \in Nat /\ Send(h.from, m)
    BY <1>1, <1>3, Typed DEF IInv, TypeOK, Reply
  <2> PICK t \in Procs : t = h.from
    BY <2>1
  <2>2. Send(t, m) /\ h.id \in Nat /\ h \in Messages
    BY <2>1
  <2>3. m \in Messages /\ m.id = h.id /\ m.type = "MSG_ID" /\ m.tag = h.tag /\ m.from = p
    BY <2>2 DEF Messages
  <2>4. /\ h.id < counter /\ h.tag[2] = h.id
        /\ \A r \in Procs : \A i \in Places(r) : queue[r][i].id # h.id
        /\ \A r \in Procs \ {p} : hold[r].id # h.id
        /\ \A c \in Procs : want[c] # NoCall /\ want[c].id = h.id =>
              h.tag = want[c].tag /\ t = c
    BY <1>1 DEF IInv, MessagesOK, OnePlace, CallsOK
  <2> HIDE DEF m
  <2>5. /\ queue' \in [Procs -> Seq(Messages)]
        /\ \A q \in Procs \ {t} : queue'[q] = queue[q]
        /\ Len(queue[t]) \in Nat /\ Places(t)' = 1 .. Len(queue[t]) + 1
        /\ \A k \in Places(t) : queue'[t][k] = queue[t][k]
        /\ queue'[t][Len(queue[t]) + 1] = m
        /\ blocked' = blocked \ {t}
    BY <2>2, <2>3, SendFacts DEF IInv
  <2>6. ASSUME NEW r \in Procs, NEW i \in Places(r)'
        PROVE  \/ i \in Places(r) /\ queue'[r][i] = queue[r][i]
               \/ r = t /\ i = Len(queue[t]) + 1 /\ queue'[r][i] = m
    BY <2>5 DEF Places
  <2>7. /\ hold' \in [Procs -> Messages \cup {NoMsg}] /\ hold'[p] = NoMsg
        /\ \A r \in Procs \ {p} : hold'[r] = hold[r]
    BY <1>1 DEF IInv, TypeOK
  <2>8. /\ NoMsg.id = NULL /\ NULL \notin Nat
        /\ \A r \in Procs : \A i \in Places(r) : queue[r][i].id \in Nat
        /\ \A r \in Procs : want[r] # NoCall => want[r].id \in Nat
        /\ \A r \in Procs : hold[r] # NoMsg => hold[r].id \in Nat
    BY Typed DEF IInv
  <2> HIDE DEF h
  <2>9. TypeOK'
    BY <1>1, <2>5, <2>7 DEF IInv, TypeOK
  <2>10. MessagesOK'
    <3>1. \A r \in Procs : \A i \in Places(r)' :
             queue'[r][i].id < counter /\ queue'[r][i].tag[2] = queue'[r][i].id
      BY <2>3, <2>4, <2>6 DEF IInv, MessagesOK
    <3>2. ASSUME NEW r \in Procs, hold'[r] # NoMsg
          PROVE  /\ hold'[r].type = "MSG_PUB" /\ hold'[r].id < counter
                 /\ hold'[r].tag[2] = hold'[r].id
      BY <2>7, <3>2 DEF IInv, MessagesOK
    <3> QED
      BY <1>1, <3>1, <3>2 DEF MessagesOK
  <2>11. OnePlace'
    <3>1. ASSUME NEW r \in Procs, NEW u \in Procs, NEW i \in Places(r)', NEW k \in Places(u)',
                 queue'[r][i].id = queue'[u][k].id
          PROVE  r = u /\ i = k
      BY <2>3, <2>4, <2>6, <3>1 DEF IInv, OnePlace
    <3>2. ASSUME NEW r \in Procs, NEW u \in Procs, NEW i \in Places(r)'
          PROVE  queue'[r][i].id # hold'[u].id
      BY <2>2, <2>3, <2>4, <2>6, <2>7, <2>8 DEF IInv, OnePlace
    <3>3. ASSUME NEW r \in Procs, NEW u \in Procs, hold'[r] # NoMsg, hold'[r].id = hold'[u].id
          PROVE  r = u
      BY <2>7, <2>8, <3>3 DEF IInv, OnePlace
    <3> QED
      BY <3>1, <3>2, <3>3 DEF OnePlace
  <2>12. Sorted'
    <3>1. ASSUME NEW r \in Procs, NEW i \in Places(r)', NEW k \in Places(r)', i < k,
                 queue'[r][i].type = "MSG_PUB", queue'[r][k].type = "MSG_PUB"
          PROVE  queue'[r][i].id < queue'[r][k].id
      BY <2>3, <2>6, <3>1 DEF IInv, Sorted
    <3>2. ASSUME NEW r \in Procs, NEW i \in Places(r)', queue'[r][i].type = "MSG_PUB"
          PROVE  hold'[r].id < queue'[r][i].id
      <4>1. i \in Places(r) /\ queue'[r][i] = queue[r][i]
        BY <2>3, <2>6, <3>2
      <4>2. NoMsg.id < queue[r][i].id
        BY <2>8, <4>1 DEF NULL
      <4> QED
        BY <2>7, <3>2, <4>1, <4>2 DEF IInv, Sorted
    <3> QED
      BY <3>1, <3>2 DEF Sorted
  <2>13. CallsOK'
    <3> SUFFICES ASSUME NEW c \in Procs, want[c] # NoCall
                 PROVE  /\ c \in alive
                        /\ want[c].id < counter /\ want[c].tag = <<c, want[c].id>>
                        /\ want[c].to # c
                        /\ \A r \in Procs : want[r].id = want[c].id => r = c
                        /\ \A r \in Procs : \A i \in Places(r)' : queue'[r][i].id = want[c].id =>
                              /\ queue'[r][i].tag = want[c].tag
                              /\ queue'[r][i].type = "MSG_ID" => r = c
                              /\ queue'[r][i].type = "MSG_PUB" =>
                                    r = want[c].to /\ queue'[r][i].from = c /\ queue'[r][i].answer
                        /\ \A r \in Procs : hold'[r].id = want[c].id =>
                              /\ hold'[r].tag = want[c].tag
                              /\ r = want[c].to /\ hold'[r].from = c /\ hold'[r].answer
      BY <1>1 DEF CallsOK
    <3>1. ASSUME NEW r \in Procs, NEW i \in Places(r)', queue'[r][i].id = want[c].id
          PROVE  /\ queue'[r][i].tag = want[c].tag
                 /\ queue'[r][i].type = "MSG_ID" => r = c
                 /\ queue'[r][i].type = "MSG_PUB" =>
                       r = want[c].to /\ queue'[r][i].from = c /\ queue'[r][i].answer
      <4>1. CASE i \in Places(r) /\ queue'[r][i] = queue[r][i]
        BY <3>1, <4>1 DEF IInv, CallsOK
      <4>2. CASE r = t /\ queue'[r][i] = m
        BY <2>3, <2>4, <3>1, <4>2
      <4> QED
        BY <2>6, <4>1, <4>2
    <3>2. ASSUME NEW r \in Procs, hold'[r].id = want[c].id
          PROVE  /\ hold'[r].tag = want[c].tag
                 /\ r = want[c].to /\ hold'[r].from = c /\ hold'[r].answer
      BY <2>7, <2>8, <3>2 DEF IInv, CallsOK
    <3> QED
      BY <3>1, <3>2 DEF IInv, CallsOK
  <2>14. NoLostWakeup'
    BY <1>1, <2>5, <2>7, StillBlocked DEF IInv, TypeOK
  <2> QED
    BY <2>9, <2>10, <2>11, <2>12, <2>13, <2>14 DEF IInv
<1> QED
  BY <1>2, <1>3

LEMMA ReplyLostIInv ==
    ASSUME IInv, NEW p \in Procs, ReplyLost(p)
    PROVE  IInv'
BY DropIInv DEF ReplyLost, Runs

(* What a process leaves behind when it ends is nothing but its requests in *)
(* other queues, and answers to nobody.                                    *)
LEMMA ExitIInv ==
    ASSUME IInv, NEW p \in Procs, Exit(p)
    PROVE  IInv'
<1>1. /\ queue' \in [Procs -> Seq(Messages)] /\ queue'[p] = <<>> /\ Places(p)' = {}
      /\ hold' \in [Procs -> Messages \cup {NoMsg}] /\ hold'[p] = NoMsg
      /\ want' \in [Procs -> Waits \cup {NoCall}] /\ want'[p] = NoCall
      /\ alive' = alive \ {p} /\ blocked' = blocked \ {p} /\ counter' = counter
      /\ \A r \in Procs \ {p} : /\ queue'[r] = queue[r] /\ Places(r)' = Places(r)
                               /\ hold'[r] = hold[r] /\ want'[r] = want[r]
  BY DEF Exit, IInv, TypeOK, Places
<1>2. /\ NoMsg.id = NULL /\ NULL \notin Nat /\ NoCall.id = NULL
      /\ \A r \in Procs : \A j \in Places(r) : queue[r][j].id \in Nat
      /\ \A r \in Procs : want[r] # NoCall => want[r].id \in Nat
      /\ \A r \in Procs : hold[r] # NoMsg => hold[r].id \in Nat
  BY Typed DEF IInv
<1>3. /\ \A r \in Procs : \A j \in Places(r)' : j \in Places(r) /\ queue'[r][j] = queue[r][j]
      /\ \A r \in Procs : hold'[r] = hold[r] \/ hold'[r] = NoMsg
      /\ \A r \in Procs : want'[r] = want[r] \/ want'[r] = NoCall
  BY <1>1
<1>4. TypeOK' /\ MessagesOK'
  <2>1. TypeOK'
    BY <1>1 DEF IInv, TypeOK
  <2>2. \A r \in Procs : \A j \in Places(r)' :
           queue'[r][j].id < counter /\ queue'[r][j].tag[2] = queue'[r][j].id
    BY <1>3 DEF IInv, MessagesOK
  <2>3. ASSUME NEW r \in Procs, hold'[r] # NoMsg
        PROVE  hold'[r].type = "MSG_PUB" /\ hold'[r].id < counter /\ hold'[r].tag[2] = hold'[r].id
    BY <1>3, <2>3 DEF IInv, MessagesOK
  <2> QED
    BY <2>1, <2>2, <2>3, <1>1 DEF MessagesOK
<1>5. OnePlace'
  <2>1. ASSUME NEW r \in Procs, NEW u \in Procs, NEW i \in Places(r)', NEW k \in Places(u)',
               queue'[r][i].id = queue'[u][k].id
        PROVE  r = u /\ i = k
    BY <1>3, <2>1 DEF IInv, OnePlace
  <2>2. ASSUME NEW r \in Procs, NEW u \in Procs, NEW i \in Places(r)'
        PROVE  queue'[r][i].id # hold'[u].id
    BY <1>2, <1>3 DEF IInv, OnePlace
  <2>3. ASSUME NEW r \in Procs, NEW u \in Procs, hold'[r] # NoMsg, hold'[r].id = hold'[u].id
        PROVE  r = u
    BY <1>2, <1>3, <2>3 DEF IInv, OnePlace
  <2> QED
    BY <2>1, <2>2, <2>3 DEF OnePlace
<1>6. Sorted'
  <2>1. ASSUME NEW r \in Procs, NEW i \in Places(r)', NEW k \in Places(r)', i < k,
               queue'[r][i].type = "MSG_PUB", queue'[r][k].type = "MSG_PUB"
        PROVE  queue'[r][i].id < queue'[r][k].id
    BY <1>3, <2>1 DEF IInv, Sorted
  <2>2. ASSUME NEW r \in Procs, NEW i \in Places(r)', queue'[r][i].type = "MSG_PUB"
        PROVE  hold'[r].id < queue'[r][i].id
    BY <1>1, <1>3, <2>2 DEF IInv, Sorted
  <2> QED
    BY <2>1, <2>2 DEF Sorted
<1>7. CallsOK'
  <2> SUFFICES ASSUME NEW c \in Procs, want'[c] # NoCall
               PROVE  /\ c \in alive'
                      /\ want'[c].id < counter' /\ want'[c].tag = <<c, want'[c].id>>
                      /\ want'[c].to # c
                      /\ \A r \in Procs : want'[r].id = want'[c].id => r = c
                      /\ \A r \in Procs : \A i \in Places(r)' : queue'[r][i].id = want'[c].id =>
                            /\ queue'[r][i].tag = want'[c].tag
                            /\ queue'[r][i].type = "MSG_ID" => r = c
                            /\ queue'[r][i].type = "MSG_PUB" =>
                                  r = want'[c].to /\ queue'[r][i].from = c /\ queue'[r][i].answer
                      /\ \A r \in Procs : hold'[r].id = want'[c].id =>
                            /\ hold'[r].tag = want'[c].tag
                            /\ r = want'[c].to /\ hold'[r].from = c /\ hold'[r].answer
    BY DEF CallsOK
  <2>1. c # p /\ want'[c] = want[c] /\ want[c] # NoCall /\ want[c].id \in Nat
    BY <1>1, <1>2
  <2>2. \A r \in Procs : want'[r].id = want[c].id => r = c
    BY <1>2, <1>3, <2>1 DEF IInv, CallsOK
  <2>3. ASSUME NEW r \in Procs, hold'[r].id = want[c].id
        PROVE  /\ hold'[r].tag = want[c].tag
               /\ r = want[c].to /\ hold'[r].from = c /\ hold'[r].answer
    BY <1>2, <1>3, <2>1, <2>3 DEF IInv, CallsOK
  <2>4. /\ c \in alive' /\ want[c].id < counter' /\ want[c].tag = <<c, want[c].id>>
        /\ want[c].to # c
    BY <1>1, <2>1 DEF IInv, CallsOK
  <2>5. ASSUME NEW r \in Procs, NEW i \in Places(r)', queue'[r][i].id = want[c].id
        PROVE  /\ queue'[r][i].tag = want[c].tag
               /\ queue'[r][i].type = "MSG_ID" => r = c
               /\ queue'[r][i].type = "MSG_PUB" =>
                     r = want[c].to /\ queue'[r][i].from = c /\ queue'[r][i].answer
    <3>1. i \in Places(r) /\ queue'[r][i] = queue[r][i]
      BY <1>3
    <3> QED
      BY <3>1, <2>1, <2>5 DEF IInv, CallsOK
  <2> QED
    BY <2>1, <2>2, <2>3, <2>4, <2>5
<1>8. NoLostWakeup'
  BY <1>1, StillBlocked DEF IInv, TypeOK
<1> QED
  BY <1>4, <1>5, <1>6, <1>7, <1>8 DEF IInv

LEMMA Inductive == Spec => []IInv
<1>1. IInv /\ [Next]_vars => IInv'
  <2> SUFFICES ASSUME IInv, [Next]_vars PROVE IInv'
    OBVIOUS
  <2>1. ASSUME NEW p \in Procs, Spawn(p) PROVE IInv'
    <3>1. UNCHANGED <<queue, counter, blocked, want, hold>> /\ alive' = alive \cup {p}
      BY <2>1 DEF Spawn
    <3>2. MessagesOK' /\ OnePlace' /\ Sorted' /\ NoLostWakeup'
      BY <3>1 DEF IInv, MessagesOK, OnePlace, Sorted, NoLostWakeup, Places, Matches
    <3>3. TypeOK' /\ CallsOK'
      BY <3>1 DEF IInv, TypeOK, CallsOK, Places
    <3> QED
      BY <3>2, <3>3 DEF IInv
  <2>2. CASE UNCHANGED vars
    BY <2>2 DEF vars, IInv, TypeOK, MessagesOK, OnePlace, Sorted, CallsOK, NoLostWakeup, Places,
       Matches
  <2> QED
    BY <2>1, <2>2, CallIInv, TellIInv, RecvIInv, ServeIInv, ReplyIInv, ReplyLostIInv, ExitIInv
       DEF Next
<1> QED
  BY <1>1, InitIInv, PTL DEF Spec

(* A process that is blocked in ipc_recv or ipc_server has no message that  *)
(* it could go on with: sys_get_msg, the retries and proc_send_msg's wake-up *)
(* leave nobody asleep in front of one.                                    *)
THEOREM WakeupsKept == Spec => []NoLostWakeup
<1>1. IInv => NoLostWakeup
  BY DEF IInv
<1> QED
  BY <1>1, Inductive, PTL

(* ipc_recv returns with the answer to the call it was called for, however  *)
(* many owners a slot has had (get_msg's search by id).                     *)
THEOREM AnswersAreOurs == Spec => []AnswerIsOurs
<1>1. IInv => AnswerIsOurs
  <2> SUFFICES ASSUME IInv, NEW p \in Procs, want[p] # NoCall, NEW i \in Places(p),
                      queue[p][i].id = want[p].id
               PROVE  queue[p][i].type = "MSG_ID" /\ queue[p][i].tag = want[p].tag
    BY DEF AnswerIsOurs, Pending, Places
  <2>1. queue[p][i].type \in {"MSG_PUB", "MSG_ID"}
    BY Typed DEF IInv, Messages
  <2> QED
    BY <2>1 DEF IInv, CallsOK
<1> QED
  BY <1>1, Inductive, PTL

(* device_run takes the requests of its queue in the order they were sent.  *)
THEOREM InOrder == Spec => []ServedInOrder
<1>1. IInv => ServedInOrder
  <2> SUFFICES ASSUME IInv, NEW p \in Procs, NEW i \in Places(p), queue[p][i].type = "MSG_PUB"
               PROVE  /\ queue[p][i].id < counter /\ hold[p].id < queue[p][i].id
                      /\ \A k \in Places(p) : queue[p][k].id = queue[p][i].id =>
                            queue[p][k] = queue[p][i]
    BY DEF ServedInOrder, Pending, Places
  <2> QED
    BY DEF IInv, MessagesOK, OnePlace, Sorted
<1> QED
  BY <1>1, Inductive, PTL

(* A call is never in two places: what is in a server's hands is in no      *)
(* queue, and what was answered will not be answered again.                 *)
THEOREM CalledOnce == Spec => []CallOnce
<1>1. IInv => CallOnce
  <2> SUFFICES ASSUME IInv, NEW p \in Procs, want[p] # NoCall
               PROVE  LET places == {x \in Procs \X (1 .. MSG_MAX) :
                                       /\ x[2] <= Len(queue[x[1]])
                                       /\ queue[x[1]][x[2]].tag = want[p].tag}
                          held   == {q \in Procs : hold[q] # NoMsg /\ hold[q].tag = want[p].tag}
                      IN  /\ held \subseteq {want[p].to}
                          /\ \A x, y \in places : x = y
                          /\ held # {} => places = {}
    BY DEF CallOnce, IInv
  <2> DEFINE places == {x \in Procs \X (1 .. MSG_MAX) :
                           /\ x[2] <= Len(queue[x[1]])
                           /\ queue[x[1]][x[2]].tag = want[p].tag}
             held   == {q \in Procs : hold[q] # NoMsg /\ hold[q].tag = want[p].tag}
  <2>1. want[p].tag[2] = want[p].id
    BY DEF IInv, CallsOK
  <2>2. ASSUME NEW q \in held PROVE q \in Procs /\ hold[q].id = want[p].id /\ hold[q] # NoMsg
    BY <2>1 DEF IInv, MessagesOK
  <2>3. ASSUME NEW x \in places
        PROVE  /\ x[1] \in Procs /\ x[2] \in Places(x[1]) /\ x = <<x[1], x[2]>>
               /\ queue[x[1]][x[2]].id = want[p].id
    <3>1. x[1] \in Procs /\ x[2] \in Places(x[1]) /\ x = <<x[1], x[2]>>
      <4>1. Len(queue[x[1]]) \in Nat
        BY LenProperties DEF IInv, TypeOK
      <4> QED
        BY <4>1, IpcAssumption DEF Places
    <3>2. queue[x[1]][x[2]].tag[2] = queue[x[1]][x[2]].id
      BY <3>1 DEF IInv, MessagesOK
    <3> QED
      BY <3>1, <3>2, <2>1
  <2>4. held \subseteq {want[p].to}
    BY <2>2 DEF IInv, CallsOK
  <2> HIDE DEF places, held
  <2>5. ASSUME NEW x \in places, NEW y \in places PROVE x = y
    BY <2>3 DEF IInv, OnePlace
  <2>6. ASSUME NEW q \in held, NEW x \in places PROVE FALSE
    BY <2>2, <2>3 DEF IInv, OnePlace
  <2> QED
    BY <2>4, <2>5, <2>6 DEF places, held
<1> QED
  BY <1>1, Inductive, PTL

-----------------------------------------------------------------------------
(* The queues implement Rpc: each turn of a process moves one call, or none. *)

LEMMA SendPends ==
    ASSUME TypeOK, NEW to \in Procs, NEW m \in Messages, Send(to, m)
    PROVE  \A r \in Procs : Pending(r)' = Pending(r) \cup (IF r = to THEN {m} ELSE {})
<1>1. /\ \A q \in Procs \ {to} : queue'[q] = queue[q]
      /\ Len(queue[to]) \in Nat /\ Places(to)' = 1 .. Len(queue[to]) + 1
      /\ \A j \in Places(to) : queue'[to][j] = queue[to][j]
      /\ queue'[to][Len(queue[to]) + 1] = m
  BY SendFacts
<1>2. \A r \in Procs \ {to} : Pending(r)' = Pending(r)
  BY <1>1 DEF Pending
<1>3. Pending(to)' = Pending(to) \cup {m}
  <2>1. Pending(to) = {queue[to][j] : j \in 1 .. Len(queue[to])}
    BY DEF Pending
  <2>2. Pending(to)' = {queue'[to][j] : j \in 1 .. Len(queue[to]) + 1}
    BY <1>1 DEF Pending, Places
  <2>3. \A j \in 1 .. Len(queue[to]) : queue'[to][j] = queue[to][j]
    BY <1>1 DEF Places
  <2>4. Pending(to)' \subseteq Pending(to) \cup {m}
    <3> SUFFICES ASSUME NEW j \in 1 .. Len(queue[to]) + 1
                 PROVE  queue'[to][j] \in Pending(to) \cup {m}
      BY <2>2
    <3>1. CASE j \in 1 .. Len(queue[to])
      BY <2>1, <2>3, <3>1
    <3>2. CASE j = Len(queue[to]) + 1
      BY <1>1, <3>2
    <3> QED
      BY <1>1, <3>1, <3>2
  <2>5. Pending(to) \subseteq Pending(to)'
    <3> SUFFICES ASSUME NEW j \in 1 .. Len(queue[to]) PROVE queue[to][j] \in Pending(to)'
      BY <2>1
    <3>1. j \in 1 .. Len(queue[to]) + 1 /\ queue'[to][j] = queue[to][j]
      BY <1>1, <2>3
    <3> QED
      BY <2>2, <3>1
  <2>6. m \in Pending(to)'
    <3>1. Len(queue[to]) + 1 \in 1 .. Len(queue[to]) + 1
      BY <1>1
    <3> QED
      BY <1>1, <2>2, <3>1
  <2> QED
    BY <2>4, <2>5, <2>6
<1> QED
  BY <1>2, <1>3

LEMMA TakePends ==
    ASSUME IInv, NEW p \in Procs, NEW i \in Places(p), Take(p, i)
    PROVE  \A r \in Procs : Pending(r)' = Pending(r) \ {queue[p][i]}
<1>1. /\ \A r \in Procs : \A j \in Places(r)' :
            /\ Was(p, i, r, j) \in Places(r) /\ (r = p => Was(p, i, r, j) # i)
            /\ queue'[r][j] = queue[r][Was(p, i, r, j)]
      /\ \A r \in Procs : \A k \in Places(r) :
            r # p \/ k # i => \E j \in Places(r)' : queue'[r][j] = queue[r][k]
  BY WasFacts DEF IInv
<1>2. \A r \in Procs : \A k \in Places(r) : queue[r][k] = queue[p][i] => r = p /\ k = i
  BY DEF IInv, OnePlace
<1> SUFFICES ASSUME NEW r \in Procs PROVE Pending(r)' = Pending(r) \ {queue[p][i]}
  OBVIOUS
<1>3. Pending(r) = {queue[r][k] : k \in Places(r)} /\ Pending(r)' = {queue'[r][k] : k \in Places(r)'}
  BY DEF Pending, Places
<1>4. ASSUME NEW j \in Places(r)' PROVE queue'[r][j] \in Pending(r) \ {queue[p][i]}
  BY <1>1, <1>2, <1>3
<1>5. ASSUME NEW k \in Places(r), queue[r][k] # queue[p][i] PROVE queue[r][k] \in Pending(r)'
  BY <1>1, <1>3, <1>5
<1> QED
  BY <1>3, <1>4, <1>5

(* Where nothing happens to the messages with its id, a call stays as it is. *)
LEMMA SameProgress ==
    ASSUME NEW c \in Procs, want'[c] = want[c],
           want[c] # NoCall =>
               /\ \A m \in Pending(c) \cup Pending(c)' : m.id = want[c].id =>
                     (m \in Pending(c) <=> m \in Pending(c)')
               /\ \A t \in Procs : t = want[c].to =>
                     /\ \A m \in Pending(t) \cup Pending(t)' : m.id = want[c].id =>
                           (m \in Pending(t) <=> m \in Pending(t)')
                     /\ hold'[t].id = want[c].id <=> hold[t].id = want[c].id
               /\ want[c].to \in Procs
    PROVE  Progress(c)' = Progress(c)
<1>1. CASE want[c] = NoCall
  BY <1>1 DEF Progress
<1>2. CASE want[c] # NoCall
  <2> PICK t \in Procs : t = want[c].to
    BY <1>2
  <2>1. (\E m \in Pending(c)' : m.type = "MSG_ID" /\ m.id = want[c].id)
        <=> (\E m \in Pending(c) : m.type = "MSG_ID" /\ m.id = want[c].id)
    BY <1>2
  <2>2. (\E m \in Pending(t)' : m.type = "MSG_PUB" /\ m.id = want[c].id)
        <=> (\E m \in Pending(t) : m.type = "MSG_PUB" /\ m.id = want[c].id)
    BY <1>2
  <2>3. hold'[t].id = want[c].id <=> hold[t].id = want[c].id
    BY <1>2
  <2>4. Progress(c) =
           [to |-> t,
            phase |-> IF \E m \in Pending(c) : m.type = "MSG_ID" /\ m.id = want[c].id THEN "answered"
                      ELSE IF \E m \in Pending(t) : m.type = "MSG_PUB" /\ m.id = want[c].id THEN "sent"
                      ELSE IF hold[t].id = want[c].id THEN "taken"
                      ELSE "lost"]
    BY <1>2 DEF Progress
  <2>5. Progress(c)' =
           [to |-> t,
            phase |-> IF \E m \in Pending(c)' : m.type = "MSG_ID" /\ m.id = want[c].id THEN "answered"
                      ELSE IF \E m \in Pending(t)' : m.type = "MSG_PUB" /\ m.id = want[c].id THEN "sent"
                      ELSE IF hold'[t].id = want[c].id THEN "taken"
                      ELSE "lost"]
    BY <1>2 DEF Progress, Pending
  <2> QED
    BY <2>1, <2>2, <2>3, <2>4, <2>5
<1> QED
  BY <1>1, <1>2

(* Where the message of a call is tells its phase.                          *)
LEMMA PhaseFacts ==
    ASSUME IInv, NEW c \in Procs
    PROVE  /\ want[c] = NoCall => Progress(c) = [phase |-> "idle", to |-> NULL]
           /\ want[c] # NoCall =>
                 /\ want[c].to \in Procs /\ want[c].id \in Nat
                 /\ Progress(c) = [phase |-> Progress(c).phase, to |-> want[c].to]
                 /\ (\E m \in Pending(c) : m.id = want[c].id) => Progress(c).phase = "answered"
                 /\ \A t \in Procs : t = want[c].to =>
                       /\ (\E m \in Pending(t) : m.id = want[c].id) => Progress(c).phase = "sent"
                       /\ hold[t].id = want[c].id => Progress(c).phase = "taken"
                       /\ Progress(c).phase = "taken" => hold[t].id = want[c].id
<1>1. CASE want[c] = NoCall
  BY <1>1 DEF Progress
<1>2. CASE want[c] # NoCall
  <2>1. want[c].to \in Procs /\ want[c].id \in Nat
    BY <1>2, Typed DEF IInv, Waits
  <2> PICK t \in Procs : t = want[c].to
    BY <2>1
  <2>2. Progress(c) =
           [to |-> t,
            phase |-> IF \E m \in Pending(c) : m.type = "MSG_ID" /\ m.id = want[c].id THEN "answered"
                      ELSE IF \E m \in Pending(t) : m.type = "MSG_PUB" /\ m.id = want[c].id THEN "sent"
                      ELSE IF hold[t].id = want[c].id THEN "taken"
                      ELSE "lost"]
    BY <1>2 DEF Progress
  <2>3. ASSUME NEW r \in Procs, NEW m \in Pending(r), m.id = want[c].id
        PROVE  /\ \E i \in Places(r) : m = queue[r][i]
               /\ m.type = "MSG_ID" \/ m.type = "MSG_PUB"
               /\ m.type = "MSG_ID" => r = c
               /\ m.type = "MSG_PUB" => r = t
    <3>1. PICK i \in Places(r) : m = queue[r][i]
      BY DEF Pending, Places
    <3>2. m.type \in {"MSG_PUB", "MSG_ID"}
      BY <3>1, Typed DEF IInv, Messages
    <3> QED
      BY <1>2, <2>3, <3>1, <3>2 DEF IInv, CallsOK
  <2>4. t # c
    BY <1>2 DEF IInv, CallsOK
  <2>5. ASSUME NEW m \in Pending(c), m.id = want[c].id PROVE Progress(c).phase = "answered"
    BY <2>2, <2>3, <2>4, <2>5
  <2>6. ASSUME NEW m \in Pending(t), m.id = want[c].id PROVE Progress(c).phase = "sent"
    <3>1. m.type = "MSG_PUB"
      BY <2>3, <2>4, <2>6
    <3>2. \A n \in Pending(c) : n.id # want[c].id
      BY <2>3, <2>4, <2>6 DEF IInv, OnePlace
    <3> QED
      BY <2>2, <2>6, <3>1, <3>2
  <2>7. ASSUME hold[t].id = want[c].id PROVE Progress(c).phase = "taken"
    <3>1. \A r \in Procs : \A n \in Pending(r) : n.id # want[c].id
      BY <2>3, <2>7 DEF IInv, OnePlace
    <3> QED
      BY <2>2, <2>7, <3>1
  <2>8. Progress(c).phase = "taken" => hold[t].id = want[c].id
    BY <2>2
  <2>9. Progress(c) = [phase |-> Progress(c).phase, to |-> want[c].to]
    BY <2>2
  <2> QED
    BY <1>2, <2>1, <2>5, <2>6, <2>7, <2>8, <2>9
<1> QED
  BY <1>1, <1>2

(* A step of one call.                                                     *)
LEMMA OneCall ==
    ASSUME NEW c \in Procs, \A o \in Procs \ {c} : Progress(o)' = Progress(o)
    PROVE  /\ Calls[c] = Progress(c)
           /\ \A v : Progress(c)' = v => Calls' = [Calls EXCEPT ![c] = v]
           /\ \A a, b, t : Progress(c) = [phase |-> a, to |-> t] /\ Progress(c)' = [phase |-> b, to |-> t]
                            => R!Become(c, b)
<1>1. Calls = [o \in Procs |-> Progress(o)] /\ Calls' = [o \in Procs |-> Progress(o)']
  BY DEF Calls
<1>2. ASSUME NEW v, Progress(c)' = v PROVE Calls' = [Calls EXCEPT ![c] = v]
  <2>1. \A o \in Procs : Calls'[o] = [Calls EXCEPT ![c] = v][o]
    BY <1>1, <1>2
  <2> QED
    BY <1>1, <2>1
<1>3. ASSUME NEW a, NEW b, NEW t, Progress(c) = [phase |-> a, to |-> t],
             Progress(c)' = [phase |-> b, to |-> t]
      PROVE  R!Become(c, b)
  <2>1. Calls' = [Calls EXCEPT ![c] = [phase |-> b, to |-> t]]
    BY <1>2, <1>3
  <2>2. [Calls[c] EXCEPT !.phase = b] = [phase |-> b, to |-> t]
    BY <1>1, <1>3
  <2> QED
    BY <2>1, <2>2 DEF R!Become
<1> QED
  BY <1>1, <1>2, <1>3

LEMMA NoCallMoves ==
    ASSUME \A o \in Procs : Progress(o)' = Progress(o)
    PROVE  Calls' = Calls
<1>1. Calls = [o \in Procs |-> Progress(o)] /\ Calls' = [o \in Procs |-> Progress(o)']
  BY DEF Calls
<1> QED
  BY <1>1

(* ipc_call up to ipc_recv begins a call.                                   *)
LEMMA CallBegins ==
    ASSUME IInv, NEW p \in Procs, NEW q \in Procs, Call(p, q)
    PROVE  R!Begin(p, q)
<1> DEFINE m == [id |-> counter, type |-> "MSG_PUB", from |-> p, answer |-> TRUE,
                 tag |-> <<p, counter>>]
           w == [id |-> counter, to |-> q, tag |-> <<p, counter>>]
<1>1. /\ Send(q, m) /\ want' = [want EXCEPT ![p] = w] /\ hold' = hold /\ want[p] = NoCall
      /\ counter \in 0 .. MSG_MAX /\ counter \in Nat /\ p # q
  BY Typed, IpcAssumption DEF Call, Request, Runs, IInv, TypeOK
<1>2. /\ m \in Messages /\ m.id = counter /\ m.type = "MSG_PUB" /\ w.id = counter /\ w.to = q
      /\ w # NoCall /\ want'[p] = w /\ \A o \in Procs \ {p} : want'[o] = want[o]
  BY <1>1 DEF Messages, Tags, IInv, TypeOK, NoCall, NULL
<1> HIDE DEF m, w
<1>3. \A r \in Procs : Pending(r)' = Pending(r) \cup (IF r = q THEN {m} ELSE {})
  BY <1>1, <1>2, SendPends DEF IInv
<1>4. /\ \A r \in Procs : \A n \in Pending(r) : n.id # counter
      /\ \A c \in Procs : want[c] # NoCall => want[c].id # counter
  <2>1. \A r \in Procs : \A i \in Places(r) : queue[r][i].id \in Nat /\ queue[r][i].id < counter
    BY Typed DEF IInv, MessagesOK
  <2>2. \A c \in Procs : want[c] # NoCall => want[c].id \in Nat /\ want[c].id < counter
    BY Typed DEF IInv, CallsOK
  <2> QED
    BY <1>1, <2>1, <2>2 DEF Pending, Places
<1>5. ASSUME NEW c \in Procs \ {p} PROVE Progress(c)' = Progress(c)
  <2>1. want[c] # NoCall => want[c].to \in Procs /\ want[c].id # m.id
    BY <1>2, <1>4, PhaseFacts
  <2> QED
    BY <1>1, <1>2, <1>3, <2>1, SameProgress
<1>6. Progress(p) = [phase |-> "idle", to |-> NULL]
  BY <1>1, PhaseFacts
<1>7. Progress(p)' = [phase |-> "sent", to |-> q]
  <2>1. m \in Pending(q)' /\ \A n \in Pending(p)' : n.id # counter
    BY <1>1, <1>3, <1>4
  <2>2. Progress(p)' =
           [to |-> q,
            phase |-> IF \E n \in Pending(p)' : n.type = "MSG_ID" /\ n.id = counter THEN "answered"
                      ELSE IF \E n \in Pending(q)' : n.type = "MSG_PUB" /\ n.id = counter THEN "sent"
                      ELSE IF hold'[q].id = counter THEN "taken"
                      ELSE "lost"]
    BY <1>2 DEF Progress, Pending
  <2> QED
    BY <1>2, <2>1, <2>2
<1> QED
  BY <1>5, <1>6, <1>7, OneCall DEF R!Begin, R!Idle, R!None, NULL

LEMMA TellHidden ==
    ASSUME IInv, NEW p \in Procs, NEW q \in Procs, Tell(p, q)
    PROVE  Calls' = Calls
<1> DEFINE m == [id |-> counter, type |-> "MSG_PUB", from |-> p, answer |-> FALSE,
                 tag |-> <<p, counter>>]
<1>1. /\ Send(q, m) /\ UNCHANGED <<want, hold>>
      /\ counter \in 0 .. MSG_MAX /\ counter \in Nat
  BY Typed DEF Tell, Request, IInv, TypeOK
<1>2. m \in Messages /\ m.id = counter
  BY <1>1 DEF Messages, Tags
<1> HIDE DEF m
<1>3. \A r \in Procs : Pending(r)' = Pending(r) \cup (IF r = q THEN {m} ELSE {})
  BY <1>1, <1>2, SendPends DEF IInv
<1>4. \A c \in Procs : want[c] # NoCall => want[c].id # counter
  <2>1. \A c \in Procs : want[c] # NoCall => want[c].id \in Nat /\ want[c].id < counter
    BY Typed DEF IInv, CallsOK
  <2> QED
    BY <1>1, <2>1
<1>5. ASSUME NEW c \in Procs PROVE Progress(c)' = Progress(c)
  <2>1. want[c] # NoCall => want[c].to \in Procs /\ want[c].id # m.id
    BY <1>2, <1>4, PhaseFacts
  <2> QED
    BY <1>1, <1>2, <1>3, <2>1, SameProgress
<1> QED
  BY <1>5, NoCallMoves

(* Nothing is seen of a process that is blocked, or of a new one.           *)
LEMMA QuietHidden ==
    ASSUME IInv, UNCHANGED <<queue, want, hold>>
    PROVE  Calls' = Calls
<1>1. ASSUME NEW c \in Procs PROVE Progress(c)' = Progress(c)
  <2>1. \A r \in Procs : Pending(r)' = Pending(r)
    BY DEF Pending
  <2>2. want[c] # NoCall => want[c].to \in Procs
    BY PhaseFacts
  <2> QED
    BY <2>1, <2>2, SameProgress
<1> QED
  BY <1>1, NoCallMoves

(* ipc_recv returns from a call that was answered.                          *)
LEMMA RecvReturns ==
    ASSUME IInv, NEW p \in Procs, Recv(p)
    PROVE  R!Return(p) \/ Calls' = Calls
<1>1. want[p] # NoCall /\ UNCHANGED <<alive, counter, hold>>
  BY DEF Recv
<1>2. CASE Matches(p, want[p].id) = {} /\ Block(p) /\ UNCHANGED want
  BY <1>1, <1>2, QuietHidden DEF Block
<1>3. ASSUME NEW i \in Places(p), Found(p, want[p].id, i), Take(p, i),
             want' = [want EXCEPT ![p] = NoCall]
      PROVE  R!Return(p)
  <2>1. want[p].id \in Nat
    BY <1>1, PhaseFacts
  <2>2. queue[p][i] \in Pending(p) /\ queue[p][i].id = want[p].id
    BY <1>3, <2>1 DEF Found, Matches, Pending, Places
  <2>3. \A r \in Procs : Pending(r)' = Pending(r) \ {queue[p][i]}
    BY <1>3, TakePends
  <2>4. want'[p] = NoCall /\ \A o \in Procs \ {p} : want'[o] = want[o]
    BY <1>3 DEF IInv, TypeOK
  <2>5. ASSUME NEW c \in Procs \ {p} PROVE Progress(c)' = Progress(c)
    <3>1. want[c] # NoCall => want[c].to \in Procs /\ want[c].id # queue[p][i].id
      BY <1>1, <2>2, PhaseFacts DEF IInv, CallsOK
    <3> QED
      BY <1>1, <2>3, <2>4, <3>1, SameProgress
  <2>6. Progress(p).phase = "answered"
    BY <1>1, <2>2, PhaseFacts
  <2>7. Progress(p)' = [phase |-> "idle", to |-> NULL]
    BY <2>4 DEF Progress
  <2> QED
    BY <2>5, <2>6, <2>7, OneCall DEF R!Return, R!Idle, R!None, NULL
<1> QED
  BY <1>2, <1>3 DEF Recv, Places

(* device_run takes a call while it works on no other.                      *)
LEMMA ServeTakes ==
    ASSUME IInv, NEW p \in Procs, Serve(p)
    PROVE  (\E c \in Procs : R!Take(c)) \/ Calls' = Calls
<1>1. hold[p] = NoMsg /\ UNCHANGED want
  BY DEF Serve
<1>2. CASE Matches(p, NULL) = {} /\ Block(p) /\ UNCHANGED hold
  BY <1>1, <1>2, QuietHidden DEF Block
<1>3. ASSUME NEW i \in Places(p), Found(p, NULL, i), Take(p, i),
             hold' = [hold EXCEPT ![p] = queue[p][i]]
      PROVE  (\E c \in Procs : R!Take(c)) \/ Calls' = Calls
  <2> DEFINE m == queue[p][i]
  <2>1. m \in Pending(p) /\ m.type = "MSG_PUB" /\ m \in Messages
    BY <1>3, Typed DEF Found, Matches, Pending, Places, NULL, IInv
  <2>2. \A r \in Procs : \A n \in Pending(r) : n.id = m.id => n = m
    BY DEF IInv, OnePlace, Pending, Places
  <2>3. \A c \in Procs : want[c] # NoCall /\ want[c].id = m.id => want[c].to = p
    BY <2>1 DEF IInv, CallsOK
  <2> HIDE DEF m
  <2>4. \A r \in Procs : Pending(r)' = Pending(r) \ {m}
    BY <1>3, TakePends DEF m
  <2>5. /\ hold'[p] = m /\ \A r \in Procs \ {p} : hold'[r] = hold[r]
        /\ hold[p].id = NULL /\ NULL \notin Nat
    BY <1>1, <1>3, <2>1, Typed DEF IInv, TypeOK, m
  <2>6. ASSUME NEW c \in Procs, want[c] = NoCall \/ want[c].id # m.id
        PROVE  Progress(c)' = Progress(c)
    <3>1. want[c] # NoCall => want[c].to \in Procs /\ want[c].id # m.id /\ want[c].id \in Nat
      BY <2>6, PhaseFacts
    <3>2. \A r \in Procs : want[c] # NoCall => (hold'[r].id = want[c].id <=> hold[r].id = want[c].id)
      BY <2>5, <3>1
    <3> QED
      BY <1>1, <2>4, <3>1, <3>2, SameProgress
  <2>7. CASE \A c \in Procs : want[c] = NoCall \/ want[c].id # m.id
    BY <2>6, <2>7, NoCallMoves
  <2>8. ASSUME NEW c \in Procs, want[c] # NoCall, want[c].id = m.id PROVE R!Take(c)
    <3>1. want[c].to = p /\ Progress(c) = [phase |-> "sent", to |-> p]
      BY <2>1, <2>3, <2>8, PhaseFacts
    <3>2. \A o \in Procs \ {c} : Progress(o)' = Progress(o)
      BY <2>6, <2>8 DEF IInv, CallsOK
    <3>3. Progress(c)' = [phase |-> "taken", to |-> p]
      <4>1. \A r \in Procs : \A n \in Pending(r)' : n.id # want[c].id
        BY <2>2, <2>4, <2>8
      <4>2. Progress(c)' =
               [to |-> p,
                phase |-> IF \E n \in Pending(c)' : n.type = "MSG_ID" /\ n.id = want[c].id
                          THEN "answered"
                          ELSE IF \E n \in Pending(p)' : n.type = "MSG_PUB" /\ n.id = want[c].id
                          THEN "sent"
                          ELSE IF hold'[p].id = want[c].id THEN "taken"
                          ELSE "lost"]
        BY <1>1, <2>8, <3>1 DEF Progress, Pending
      <4> QED
        BY <2>5, <2>8, <4>1, <4>2
    <3>4. ASSUME NEW o \in Procs, Progress(o).to = p PROVE Progress(o).phase # "taken"
      <4>1. CASE want[o] = NoCall
        <5>1. Progress(o).phase = "idle"
          BY <4>1, PhaseFacts
        <5> QED
          BY <5>1
      <4>2. CASE want[o] # NoCall
        <5>1. want[o].to = p /\ want[o].id \in Nat
          BY <3>4, <4>2, PhaseFacts
        <5> QED
          BY <2>5, <4>2, <5>1, PhaseFacts
      <4> QED
        BY <4>1, <4>2
    <3>5. \A o \in Procs : Calls[o] = Progress(o)
      BY DEF Calls
    <3> QED
      BY <3>1, <3>2, <3>3, <3>4, <3>5, OneCall DEF R!Take
  <2> QED
    BY <2>7, <2>8
<1> QED
  BY <1>2, <1>3 DEF Serve, Places

(* A server that drops what it works on loses the call it was, if any.      *)
LEMMA DropMoves ==
    ASSUME IInv, NEW p \in Procs, hold[p] # NoMsg, hold' = [hold EXCEPT ![p] = NoMsg],
           UNCHANGED <<queue, want>>
    PROVE  \/ \E c \in Procs : want[c] # NoCall /\ want[c].id = hold[p].id /\ R!Lose(c)
           \/ Calls' = Calls
<1>1. /\ hold[p].id \in Nat /\ hold'[p] = NoMsg /\ NoMsg.id = NULL /\ NULL \notin Nat
      /\ \A r \in Procs \ {p} : hold'[r] = hold[r]
  BY Typed DEF IInv, TypeOK
<1>2. \A r \in Procs : Pending(r)' = Pending(r)
  BY DEF Pending
<1>3. ASSUME NEW c \in Procs, want[c] = NoCall \/ want[c].id # hold[p].id
      PROVE  Progress(c)' = Progress(c)
  <2>1. want[c] # NoCall => want[c].to \in Procs /\ want[c].id # hold[p].id /\ want[c].id \in Nat
    BY <1>3, PhaseFacts
  <2>2. \A r \in Procs : want[c] # NoCall => (hold'[r].id = want[c].id <=> hold[r].id = want[c].id)
    BY <1>1, <2>1
  <2> QED
    BY <1>2, <2>1, <2>2, SameProgress
<1>4. CASE \A c \in Procs : want[c] = NoCall \/ want[c].id # hold[p].id
  BY <1>3, <1>4, NoCallMoves
<1>5. ASSUME NEW c \in Procs, want[c] # NoCall, want[c].id = hold[p].id PROVE R!Lose(c)
  <2>1. want[c].to = p /\ Progress(c) = [phase |-> "taken", to |-> p]
    BY <1>5, PhaseFacts DEF IInv, CallsOK
  <2>2. \A o \in Procs \ {c} : Progress(o)' = Progress(o)
    BY <1>3, <1>5 DEF IInv, CallsOK
  <2>3. Progress(c)' = [phase |-> "lost", to |-> p]
    <3>1. \A r \in Procs : \A n \in Pending(r)' : n.id # want[c].id
      BY <1>2, <1>5 DEF IInv, OnePlace, Pending, Places
    <3>2. Progress(c)' =
             [to |-> p,
              phase |-> IF \E n \in Pending(c)' : n.type = "MSG_ID" /\ n.id = want[c].id
                        THEN "answered"
                        ELSE IF \E n \in Pending(p)' : n.type = "MSG_PUB" /\ n.id = want[c].id
                        THEN "sent"
                        ELSE IF hold'[p].id = want[c].id THEN "taken"
                        ELSE "lost"]
      BY <1>5, <2>1 DEF Progress, Pending
    <3> QED
      BY <1>1, <1>5, <3>1, <3>2
  <2> QED
    BY <2>1, <2>2, <2>3, OneCall DEF R!Lose
<1> QED
  BY <1>4, <1>5

LEMMA ReplyLostLoses ==
    ASSUME IInv, NEW p \in Procs, ReplyLost(p)
    PROVE  (\E c \in Procs : R!Lose(c)) \/ Calls' = Calls
BY DropMoves DEF ReplyLost

(* The end of a handler answers the call, and no other.                     *)
LEMMA ReplyAnswers ==
    ASSUME IInv, NEW p \in Procs, Reply(p)
    PROVE  (\E c \in Procs : R!Answer(c)) \/ Calls' = Calls
<1>1. hold[p] # NoMsg /\ hold' = [hold EXCEPT ![p] = NoMsg] /\ UNCHANGED <<alive, want>>
  BY DEF Reply
<1>2. CASE ~ (hold[p].answer /\ hold[p].from \in alive)
  <2>1. UNCHANGED <<queue, want>>
    BY <1>2 DEF Reply
  <2>2. \A c \in Procs : want[c] # NoCall => want[c].id # hold[p].id
    BY <1>2 DEF IInv, CallsOK
  <2> QED
    BY <1>1, <2>1, <2>2, DropMoves
<1>3. CASE hold[p].answer /\ hold[p].from \in alive
  <2>1. hold[p] \in Messages /\ hold[p].from \in Procs /\ hold[p].id \in Nat
    BY <1>1, Typed DEF IInv, Messages
  <2> PICK h \in Messages : h = hold[p]
    BY <2>1
  <2> PICK t \in Procs : t = h.from
    BY <2>1
  <2> DEFINE m == [id |-> h.id, type |-> "MSG_ID", from |-> p, answer |-> FALSE, tag |-> h.tag]
  <2>2. Send(t, m) /\ m \in Messages /\ m.id = h.id /\ m.type = "MSG_ID" /\ h.id \in Nat
    BY <1>3, <2>1 DEF Reply, Messages
  <2> HIDE DEF m
  <2>3. \A r \in Procs : Pending(r)' = Pending(r) \cup (IF r = t THEN {m} ELSE {})
    BY <2>2, SendPends DEF IInv
  <2>4. /\ hold'[p] = NoMsg /\ NoMsg.id = NULL /\ NULL \notin Nat
        /\ \A r \in Procs \ {p} : hold'[r] = hold[r]
    BY <1>1, Typed DEF IInv, TypeOK
  <2>5. ASSUME NEW c \in Procs, want[c] = NoCall \/ want[c].id # h.id
        PROVE  Progress(c)' = Progress(c)
    <3>1. want[c] # NoCall => want[c].to \in Procs /\ want[c].id # h.id /\ want[c].id \in Nat
      BY <2>5, PhaseFacts
    <3>2. \A r \in Procs : want[c] # NoCall =>
             (hold'[r].id = want[c].id <=> hold[r].id = want[c].id)
      BY <2>4, <3>1
    <3> QED
      BY <1>1, <2>2, <2>3, <3>1, <3>2, SameProgress
  <2>6. CASE \A c \in Procs : want[c] = NoCall \/ want[c].id # h.id
    BY <2>5, <2>6, NoCallMoves
  <2>7. ASSUME NEW c \in Procs, want[c] # NoCall, want[c].id = h.id PROVE R!Answer(c)
    <3>1. /\ want[c].to = p /\ t = c /\ c # p
          /\ Progress(c) = [phase |-> "taken", to |-> p]
      BY <2>7, PhaseFacts DEF IInv, CallsOK
    <3>2. \A o \in Procs \ {c} : Progress(o)' = Progress(o)
      BY <2>5, <2>7 DEF IInv, CallsOK
    <3>3. Progress(c)' = [phase |-> "answered", to |-> p]
      <4>1. m \in Pending(c)'
        BY <2>3, <3>1
      <4>2. Progress(c)' =
               [to |-> p,
                phase |-> IF \E n \in Pending(c)' : n.type = "MSG_ID" /\ n.id = want[c].id
                          THEN "answered"
                          ELSE IF \E n \in Pending(p)' : n.type = "MSG_PUB" /\ n.id = want[c].id
                          THEN "sent"
                          ELSE IF hold'[p].id = want[c].id THEN "taken"
                          ELSE "lost"]
        BY <1>1, <2>7, <3>1 DEF Progress, Pending
      <4> QED
        BY <2>2, <2>7, <4>1, <4>2
    <3> QED
      BY <3>1, <3>2, <3>3, OneCall DEF R!Answer
  <2> QED
    BY <2>6, <2>7
<1> QED
  BY <1>2, <1>3

(* proc_exit loses what the process had not answered, and its own call.     *)
LEMMA ExitExits ==
    ASSUME IInv, NEW q \in Procs, Exit(q)
    PROVE  R!Exit(q)
<1>1. /\ queue'[q] = <<>> /\ \A r \in Procs \ {q} : queue'[r] = queue[r]
      /\ hold'[q] = NoMsg /\ \A r \in Procs \ {q} : hold'[r] = hold[r]
      /\ want'[q] = NoCall /\ \A r \in Procs \ {q} : want'[r] = want[r]
  BY DEF Exit, IInv, TypeOK
<1>2. Pending(q)' = {} /\ \A r \in Procs \ {q} : Pending(r)' = Pending(r)
  BY <1>1 DEF Pending
<1>3. NoMsg.id = NULL /\ NULL \notin Nat /\ NULL \notin Procs
  BY Typed, IpcAssumption DEF IInv, NULL
<1>4. Progress(q)' = R!Idle
  BY <1>1 DEF Progress, R!Idle, R!None, NULL
<1>5. ASSUME NEW c \in Procs \ {q}, want[c] = NoCall
      PROVE  Progress(c)' = Progress(c) /\ Progress(c).to # q
  <2>1. Progress(c) = [phase |-> "idle", to |-> NULL]
    BY <1>5, PhaseFacts
  <2>2. Progress(c)' = Progress(c)
    BY <1>1, <1>5 DEF Progress
  <2> QED
    BY <1>3, <2>1, <2>2
<1>6. ASSUME NEW c \in Procs \ {q}, want[c] # NoCall, want[c].to # q
      PROVE  Progress(c)' = Progress(c) /\ Progress(c).to # q
  <2>1. want[c].to \in Procs \ {q} /\ Progress(c).to = want[c].to
    <3>1. want[c].to \in Procs /\ Progress(c) = [phase |-> Progress(c).phase, to |-> want[c].to]
      BY <1>6, PhaseFacts
    <3>2. Progress(c).to = want[c].to
      BY <3>1
    <3> QED
      BY <1>6, <3>1, <3>2
  <2>2. Progress(c)' = Progress(c)
    BY <1>1, <1>2, <2>1, SameProgress
  <2> QED
    BY <1>6, <2>1, <2>2
<1>7. ASSUME NEW c \in Procs \ {q}, want[c] # NoCall, want[c].to = q
      PROVE  /\ Progress(c).to = q
             /\ Progress(c)' = IF Progress(c).phase \in {"sent", "taken"}
                               THEN [phase |-> "lost", to |-> q] ELSE Progress(c)
  <2> DEFINE back == \E m \in Pending(c) : m.type = "MSG_ID" /\ m.id = want[c].id
             there == \E m \in Pending(q) : m.type = "MSG_PUB" /\ m.id = want[c].id
  <2>1. want[c].id \in Nat
    BY <1>7, PhaseFacts
  <2>2. Progress(c) = [to |-> q, phase |-> IF back THEN "answered"
                                           ELSE IF there THEN "sent"
                                           ELSE IF hold[q].id = want[c].id THEN "taken" ELSE "lost"]
    BY <1>7 DEF Progress
  <2>3. Progress(c)' = [to |-> q, phase |-> IF back THEN "answered" ELSE "lost"]
    <3>1. Progress(c)' =
             [to |-> q,
              phase |-> IF \E n \in Pending(c)' : n.type = "MSG_ID" /\ n.id = want[c].id
                        THEN "answered"
                        ELSE IF \E n \in Pending(q)' : n.type = "MSG_PUB" /\ n.id = want[c].id
                        THEN "sent"
                        ELSE IF hold'[q].id = want[c].id THEN "taken"
                        ELSE "lost"]
      BY <1>1, <1>7 DEF Progress, Pending
    <3>2. Pending(c)' = Pending(c) /\ Pending(q)' = {} /\ hold'[q].id # want[c].id
      BY <1>1, <1>2, <1>3, <2>1
    <3> QED
      BY <3>1, <3>2
  <2> HIDE DEF back, there
  <2> QED
    BY <2>2, <2>3
<1>8. Calls = [o \in Procs |-> Progress(o)] /\ Calls' = [o \in Procs |-> Progress(o)']
  BY DEF Calls
<1>9. ASSUME NEW c \in Procs
      PROVE  Progress(c)' = IF c = q THEN R!Idle
                            ELSE IF Progress(c).to = q /\ Progress(c).phase \in {"sent", "taken"}
                                 THEN [phase |-> "lost", to |-> q]
                                 ELSE Progress(c)
  BY <1>4, <1>5, <1>6, <1>7
<1> QED
  BY <1>8, <1>9 DEF R!Exit

LEMMA StepMaps ==
    ASSUME IInv, [Next]_vars
    PROVE  [R!Next]_Calls
<1>1. ASSUME NEW p \in Procs, NEW q \in Procs, Call(p, q) PROVE R!Next
  BY <1>1, CallBegins DEF R!Next
<1>2. ASSUME NEW p \in Procs, NEW q \in Procs, Tell(p, q) PROVE Calls' = Calls
  BY <1>2, TellHidden
<1>3. ASSUME NEW p \in Procs, Recv(p) PROVE R!Next \/ Calls' = Calls
  BY <1>3, RecvReturns DEF R!Next
<1>4. ASSUME NEW p \in Procs, Serve(p) PROVE R!Next \/ Calls' = Calls
  BY <1>4, ServeTakes DEF R!Next
<1>5. ASSUME NEW p \in Procs, Reply(p) PROVE R!Next \/ Calls' = Calls
  BY <1>5, ReplyAnswers DEF R!Next
<1>6. ASSUME NEW p \in Procs, ReplyLost(p) PROVE R!Next \/ Calls' = Calls
  BY <1>6, ReplyLostLoses DEF R!Next
<1>7. ASSUME NEW p \in Procs, Exit(p) PROVE R!Next
  BY <1>7, ExitExits DEF R!Next
<1>8. ASSUME NEW p \in Procs, Spawn(p) PROVE Calls' = Calls
  BY <1>8, QuietHidden DEF Spawn
<1>9. CASE UNCHANGED vars
  BY <1>9, QuietHidden DEF vars
<1> QED
  BY <1>1, <1>2, <1>3, <1>4, <1>5, <1>6, <1>7, <1>8, <1>9 DEF Next

(* The queues of ipc.c and the loops of libs/sys implement Rpc: a server    *)
(* takes one call at a time, answers it once, and the caller returns with   *)
(* that answer, for any number of processes that come and go.  A call is    *)
(* lost with its server, or when new_msg has no memory for the answer; a    *)
(* kmalloc that fails for a message's data (ipc.c:91) is not in Ipc.        *)
THEOREM CallsAreRpc == Spec => ImplementsRpc
<1>1. Init => R!Init
  <2> SUFFICES ASSUME Init PROVE \A p \in Procs : Progress(p) = R!Idle
    BY DEF R!Init, Calls
  <2> QED
    BY DEF Init, Progress, R!Idle, R!None, NULL
<1>2. IInv /\ [Next]_vars => [R!Next]_Calls
  BY StepMaps
<1> QED
  BY <1>1, <1>2, Inductive, PTL DEF Spec, ImplementsRpc, R!Spec
=============================================================================
