---------------------------- MODULE TopologyProofs ----------------------------
(***************************************************************************)
(* Proofs about what the readers, the Poll handler and the broadcasts of   *)
(* Supervisor agree on: the chain of a source follows what its adapter     *)
(* reported last, and Play reaches every adapter that is ready.            *)
(***************************************************************************)
EXTENDS SupervisorProofs

\* The lines by which an adapter says what it is, and those that tell of its
\* streams.
Announces(m) == m.kind \in {"Ready", "Mismatch"}
Tells(m) == m.kind \in {"Ready", "Mismatch", "StreamsChanged"}

\* Lines without an announcement, lines that tell nothing, and lines in which
\* nothing is told before the announcement.
Quiet(q)   == \A i \in 1 .. Len(q) : ~Announces(q[i])
Silent(q)  == \A i \in 1 .. Len(q) : ~Tells(q[i])
Ordered(q) == \A i, j \in 1 .. Len(q) : i < j /\ Announces(q[j]) => ~Tells(q[i])

LEMMA EmptyQueue == Quiet(<<>>) /\ Silent(<<>>) /\ Ordered(<<>>)
  BY DEF Quiet, Silent, Ordered

\* What the first line says of the lines that follow it.
LEMMA ReadQueue ==
  ASSUME NEW q \in Seq(Message), q # <<>>, Ordered(q)
  PROVE  /\ Ordered(Tail(q))
         /\ Silent(q) => Silent(Tail(q)) /\ ~Tells(Head(q))
         /\ Tells(Head(q)) => Quiet(Tail(q))
         /\ Announces(Head(q)) => ~Quiet(q)
         /\ ~Announces(Head(q)) => (Quiet(Tail(q)) <=> Quiet(q))
<1> DEFINE n == Len(q)
           t == Tail(q)
<1>1. n \in Nat /\ n >= 1 /\ Head(q) = q[1] /\ Len(t) = n - 1
  OBVIOUS
<1>2. \A i \in 1 .. n - 1 : t[i] = q[i + 1]
  OBVIOUS
<1> HIDE DEF t
<1>3. \A i \in 1 .. n - 1 : i + 1 \in 1 .. n
  BY <1>1
<1>4. \A i \in 2 .. n : i - 1 \in 1 .. n - 1 /\ t[i - 1] = q[i]
  BY <1>1, <1>2
<1>5. Ordered(t)
  BY <1>1, <1>2, <1>3 DEF Ordered
<1>6. Silent(q) => Silent(t) /\ ~Tells(q[1])
  BY <1>1, <1>2, <1>3 DEF Silent
<1>7. Tells(q[1]) => Quiet(t)
  BY <1>1, <1>2, <1>3 DEF Ordered, Quiet
<1>8. Announces(q[1]) => ~Quiet(q)
  BY <1>1 DEF Quiet
<1>9. ~Announces(q[1]) => (Quiet(t) <=> Quiet(q))
  <2> SUFFICES ASSUME ~Announces(q[1]) PROVE Quiet(t) <=> Quiet(q)
    OBVIOUS
  <2>1. Quiet(q) => Quiet(t)
    BY <1>1, <1>2, <1>3 DEF Quiet
  <2>2. ASSUME Quiet(t), NEW i \in 1 .. n PROVE ~Announces(q[i])
    <3>1. CASE i = 1
      BY <3>1
    <3>2. CASE i \in 2 .. n
      BY <1>1, <1>4, <2>2, <3>2 DEF Quiet
    <3> QED
      BY <1>1, <3>1, <3>2
  <2> QED
    BY <2>1, <2>2 DEF Quiet
<1> QED
  BY <1>1, <1>5, <1>6, <1>7, <1>8, <1>9 DEF t

\* What a line does to the lines before it.
LEMMA WriteQueue ==
  ASSUME NEW q \in Seq(Message), NEW m \in Message, Ordered(q),
         Announces(m) => Silent(q)
  PROVE  /\ Ordered(Append(q, m))
         /\ Silent(q) /\ ~Tells(m) => Silent(Append(q, m))
         /\ Announces(m) => ~Quiet(Append(q, m))
         /\ ~Announces(m) => (Quiet(Append(q, m)) <=> Quiet(q))
<1> DEFINE n == Len(q)
           t == Append(q, m)
<1>1. n \in Nat /\ Len(t) = n + 1 /\ t[n + 1] = m
  OBVIOUS
<1>2. \A i \in 1 .. n : t[i] = q[i] /\ i \in 1 .. n + 1
  OBVIOUS
<1>3. \A i \in 1 .. n + 1 : i \in 1 .. n \/ i = n + 1
  BY <1>1
<1> HIDE DEF t, n
<1>4. Ordered(t)
  <2> SUFFICES ASSUME NEW i \in 1 .. n + 1, NEW j \in 1 .. n + 1, i < j, Announces(t[j])
               PROVE  ~Tells(t[i])
    BY <1>1 DEF Ordered
  <2>1. i \in 1 .. n
    BY <1>1, <1>3
  <2>2. CASE j = n + 1
    BY <1>1, <1>2, <2>1, <2>2 DEF Silent, n
  <2>3. CASE j \in 1 .. n
    BY <1>1, <1>2, <2>1, <2>3 DEF Ordered, n
  <2> QED
    BY <1>3, <2>2, <2>3
<1>5. Silent(q) /\ ~Tells(m) => Silent(t)
  BY <1>1, <1>2, <1>3 DEF Silent, n
<1>6. Announces(m) => ~Quiet(t)
  BY <1>1 DEF Quiet
<1>7. ~Announces(m) => (Quiet(t) <=> Quiet(q))
  BY <1>1, <1>2, <1>3 DEF Quiet, n
<1> QED
  BY <1>4, <1>5, <1>6, <1>7 DEF t

-----------------------------------------------------------------------------
(* The pipes.  An adapter announces itself before it tells of its streams.  *)

PipesInOrder ==
  \A p \in Adapter :
    /\ Ordered(pipe[p])
    /\ p \notin announced => Silent(pipe[p])

\* The announcement of p has been read.
Heard(p) == p \in announced /\ Quiet(pipe[p])

LEMMA ReadPipe ==
  ASSUME TypeOK, PipesInOrder, NEW s \in Sources, NEW k \in Slots, NEW kinds,
         Receive(s, k, kinds)
  PROVE  LET m == Head(pipe[s, k])
             p == <<s, k>>
         IN /\ PipesInOrder'
            /\ Announces(m) => ~Heard(p) /\ Heard(p)'
            /\ m.kind = "StreamsChanged" => Heard(p) /\ Heard(p)'
            /\ ~Announces(m) => (Heard(p)' <=> Heard(p))
            /\ \A r \in Adapter : r # p => (Heard(r)' <=> Heard(r))
<1> DEFINE m == Head(pipe[s, k])
           p == <<s, k>>
<1>1. /\ p \in Adapter /\ pipe[p] \in Seq(Message) /\ pipe[p] # <<>>
      /\ m = Head(pipe[p])
      /\ pipe' = [pipe EXCEPT ![p] = Tail(pipe[p])]
      /\ announced' = announced
  BY DEF TypeOK, Adapter, Receive, adapterVars
<1>2. pipe'[p] = Tail(pipe[p]) /\ \A r \in Adapter : r # p => pipe'[r] = pipe[r]
  BY <1>1 DEF TypeOK
<1>3. Ordered(pipe[p]) /\ (p \notin announced => Silent(pipe[p]))
  BY <1>1 DEF PipesInOrder
<1> HIDE DEF m, p
<1>4. /\ Ordered(pipe'[p])
      /\ Silent(pipe[p]) => Silent(pipe'[p]) /\ ~Tells(m)
      /\ Tells(m) => Quiet(pipe'[p])
      /\ Announces(m) => ~Quiet(pipe[p])
      /\ ~Announces(m) => (Quiet(pipe'[p]) <=> Quiet(pipe[p]))
  BY <1>1, <1>2, <1>3, ReadQueue
<1>5. PipesInOrder'
  BY <1>1, <1>2, <1>3, <1>4 DEF PipesInOrder
<1>6. /\ Announces(m) => Tells(m)
      /\ m.kind = "StreamsChanged" => Tells(m) /\ ~Announces(m)
  BY DEF Announces, Tells
<1>7. /\ Announces(m) => ~Heard(p) /\ Heard(p)'
      /\ m.kind = "StreamsChanged" => Heard(p) /\ Heard(p)'
      /\ ~Announces(m) => (Heard(p)' <=> Heard(p))
  BY <1>1, <1>3, <1>4, <1>6 DEF Heard
<1>8. \A r \in Adapter : r # p => (Heard(r)' <=> Heard(r))
  BY <1>1, <1>2 DEF Heard
<1> QED
  BY <1>5, <1>7, <1>8 DEF m, p

LEMMA WritePipe ==
  ASSUME TypeOK, PipesInOrder, NEW s \in Sources, NEW k \in Slots,
         NEW m \in Alphabet, Write(s, k, m)
  PROVE  /\ PipesInOrder'
         /\ \A r \in Adapter : Heard(r)' <=> Heard(r)
<1> DEFINE p == <<s, k>>
<1>1. /\ p \in Adapter /\ pipe[p] \in Seq(Message) /\ m \in Message
      /\ pipe' = [pipe EXCEPT ![p] = Append(pipe[p], m)]
      /\ announced' = IF Announces(m) THEN announced \cup {p} ELSE announced
      /\ Announces(m) => p \notin announced
      /\ Tells(m) /\ ~Announces(m) => p \in announced
  BY SupervisorAssumption DEF TypeOK, Adapter, Write, Announces, Tells
<1>2. pipe'[p] = Append(pipe[p], m) /\ \A r \in Adapter : r # p => pipe'[r] = pipe[r]
  BY <1>1 DEF TypeOK
<1>3. Ordered(pipe[p]) /\ (p \notin announced => Silent(pipe[p]))
  BY <1>1 DEF PipesInOrder
<1> HIDE DEF p
<1>4. /\ Ordered(pipe'[p])
      /\ Silent(pipe[p]) /\ ~Tells(m) => Silent(pipe'[p])
      /\ Announces(m) => ~Quiet(pipe'[p])
      /\ ~Announces(m) => (Quiet(pipe'[p]) <=> Quiet(pipe[p]))
  BY <1>1, <1>2, <1>3, WriteQueue
<1>5. PipesInOrder'
  BY <1>1, <1>2, <1>3, <1>4 DEF PipesInOrder
<1>6. \A r \in Adapter : r # p => (Heard(r)' <=> Heard(r))
  BY <1>1, <1>2 DEF Heard
<1>7. Heard(p)' <=> Heard(p)
  BY <1>1, <1>4 DEF Heard
<1> QED
  BY <1>5, <1>6, <1>7

\* A new process starts with an empty pipe.
LEMMA RespawnPipe ==
  ASSUME TypeOK, PipesInOrder, NEW s \in Sources, NEW k \in Slots, Respawn(s, k)
  PROVE  /\ PipesInOrder'
         /\ pipe' = pipe /\ pipe[s, k] = <<>>
         /\ ~Heard(<<s, k>>)'
         /\ \A r \in Adapter : r # <<s, k>> => (Heard(r)' <=> Heard(r))
<1> DEFINE p == <<s, k>>
<1>1. /\ p \in Adapter /\ pipe' = pipe /\ pipe[p] = <<>>
      /\ announced' = announced \ {p}
  BY DEF Respawn, Free, Adapter
<1> HIDE DEF p
<1>2. Ordered(pipe'[p]) /\ Silent(pipe'[p])
  BY <1>1, EmptyQueue
<1>3. PipesInOrder'
  BY <1>1, <1>2 DEF PipesInOrder
<1>4. ~Heard(p)' /\ \A r \in Adapter : r # p => (Heard(r)' <=> Heard(r))
  BY <1>1 DEF Heard
<1> QED
  BY <1>1, <1>3, <1>4 DEF p
-----------------------------------------------------------------------------
(* What handle_msg does with each kind of line.                            *)

GetsReady(s, k) ==
  /\ ~Heard(<<s, k>>) /\ Heard(<<s, k>>)'
  /\ status'[s].state = "Running"
  /\ status'[s].caps \in SUBSET Media
  /\ statusLock' \in Reader
  /\ statusLock'.source = s /\ statusLock'.slot = k
  /\ statusLock'.caps = status'[s].caps /\ statusLock'.play = playing
  /\ UNCHANGED <<streamVars, gate>>

GetsMismatch(s, k) ==
  /\ ~Heard(<<s, k>>) /\ Heard(<<s, k>>)'
  /\ \E m \in Alphabet : m.kind = "Mismatch"
  /\ status'[s].state = "Failed"
  /\ status'[s].caps = status[s].caps
  /\ statusLock' = None
  /\ UNCHANGED <<streamVars, gate>>

KeepsState(s) ==
  status'[s].state = IF status[s].state = "Absent" THEN "Starting" ELSE status[s].state

GetsStreams(s, k) ==
  /\ Heard(<<s, k>>) /\ Heard(<<s, k>>)'
  /\ KeepsState(s)
  /\ status'[s].caps \in SUBSET Media
  /\ statusLock' = None
  /\ IF status'[s].caps = {}
     THEN /\ pending_streams'[s] = 0
          /\ streams_changed'[s] = streams_changed[s]
     ELSE /\ pending_streams'[s] = None
          /\ streams_changed'[s] = status'[s].caps
  /\ gate' = gate

GetsOther(s, k) ==
  /\ Heard(<<s, k>>)' <=> Heard(<<s, k>>)
  /\ KeepsState(s)
  /\ status'[s].caps = status[s].caps
  /\ statusLock' = None
  /\ UNCHANGED <<streamVars, gate>>

\* Only the source's own entry and events are touched.
OnlyOf(s) ==
  /\ status'[s].restart_count = status[s].restart_count
  /\ \A r \in Sources : r # s =>
       /\ status'[r] = status[r]
       /\ pending_streams'[r] = pending_streams[r]
       /\ streams_changed'[r] = streams_changed[r]

LEMMA EntryKeeps ==
  ASSUME TypeOK, NEW s \in Sources
  PROVE  /\ Entry(s) \in Status
         /\ Entry(s).caps = status[s].caps
         /\ Entry(s).restart_count = status[s].restart_count
         /\ Entry(s).state = IF status[s].state = "Absent" THEN "Starting"
                                                           ELSE status[s].state
  BY EntryType DEF Entry, TypeOK, Status

\* The lines of an instance are those of its alphabet.
FromAlphabet == \A p \in Adapter : pipe[p] \in Seq(Alphabet)

LEMMA HandleEffect ==
  ASSUME TypeOK, PipesInOrder, FromAlphabet, NEW s \in Sources, NEW k \in Slots,
         HandleMsg(s, k)
  PROVE  /\ PipesInOrder' /\ FromAlphabet'
         /\ statusLock = None /\ pipe[<<s, k>>] # <<>>
         /\ UNCHANGED <<mainVars, handleVars, requestVars, chain>>
         /\ \A r \in Adapter : r # <<s, k>> =>
              pipe'[r] = pipe[r] /\ (Heard(r)' <=> Heard(r))
         /\ OnlyOf(s)
         /\ GetsReady(s, k) \/ GetsMismatch(s, k) \/ GetsStreams(s, k) \/ GetsOther(s, k)
<1> DEFINE m == Head(pipe[s, k])
           p == <<s, k>>
<1>1. PICK kinds : /\ Receive(s, k, kinds)
                   /\ kinds \in {{"Mismatch"}, {"Ready"}, {"Reconnecting"},
                        {"StreamsChanged"}, {"Flowing", "Stalled"}, {"Error"}}
  BY DEF HandleMsg, HandleMismatch, HandleReady, HandleReconnecting,
     HandleStreamsChanged, HandleMetrics, HandleError
<1>2. /\ statusLock = None /\ pipe[p] # <<>>
      /\ p \in Adapter
      /\ pipe' = [pipe EXCEPT ![p] = Tail(pipe[p])]
      /\ UNCHANGED <<mainVars, handleVars, requestVars, chain>>
  BY <1>1 DEF Receive, Adapter
<1>3. pipe'[p] = Tail(pipe[p]) /\ \A r \in Adapter : r # p => pipe'[r] = pipe[r]
  BY <1>2 DEF TypeOK
<1>4. /\ pipe[p] \in Seq(Alphabet) /\ m = Head(pipe[p])
      /\ m \in Alphabet /\ Tail(pipe[p]) \in Seq(Alphabet)
  BY <1>2, HeadTailType DEF FromAlphabet
<1>5. FromAlphabet'
  BY <1>3, <1>4 DEF FromAlphabet
<1>6. /\ PipesInOrder'
      /\ Announces(m) => ~Heard(p) /\ Heard(p)'
      /\ m.kind = "StreamsChanged" => Heard(p) /\ Heard(p)'
      /\ ~Announces(m) => (Heard(p)' <=> Heard(p))
      /\ \A r \in Adapter : r # p => (Heard(r)' <=> Heard(r))
  BY <1>1, ReadPipe
<1>7. m.caps \in SUBSET Media
  BY <1>4, SupervisorAssumption DEF Message
<1>e. /\ Entry(s) \in Status
      /\ Entry(s).caps = status[s].caps
      /\ Entry(s).restart_count = status[s].restart_count
      /\ Entry(s).state = IF status[s].state = "Absent" THEN "Starting"
                                                        ELSE status[s].state
  BY EntryKeeps
<1>s. ASSUME NEW e, status' = [status EXCEPT ![s] = e]
      PROVE  status'[s] = e /\ \A r \in Sources : r # s => status'[r] = status[r]
  BY <1>s DEF TypeOK
<1>8. OnlyOf(s) /\ (GetsReady(s, k) \/ GetsMismatch(s, k) \/ GetsStreams(s, k) \/ GetsOther(s, k))
  <2>1. CASE HandleMismatch(s, k)
    <3> DEFINE e == [Entry(s) EXCEPT !.state = "Failed"]
    <3>1. m.kind = "Mismatch" /\ UNCHANGED <<statusLock, streamVars, gate>>
          /\ status' = [status EXCEPT ![s] = e]
      BY <2>1 DEF HandleMismatch, Receive
    <3>2. /\ e.state = "Failed" /\ e.caps = status[s].caps
          /\ e.restart_count = status[s].restart_count
      BY <1>e DEF Status
    <3> HIDE DEF e
    <3>3. status'[s] = e /\ \A r \in Sources : r # s => status'[r] = status[r]
      BY <3>1, <1>s
    <3>4. GetsMismatch(s, k)
      BY <1>2, <1>4, <1>6, <3>1, <3>2, <3>3 DEF GetsMismatch, Announces
    <3> QED
      BY <3>1, <3>2, <3>3, <3>4 DEF OnlyOf, streamVars
  <2>2. CASE HandleReady(s, k)
    <3> DEFINE e == [Entry(s) EXCEPT !.state = "Running", !.caps = m.caps,
                                     !.is_reconnecting = FALSE, !.running_since = 0]
    <3>1. /\ m.kind = "Ready" /\ UNCHANGED <<streamVars, gate>>
          /\ status' = [status EXCEPT ![s] = e]
          /\ statusLock' = [source |-> s, slot |-> k, caps |-> m.caps, play |-> playing]
      BY <2>2 DEF HandleReady, Receive
    <3>2. /\ e.state = "Running" /\ e.caps = m.caps
          /\ e.restart_count = status[s].restart_count
      BY <1>e DEF Status
    <3> HIDE DEF e
    <3>3. status'[s] = e /\ \A r \in Sources : r # s => status'[r] = status[r]
      BY <3>1, <1>s
    <3>4. statusLock' \in Reader /\ statusLock'.source = s /\ statusLock'.slot = k
          /\ statusLock'.caps = m.caps /\ statusLock'.play = playing
      <4> HIDE DEF m
      <4> QED
        BY <1>7, <3>1 DEF Reader, TypeOK
    <3>5. GetsReady(s, k)
      BY <1>2, <1>6, <1>7, <3>1, <3>2, <3>3, <3>4 DEF GetsReady, Announces
    <3> QED
      BY <3>1, <3>2, <3>3, <3>5 DEF OnlyOf, streamVars
  <2>3. CASE HandleStreamsChanged(s, k)
    <3> DEFINE e == [Entry(s) EXCEPT !.is_reconnecting = FALSE, !.caps = m.caps]
    <3>1. /\ m.kind = "StreamsChanged" /\ UNCHANGED <<statusLock, gate>>
          /\ status' = [status EXCEPT ![s] = e]
          /\ IF m.caps = {}
             THEN /\ pending_streams' = [pending_streams EXCEPT ![s] = 0]
                  /\ UNCHANGED streams_changed
             ELSE Announce(s, m.caps)
      BY <2>3 DEF HandleStreamsChanged, Receive
    <3>2. /\ e.state = Entry(s).state /\ e.caps = m.caps
          /\ e.restart_count = status[s].restart_count
      BY <1>e DEF Status
    <3> HIDE DEF e
    <3>3. status'[s] = e /\ \A r \in Sources : r # s => status'[r] = status[r]
      BY <3>1, <1>s
    <3>4. /\ IF m.caps = {}
             THEN pending_streams'[s] = 0 /\ streams_changed'[s] = streams_changed[s]
             ELSE pending_streams'[s] = None /\ streams_changed'[s] = m.caps
          /\ \A r \in Sources : r # s =>
               /\ pending_streams'[r] = pending_streams[r]
               /\ streams_changed'[r] = streams_changed[r]
      <4> HIDE DEF m
      <4> QED
        BY <3>1 DEF Announce, TypeOK
    <3>5. GetsStreams(s, k)
      BY <1>2, <1>6, <1>7, <1>e, <3>1, <3>2, <3>3, <3>4 DEF GetsStreams, KeepsState
    <3> QED
      BY <3>2, <3>3, <3>4, <3>5 DEF OnlyOf
  <2>4. ASSUME NEW e, status' = [status EXCEPT ![s] = e], e.caps = status[s].caps,
               e.restart_count = status[s].restart_count, e.state = Entry(s).state,
               ~Announces(m), UNCHANGED <<statusLock, streamVars, gate>>
        PROVE  OnlyOf(s) /\ GetsOther(s, k)
    <3>1. status'[s] = e /\ \A r \in Sources : r # s => status'[r] = status[r]
      BY <2>4, <1>s
    <3> QED
      BY <1>2, <1>6, <1>e, <2>4, <3>1 DEF OnlyOf, GetsOther, KeepsState, streamVars
  <2>5. CASE HandleReconnecting(s, k)
    <3> DEFINE e == [Entry(s) EXCEPT !.is_reconnecting = TRUE, !.last_frame = None]
    <3>1. /\ m.kind = "Reconnecting" /\ UNCHANGED <<statusLock, streamVars, gate>>
          /\ status' = [status EXCEPT ![s] = e]
      BY <2>5 DEF HandleReconnecting, Receive
    <3>2. /\ e.caps = status[s].caps /\ e.restart_count = status[s].restart_count
          /\ e.state = Entry(s).state
      BY <1>e DEF Status
    <3> HIDE DEF e
    <3> QED
      BY <3>1, <3>2, <2>4 DEF Announces
  <2>6. CASE HandleMetrics(s, k)
    <3> DEFINE flowing == m.kind = "Flowing"
               e == [Entry(s) EXCEPT !.producing = flowing,
                                     !.last_frame = IF flowing THEN 0 ELSE @,
                                     !.is_reconnecting = @ /\ ~flowing]
    <3>1. /\ m.kind \in {"Flowing", "Stalled"} /\ UNCHANGED <<statusLock, streamVars, gate>>
          /\ status' = [status EXCEPT ![s] = e]
      BY <2>6 DEF HandleMetrics, Receive
    <3>2. /\ e.caps = status[s].caps /\ e.restart_count = status[s].restart_count
          /\ e.state = Entry(s).state
      <4> HIDE DEF flowing
      <4> QED
        BY <1>e DEF Status
    <3> HIDE DEF e
    <3> QED
      BY <3>1, <3>2, <2>4 DEF Announces
  <2>7. CASE HandleError(s, k)
    <3>1. /\ m.kind = "Error" /\ UNCHANGED <<statusLock, streamVars, gate>>
          /\ status' = [status EXCEPT ![s] = Entry(s)]
      BY <2>7 DEF HandleError, Receive
    <3> QED
      BY <1>e, <3>1, <2>4 DEF Announces
  <2> QED
    BY <2>1, <2>2, <2>3, <2>5, <2>6, <2>7 DEF HandleMsg
<1> QED
  BY <1>2, <1>3, <1>5, <1>6, <1>8
-----------------------------------------------------------------------------
(* The story of one source, from its first process on.                     *)

\* A reader is between the two halves of the source's Ready.
LockedOn(s) == statusLock # None /\ statusLock.source = s

Untouched(s) == pending_streams[s] = None /\ streams_changed[s] = None

\* Nothing has come between the two halves.
LockTrue(s) ==
  LockedOn(s) =>
    /\ status[s].state = "Running"
    /\ status[s].caps = statusLock.caps
    /\ Heard(<<s, statusLock.slot>>)

RunningHasCaps(s) == status[s].state = "Running" => status[s].caps # None

StartupLive(s) == pc = "startup" /\ live[s] # None => s \in external

\* A source in its first run has one adapter that ever wrote, and its Ready,
\* which announces no topology, came before the pipeline was built.
FirstRun(s) ==
  live[s] # None /\ status[s].restart_count = 0 =>
    /\ \A k \in Slots : k # live[s] => pipe[<<s, k>>] = <<>>
    /\ LockedOn(s) => pc = "startup" /\ Untouched(s)
    /\ Heard(<<s, live[s]>>) <=> status[s].state \in {"Running", "Failed"}
    /\ ~Heard(<<s, live[s]>>) => Untouched(s)
    /\ pc # "startup" => status[s].state = "Running"

\* What was reported last is held for its grace, or queued, or in the chain.
FollowsStreams(s) ==
  live[s] # None /\ status[s].state = "Running" /\ ~LockedOn(s) =>
    /\ pending_streams[s] # None => status[s].caps = {}
    /\ pending_streams[s] = None /\ streams_changed[s] # None
         => streams_changed[s] = status[s].caps
    /\ pending_streams[s] = None /\ streams_changed[s] = None
         => pc = "startup" \/ chain[s] = status[s].caps

Story(s) ==
  /\ LockTrue(s)
  /\ RunningHasCaps(s)
  /\ StartupLive(s)
  /\ FirstRun(s)
  /\ FollowsStreams(s)

\* What Story reads of the status entry, and of the pipes.
SameEntry(s) ==
  /\ status'[s].state = status[s].state
  /\ status'[s].caps = status[s].caps
  /\ status'[s].restart_count = status[s].restart_count

SamePipes(s) ==
  /\ \A k \in Slots : Heard(<<s, k>>)' <=> Heard(<<s, k>>)
  /\ live[s] # None => \A k \in Slots :
       k # live[s] /\ pipe[<<s, k>>] = <<>> => pipe'[<<s, k>>] = <<>>

SameEvents(s) ==
  /\ pending_streams'[s] = None <=> pending_streams[s] = None
  /\ streams_changed'[s] = streams_changed[s]

\* A step that leaves the source alone.
LEMMA Untroubled ==
  ASSUME TypeOK, NEW s \in Sources, Story(s),
         live'[s] = live[s], external' = external, chain'[s] = chain[s],
         pc' = "startup" <=> pc = "startup",
         SameEntry(s), SamePipes(s), SameEvents(s),
         LockedOn(s)' <=> LockedOn(s),
         LockedOn(s) => statusLock' = statusLock
  PROVE  Story(s)'
<1>0. LockedOn(s) => statusLock.slot \in Slots
  BY DEF TypeOK, Reader, LockedOn
<1>l. live[s] \in Slots \cup {None}
  BY DEF TypeOK
<1>1. LockTrue(s)'
  BY <1>0 DEF Story, LockTrue, SameEntry, SamePipes
<1>2. RunningHasCaps(s)' /\ StartupLive(s)'
  BY DEF Story, RunningHasCaps, StartupLive, SameEntry
<1>3. FirstRun(s)'
  BY <1>l DEF Story, FirstRun, SameEntry, SamePipes, SameEvents, Untouched
<1>4. FollowsStreams(s)'
  BY DEF Story, FollowsStreams, SameEntry, SameEvents
<1> QED
  BY <1>1, <1>2, <1>3, <1>4 DEF Story

LEMMA StillPipes ==
  ASSUME UNCHANGED <<pipe, announced>>, NEW s \in Sources
  PROVE  SamePipes(s)
  BY DEF SamePipes, Heard

LEMMA StoryInit == Init => \A s \in Sources : Story(s)
<1> SUFFICES ASSUME Init, NEW s \in Sources PROVE Story(s)
  OBVIOUS
<1>1. /\ pc = "startup" /\ statusLock = None /\ announced = {}
      /\ pipe = [p \in Adapter |-> <<>>]
      /\ pending_streams[s] = None /\ streams_changed[s] = None
      /\ status[s].state \in {"Starting", "Absent"}
  BY DEF Init, NewStatus
<1>2. live[s] # None => s \in external
  BY DEF Init
<1> QED
  BY <1>1, <1>2 DEF Story, LockTrue, LockedOn, RunningHasCaps, StartupLive, FirstRun,
     FollowsStreams, Untouched, Heard, Adapter

\* handle_msg: the source it is for.
LEMMA StoryHandled ==
  ASSUME TypeOK, PipesInOrder, FromAlphabet, NEW s \in Sources, NEW k \in Slots,
         HandleMsg(s, k), Story(s)
  PROVE  Story(s)'
<1> DEFINE p == <<s, k>>
<1>1. /\ statusLock = None /\ pipe[p] # <<>>
      /\ UNCHANGED <<pc, live, external, chain>>
      /\ \A r \in Adapter : r # p => pipe'[r] = pipe[r] /\ (Heard(r)' <=> Heard(r))
      /\ OnlyOf(s)
      /\ GetsReady(s, k) \/ GetsMismatch(s, k) \/ GetsStreams(s, k) \/ GetsOther(s, k)
  BY HandleEffect DEF mainVars, handleVars, requestVars
<1>2. ~LockedOn(s)
  BY <1>1 DEF LockedOn
<1>3. live[s] \in Slots \cup {None} /\ <<s, k>> \in Adapter
      /\ \A j \in Slots : <<s, j>> \in Adapter /\ (<<s, j>> = <<s, k>> => j = k)
  BY DEF TypeOK, Adapter
<1>4. StartupLive(s)'
  BY <1>1 DEF Story, StartupLive
<1>5. ASSUME live'[s] # None, status'[s].restart_count = 0
      PROVE  /\ live[s] # None /\ status[s].restart_count = 0
             /\ live[s] = k /\ live'[s] = k
             /\ \A j \in Slots : j # k => pipe'[<<s, j>>] = <<>>
             /\ Heard(p) <=> status[s].state \in {"Running", "Failed"}
             /\ ~Heard(p) => Untouched(s)
             /\ pc # "startup" => status[s].state = "Running"
  BY <1>1, <1>3, <1>5 DEF Story, FirstRun, OnlyOf
<1>6. CASE GetsReady(s, k)
  <2>1. LockedOn(s)' /\ statusLock'.slot = k
    BY <1>6, SupervisorAssumption DEF GetsReady, LockedOn, Reader
  <2>2. LockTrue(s)' /\ RunningHasCaps(s)' /\ FollowsStreams(s)'
    BY <1>6, <2>1, SupervisorAssumption DEF GetsReady, LockTrue, RunningHasCaps, FollowsStreams
  <2>3. FirstRun(s)'
    <3> SUFFICES ASSUME live'[s] # None, status'[s].restart_count = 0
                 PROVE  /\ \A j \in Slots : j # live'[s] => pipe'[<<s, j>>] = <<>>
                        /\ pc' = "startup" /\ Untouched(s)'
                        /\ Heard(<<s, live[s]>>)'
                        /\ status'[s].state = "Running"
      BY DEF FirstRun
    <3> QED
      BY <1>1, <1>5, <1>6 DEF GetsReady, Untouched, streamVars
  <2> QED
    BY <1>4, <2>2, <2>3 DEF Story
<1>7. CASE GetsMismatch(s, k)
  <2>1. ~LockedOn(s)'
    BY <1>7 DEF GetsMismatch, LockedOn
  <2>2. LockTrue(s)' /\ RunningHasCaps(s)' /\ FollowsStreams(s)'
    BY <1>7, <2>1 DEF GetsMismatch, LockTrue, RunningHasCaps, FollowsStreams
  <2>3. FirstRun(s)'
    <3> SUFFICES ASSUME live'[s] # None, status'[s].restart_count = 0
                 PROVE  /\ \A j \in Slots : j # live'[s] => pipe'[<<s, j>>] = <<>>
                        /\ pc' = "startup"
                        /\ Heard(<<s, live[s]>>)'
                        /\ status'[s].state = "Failed"
      BY <2>1 DEF FirstRun
    <3> QED
      BY <1>1, <1>5, <1>7 DEF GetsMismatch
  <2> QED
    BY <1>4, <2>2, <2>3 DEF Story
<1>8. CASE GetsStreams(s, k)
  <2>1. ~LockedOn(s)'
    BY <1>8 DEF GetsStreams, LockedOn
  <2>2. LockTrue(s)' /\ RunningHasCaps(s)'
    BY <1>8, <2>1, SupervisorAssumption DEF GetsStreams, LockTrue, RunningHasCaps
  <2>3. FollowsStreams(s)'
    BY <1>8, SupervisorAssumption DEF GetsStreams, FollowsStreams
  <2>4. FirstRun(s)'
    <3> SUFFICES ASSUME live'[s] # None, status'[s].restart_count = 0
                 PROVE  /\ \A j \in Slots : j # live'[s] => pipe'[<<s, j>>] = <<>>
                        /\ Heard(<<s, live[s]>>)'
                        /\ status'[s].state \in {"Running", "Failed"}
                        /\ pc' # "startup" => status'[s].state = "Running"
      BY <2>1 DEF FirstRun
    <3> QED
      BY <1>1, <1>5, <1>8 DEF GetsStreams, KeepsState
  <2> QED
    BY <1>4, <2>2, <2>3, <2>4 DEF Story
<1>9. CASE GetsOther(s, k)
  <2>1. ~LockedOn(s)' /\ SameEvents(s) /\ (Untouched(s)' <=> Untouched(s))
    BY <1>9 DEF GetsOther, LockedOn, SameEvents, Untouched, streamVars
  <2>2. LockTrue(s)' /\ RunningHasCaps(s)'
    BY <1>9, <2>1 DEF GetsOther, KeepsState, LockTrue, Story, RunningHasCaps
  <2>3. FollowsStreams(s)'
    BY <1>1, <1>2, <1>9, <2>1 DEF GetsOther, KeepsState, Story, FollowsStreams, SameEvents
  <2>4. FirstRun(s)'
    <3> SUFFICES ASSUME live'[s] # None, status'[s].restart_count = 0
                 PROVE  /\ \A j \in Slots : j # live'[s] => pipe'[<<s, j>>] = <<>>
                        /\ Heard(<<s, live[s]>>)' <=> status'[s].state \in {"Running", "Failed"}
                        /\ ~Heard(<<s, live[s]>>)' => Untouched(s)'
                        /\ pc' # "startup" => status'[s].state = "Running"
      BY <1>1, <2>1 DEF FirstRun
    <3> QED
      BY <1>1, <1>5, <1>9, <2>1 DEF GetsOther, KeepsState
  <2> QED
    BY <1>4, <2>2, <2>3, <2>4 DEF Story
<1> QED
  BY <1>1, <1>6, <1>7, <1>8, <1>9
\* A step that touches neither pipes nor lock and leaves a source alone.
LEMMA Aside ==
  ASSUME TypeOK, NEW s \in Sources, Story(s),
         live'[s] = live[s], chain'[s] = chain[s],
         pc' = "startup" <=> pc = "startup",
         SameEntry(s), SameEvents(s),
         UNCHANGED <<external, statusLock, pipe, announced>>
  PROVE  Story(s)'
<1>1. LockedOn(s)' <=> LockedOn(s)
  BY DEF LockedOn
<1> QED
  BY <1>1, Untroubled, StillPipes

LEMMA AgedKeepsNone ==
  ASSUME NEW t \in Age, NEW limit \in Nat
  PROVE  Aged(t, limit) = None <=> t = None
  BY SupervisorAssumption DEF Aged, Age

\* The pipeline is built when every adapter has said what it is.
LEMMA StoryLaunched ==
  ASSUME TypeOK, ~StartupMayTimeOut, NEW s \in Sources, Story(s), Launch
  PROVE  Story(s)'
<1>1. /\ pc = "startup" /\ pc' = "play" /\ statusLock = None /\ statusLock' = None
      /\ \A r \in external : status[r].state = "Running"
      /\ chain'[s] = IF s \in external /\ status[s].caps # None
                     THEN status[s].caps ELSE {}
      /\ UNCHANGED <<live, external, status, pending_streams, streams_changed,
                     pipe, announced>>
  BY DEF Launch, handleVars, requestVars, streamVars, adapterVars
<1>2. live[s] # None => status[s].state = "Running" /\ chain'[s] = status[s].caps
  BY <1>1 DEF Story, StartupLive, RunningHasCaps
<1>3. LockTrue(s)' /\ RunningHasCaps(s)' /\ StartupLive(s)'
  BY <1>1 DEF Story, LockTrue, LockedOn, RunningHasCaps, StartupLive
<1>4. FirstRun(s)'
  BY <1>1, <1>2 DEF Story, FirstRun, LockedOn, Heard, Untouched
<1>5. FollowsStreams(s)'
  BY <1>1, <1>2 DEF Story, FollowsStreams, LockedOn
<1> QED
  BY <1>3, <1>4, <1>5 DEF Story

LEMMA StoryReaped ==
  ASSUME TypeOK, NEW s \in Sources, Story(s), PollReap
  PROVE  Story(s)'
<1>1. /\ pc = "idle" /\ pc' = "watch"
      /\ UNCHANGED <<external, statusLock, pending_streams, streams_changed, chain,
                     pipe, announced>>
      /\ status[s] \in Status
  BY DEF PollReap, streamVars, TypeOK
<1>2. CASE Reapable(s)
  <2>1. live'[s] = None /\ statusLock = None
    BY <1>2 DEF PollReap
  <2>2. status'[s].state # "Running"
    BY <1>1, <1>2, AtRestType DEF PollReap, Status, State
  <2> QED
    BY <1>1, <2>1, <2>2 DEF Story, LockTrue, LockedOn, RunningHasCaps, StartupLive, FirstRun,
       FollowsStreams
<1>3. CASE ~Reapable(s)
  <2>1. live'[s] = live[s] /\ status'[s] = status[s]
    BY <1>3 DEF PollReap
  <2> QED
    BY <1>1, <2>1, Aside DEF SameEntry, SameEvents
<1> QED
  BY <1>2, <1>3

\* A drop whose grace is over was the last word of its source.
LEMMA StoryPromoted ==
  ASSUME TypeOK, NEW s \in Sources, Story(s), PollPromote
  PROVE  Story(s)'
<1>1. /\ pc = "promote" /\ pc' = "fire"
      /\ UNCHANGED <<live, external, status, statusLock, chain, pipe, announced>>
  BY DEF PollPromote, handleVars, requestVars, adapterVars
<1>2. CASE pending_streams[s] # None /\ pending_streams[s] >= StreamsGrace
  <2>1. streams_changed'[s] = {} /\ pending_streams'[s] = None
    BY <1>2 DEF PollPromote
  <2>2. LockTrue(s)' /\ RunningHasCaps(s)' /\ StartupLive(s)'
    BY <1>1 DEF Story, LockTrue, LockedOn, Heard, RunningHasCaps, StartupLive
  <2>3. FirstRun(s)'
    BY <1>1, <1>2 DEF Story, FirstRun, Untouched, LockedOn, Heard
  <2>4. FollowsStreams(s)'
    BY <1>1, <1>2, <2>1, SupervisorAssumption DEF Story, FollowsStreams, LockedOn
  <2> QED
    BY <2>2, <2>3, <2>4 DEF Story
<1>3. CASE ~(pending_streams[s] # None /\ pending_streams[s] >= StreamsGrace)
  <2>1. streams_changed'[s] = streams_changed[s] /\ pending_streams'[s] = pending_streams[s]
    BY <1>3 DEF PollPromote
  <2> QED
    BY <1>1, <2>1, Aside DEF SameEntry, SameEvents
<1> QED
  BY <1>2, <1>3

LEMMA StoryRespawned ==
  ASSUME TypeOK, Bookkeeping, PipesInOrder, NEW s \in Sources, Story(s),
         NEW r \in Sources, NEW k \in Slots, Respawn(r, k)
  PROVE  Story(s)'
<1>1. /\ pc = "fire" /\ pc' = "spawn"
      /\ UNCHANGED <<live, external, status, statusLock, pending_streams,
                     streams_changed, chain, pipe>>
      /\ statusLock # None => statusLock.source # r \/ statusLock.slot # k
      /\ pending[r] = 0
  BY DEF Respawn, Free, handleVars, streamVars, Bookkeeping
<1>2. /\ ~Heard(<<r, k>>)'
      /\ \A p \in Adapter : p # <<r, k>> => (Heard(p)' <=> Heard(p))
  BY RespawnPipe
<1>3. live[r] = None
  BY <1>1, SupervisorAssumption DEF Bookkeeping
<1>4. \A j \in Slots : <<s, j>> \in Adapter /\ (<<s, j>> = <<r, k>> => s = r /\ j = k)
  BY DEF Adapter
<1>5. CASE s = r
  <2>0. LockedOn(s) => statusLock.slot \in Slots
    BY DEF TypeOK, Reader, LockedOn
  <2>1. LockTrue(s)'
    BY <1>1, <1>2, <1>4, <1>5, <2>0 DEF Story, LockTrue, LockedOn
  <2> QED
    BY <1>1, <1>3, <1>5, <2>1 DEF Story, RunningHasCaps, StartupLive, FirstRun, FollowsStreams
<1>6. CASE s # r
  <2>1. SamePipes(s)
    BY <1>1, <1>2, <1>4, <1>6 DEF SamePipes
  <2>2. LockedOn(s)' <=> LockedOn(s)
    BY <1>1 DEF LockedOn
  <2> QED
    BY <1>1, <2>1, <2>2, Untroubled DEF SameEntry, SameEvents
<1> QED
  BY <1>5, <1>6

LEMMA StorySpawned ==
  ASSUME TypeOK, Bookkeeping, NEW s \in Sources, Story(s), FinishSpawn
  PROVE  Story(s)'
<1>1. PICK r \in Sources, k \in Slots : spawning = <<r, k>>
  BY DEF TypeOK, Bookkeeping, FinishSpawn, Adapter
<1>2. /\ pc = "spawn" /\ pc' = "fire" /\ statusLock = None
      /\ UNCHANGED <<external, statusLock, streams_changed, chain, pipe, announced>>
      /\ live' = [live EXCEPT ![r] = k]
      /\ status' = [status EXCEPT ![r] = Respawned(status[r])]
      /\ pending_streams' = [pending_streams EXCEPT ![r] = None]
  BY <1>1 DEF FinishSpawn, requestVars, adapterVars
<1>3. CASE s = r
  <2>1. /\ status[s] \in Status /\ status[s].restart_count \in Nat
        /\ status'[s] = Respawned(status[s])
    BY <1>2, <1>3 DEF TypeOK, Status
  <2>2. OneMoreRestart(status[s].restart_count) # 0
    BY <2>1, SupervisorAssumption DEF OneMoreRestart
  <2>3. status'[s].state = "Starting" /\ status'[s].restart_count # 0
    BY <2>1, <2>2 DEF Respawned, Status
  <2> QED
    BY <1>2, <2>3 DEF Story, LockTrue, LockedOn, RunningHasCaps, StartupLive, FirstRun,
       FollowsStreams
<1>4. CASE s # r
  <2>1. /\ live'[s] = live[s] /\ status'[s] = status[s]
        /\ pending_streams'[s] = pending_streams[s]
    BY <1>2, <1>4 DEF TypeOK
  <2> QED
    BY <1>2, <2>1, Aside DEF SameEntry, SameEvents
<1> QED
  BY <1>3, <1>4

LEMMA StoryDrained ==
  ASSUME TypeOK, NEW s \in Sources, Story(s), PollDrain
  PROVE  Story(s)'
<1>1. /\ pc = "fire" /\ pc' = "idle" /\ statusLock = None /\ statusLock' = None
      /\ UNCHANGED <<live, external, pending_streams, pipe, announced>>
      /\ chain'[s] = IF streams_changed[s] = None THEN chain[s] ELSE streams_changed[s]
      /\ streams_changed'[s] = None
      /\ status[s] \in Status
  BY DEF PollDrain, Rebuilt, handleVars, requestVars, adapterVars, TypeOK
<1>2. SameEntry(s)
  BY <1>1 DEF PollDrain, Updated, SameEntry, Status
<1>3. LockTrue(s)' /\ RunningHasCaps(s)' /\ StartupLive(s)'
  BY <1>1, <1>2 DEF Story, LockTrue, LockedOn, RunningHasCaps, StartupLive, SameEntry
<1>4. FirstRun(s)'
  BY <1>1, <1>2 DEF Story, FirstRun, Untouched, LockedOn, Heard, SameEntry
<1>5. FollowsStreams(s)'
  BY <1>1, <1>2 DEF Story, FollowsStreams, LockedOn, SameEntry
<1> QED
  BY <1>3, <1>4, <1>5 DEF Story

\* The second half of Ready: after a restart the topology is announced again,
\* in the first run the pipeline is still to be built from it.
LEMMA StoryReadied ==
  ASSUME TypeOK, NEW s \in Sources, Story(s), FinishReady
  PROVE  Story(s)'
<1>1. /\ statusLock # None /\ statusLock' = None
      /\ UNCHANGED <<pc, live, external, status, chain, pipe, announced>>
  BY DEF FinishReady, mainVars, handleVars, requestVars
<1>2. CASE LockedOn(s)
  <2>1. s = statusLock.source /\ statusLock.caps \in SUBSET Media
        /\ status[s].restart_count \in Nat
    BY <1>2 DEF TypeOK, LockedOn, Reader, Status
  <2>2. LockTrue(s)' /\ RunningHasCaps(s)' /\ StartupLive(s)'
    BY <1>1 DEF Story, LockTrue, LockedOn, RunningHasCaps, StartupLive
  <2>3. CASE status[s].restart_count > 0
    <3>1. streams_changed'[s] = statusLock.caps /\ pending_streams'[s] = None
      BY <2>1, <2>3 DEF FinishReady, Announce, TypeOK
    <3>2. FollowsStreams(s)'
      BY <1>1, <1>2, <2>1, <3>1, SupervisorAssumption DEF Story, LockTrue, FollowsStreams
    <3>3. FirstRun(s)'
      BY <1>1, <2>3 DEF FirstRun
    <3> QED
      BY <2>2, <3>2, <3>3 DEF Story
  <2>4. CASE status[s].restart_count = 0
    <3>1. streams_changed' = streams_changed /\ pending_streams' = pending_streams
      BY <2>1, <2>4 DEF FinishReady, streamVars
    <3>2. FollowsStreams(s)'
      BY <1>1, <1>2, <2>4, <3>1 DEF Story, FirstRun, Untouched, FollowsStreams
    <3>3. FirstRun(s)'
      BY <1>1, <2>4, <3>1 DEF Story, FirstRun, Untouched, Heard, LockedOn
    <3> QED
      BY <2>2, <3>2, <3>3 DEF Story
  <2> QED
    BY <2>1, <2>3, <2>4
<1>3. CASE ~LockedOn(s)
  <2>1. ~LockedOn(s)' /\ s # statusLock.source /\ statusLock.source \in Sources
    BY <1>1, <1>3 DEF LockedOn, TypeOK, Reader
  <2>2. SameEvents(s)
    BY <2>1 DEF FinishReady, Announce, SameEvents, streamVars, TypeOK
  <2> QED
    BY <1>1, <1>3, <2>1, <2>2, Untroubled, StillPipes DEF SameEntry
<1> QED
  BY <1>2, <1>3

LEMMA StoryWritten ==
  ASSUME TypeOK, Bookkeeping, NoOrphan, PipesInOrder, NEW s \in Sources, Story(s),
         NEW r \in Sources, NEW k \in Slots, NEW m \in Alphabet, Write(r, k, m)
  PROVE  Story(s)'
<1>1. /\ UNCHANGED <<pc, live, external, status, statusLock, pending_streams,
                     streams_changed, chain>>
      /\ <<r, k>> \in alive
      /\ pipe' = [pipe EXCEPT ![<<r, k>>] = Append(@, m)]
  BY DEF Write, mainVars, handleVars, requestVars, streamVars
<1>2. live[r] # None => live[r] = k
  BY <1>1, SupervisorAssumption DEF NoOrphan, Bookkeeping
<1>3. \A j \in Slots : <<s, j>> \in Adapter /\ (<<s, j>> = <<r, k>> => s = r /\ j = k)
  BY DEF Adapter
<1>4. \A j \in Slots : <<s, j>> # <<r, k>> => pipe'[<<s, j>>] = pipe[<<s, j>>]
  BY <1>1, <1>3 DEF TypeOK
<1>5. \A j \in Slots : Heard(<<s, j>>)' <=> Heard(<<s, j>>)
  BY <1>3, WritePipe
<1>6. SamePipes(s)
  BY <1>2, <1>3, <1>4, <1>5 DEF SamePipes
<1>7. LockedOn(s)' <=> LockedOn(s)
  BY <1>1 DEF LockedOn
<1> QED
  BY <1>1, <1>6, <1>7, Untroubled DEF SameEntry, SameEvents
LEMMA StoryStep ==
  ASSUME IInv, PipesInOrder, FromAlphabet, ~StartupMayTimeOut, Next,
         NEW s \in Sources, Story(s)
  PROVE  Story(s)'
<1> USE DEF mainVars, handleVars, requestVars, streamVars, adapterVars
<1>t. TypeOK /\ Bookkeeping /\ NoOrphan /\ status[s] \in Status
  BY DEF IInv, TypeOK
<1>0. ASSUME UNCHANGED <<status, live, streamVars>>
      PROVE  SameEntry(s) /\ SameEvents(s)
  BY <1>0 DEF SameEntry, SameEvents
<1>1. CASE Launch
  BY <1>1, <1>t, StoryLaunched
<1>2. CASE StartPlay \/ Broadcast \/ PollUnwatched \/ TogglePlay \/ Terminated
  BY <1>0, <1>2, <1>t, Aside DEF StartPlay, Broadcast, PollUnwatched, TogglePlay, Terminated, vars
<1>3. CASE PollReap
  BY <1>3, <1>t, StoryReaped
<1>4. CASE PollWatch
  <2>1. SameEntry(s)
    BY <1>4, <1>t DEF PollWatch, SameEntry, Status
  <2> QED
    BY <1>4, <1>t, <2>1, Aside DEF PollWatch, SameEvents
<1>5. CASE PollPromote
  BY <1>5, <1>t, StoryPromoted
<1>6. ASSUME NEW r \in Sources, NEW k \in Slots, Respawn(r, k)
      PROVE  Story(s)'
  BY <1>6, <1>t, StoryRespawned
<1>7. ASSUME NEW r \in Sources, RespawnFails(r)
      PROVE  Story(s)'
  BY <1>0, <1>7, <1>t, Aside DEF RespawnFails
<1>8. CASE FinishSpawn
  BY <1>8, <1>t, StorySpawned
<1>9. CASE PollDrain
  BY <1>9, <1>t, StoryDrained
<1>10. ASSUME NEW r \in Sources, Reboot(r) \/ Kill(r)
       PROVE  Story(s)'
  <2>1. /\ pc = "idle" /\ pc' = "idle"
        /\ UNCHANGED <<live, external, statusLock, pending_streams, streams_changed,
                       chain, pipe, announced>>
    BY <1>10 DEF Reboot, Kill
  <2>2. \/ SameEntry(s)
        \/ /\ s = r /\ live[s] = None /\ statusLock = None
           /\ status'[s].state # "Running"
    <3>1. CASE RebootFromRest(r) \/ KillDead(r)
      <4>1. CASE s = r
        <5>1. \/ status'[s] = status[s]
              \/ status'[s] = AtRest(status[s], "Restarting")
              \/ status'[s] = AtRest(status[s], "Stopped")
          BY <3>1, <4>1, <1>t DEF RebootFromRest, KillDead, TypeOK
        <5>2. live[s] = None /\ statusLock = None
          BY <3>1, <4>1 DEF RebootFromRest, KillDead
        <5> QED
          BY <4>1, <5>1, <5>2, <1>t, AtRestType DEF SameEntry, State
      <4>2. CASE s # r
        BY <3>1, <4>2, <1>t DEF RebootFromRest, KillDead, SameEntry, TypeOK
      <4> QED
        BY <4>1, <4>2
    <3>2. CASE ~(RebootFromRest(r) \/ KillDead(r))
      BY <1>10, <3>2 DEF Reboot, Kill, RebootLive, RebootNothing, KillLive, SameEntry
    <3> QED
      BY <3>1, <3>2
  <2>3. CASE SameEntry(s)
    BY <1>t, <2>1, <2>3, Aside DEF SameEvents
  <2>4. CASE live[s] = None /\ statusLock = None /\ status'[s].state # "Running"
    BY <2>1, <2>4 DEF Story, LockTrue, LockedOn, RunningHasCaps, StartupLive, FirstRun,
       FollowsStreams
  <2> QED
    BY <2>2, <2>3, <2>4
<1>11. CASE Quit
  <2>1. /\ live'[s] = None /\ pc' = "down"
        /\ UNCHANGED <<external, status, statusLock, pipe, announced>>
    BY <1>11 DEF Quit
  <2> QED
    BY <2>1 DEF Story, LockTrue, LockedOn, Heard, RunningHasCaps, StartupLive, FirstRun,
       FollowsStreams
<1>12. ASSUME NEW r \in Sources, NEW k \in Slots, HandleMsg(r, k)
       PROVE  Story(s)'
  <2>1. CASE s = r
    BY <1>12, <1>t, <2>1, StoryHandled
  <2>2. CASE s # r
    <3>1. /\ statusLock = None
          /\ UNCHANGED <<pc, live, external, chain>>
          /\ \A p \in Adapter : p # <<r, k>> =>
               pipe'[p] = pipe[p] /\ (Heard(p)' <=> Heard(p))
          /\ OnlyOf(r)
          /\ statusLock' # None => statusLock'.source = r
      <4>1. GetsReady(r, k) \/ GetsMismatch(r, k) \/ GetsStreams(r, k) \/ GetsOther(r, k)
        BY <1>12, <1>t, HandleEffect
      <4>2. statusLock' # None => statusLock'.source = r
        BY <4>1 DEF GetsReady, GetsMismatch, GetsStreams, GetsOther
      <4> QED
        BY <1>12, <1>t, <4>2, HandleEffect
    <3>2. \A j \in Slots : <<s, j>> \in Adapter /\ <<s, j>> # <<r, k>>
      BY <2>2 DEF Adapter
    <3>3. SamePipes(s)
      BY <3>1, <3>2 DEF SamePipes
    <3>4. SameEntry(s) /\ SameEvents(s)
      BY <2>2, <3>1 DEF OnlyOf, SameEntry, SameEvents
    <3>5. ~LockedOn(s)' /\ ~LockedOn(s)
      BY <2>2, <3>1 DEF LockedOn
    <3> QED
      BY <1>t, <3>1, <3>3, <3>4, <3>5, Untroubled
  <2> QED
    BY <2>1, <2>2
<1>13. CASE FinishReady
  BY <1>13, <1>t, StoryReadied
<1>14. ASSUME NEW r \in Sources, NEW k \in Slots, NEW m \in Alphabet, Write(r, k, m)
       PROVE  Story(s)'
  BY <1>14, <1>t, StoryWritten
<1>15. ASSUME NEW r \in Sources, NEW k \in Slots, Exit(r, k)
       PROVE  Story(s)'
  BY <1>0, <1>15, <1>t, Aside DEF Exit
<1>16. CASE Tick
  <2>1. SameEntry(s)
    BY <1>16, <1>t DEF Tick, SameEntry, Status
  <2>2. SameEvents(s)
    BY <1>16, <1>t, AgedKeepsNone, ConstantTypes DEF Tick, SameEvents, TypeOK
  <2> QED
    BY <1>16, <1>t, <2>1, <2>2, Aside DEF Tick
<1> QED
  BY <1>1, <1>2, <1>3, <1>4, <1>5, <1>6, <1>7, <1>8, <1>9, <1>10, <1>11, <1>12,
     <1>13, <1>14, <1>15, <1>16 DEF Next, Main, Poll, Operator

-----------------------------------------------------------------------------
LEMMA PipesInit == Init => PipesInOrder /\ FromAlphabet
  BY EmptyQueue DEF Init, PipesInOrder, FromAlphabet

LEMMA PipesStep ==
  ASSUME TypeOK, PipesInOrder, FromAlphabet, Next
  PROVE  PipesInOrder' /\ FromAlphabet'
<1> USE DEF mainVars, handleVars, requestVars, streamVars, adapterVars
<1>1. ASSUME UNCHANGED <<pipe, announced>>
      PROVE  PipesInOrder' /\ FromAlphabet'
  BY <1>1 DEF PipesInOrder, FromAlphabet
<1>2. ASSUME NEW s \in Sources, NEW k \in Slots, HandleMsg(s, k)
      PROVE  PipesInOrder' /\ FromAlphabet'
  BY <1>2, HandleEffect
<1>3. ASSUME NEW s \in Sources, NEW k \in Slots, NEW m \in Alphabet, Write(s, k, m)
      PROVE  PipesInOrder' /\ FromAlphabet'
  <2>1. FromAlphabet'
    <3>1. /\ <<s, k>> \in Adapter
          /\ pipe' = [pipe EXCEPT ![<<s, k>>] = Append(pipe[<<s, k>>], m)]
      BY <1>3 DEF Write, Adapter
    <3>2. Append(pipe[<<s, k>>], m) \in Seq(Alphabet)
      BY <3>1, AppendType DEF FromAlphabet
    <3> QED
      BY <3>1, <3>2 DEF FromAlphabet, TypeOK
  <2> QED
    BY <1>3, <2>1, WritePipe
<1>4. ASSUME NEW s \in Sources, NEW k \in Slots, Respawn(s, k)
      PROVE  PipesInOrder' /\ FromAlphabet'
  BY <1>4, RespawnPipe DEF FromAlphabet
<1>5. CASE Launch \/ StartPlay \/ Broadcast \/ PollReap \/ PollWatch \/ PollUnwatched
           \/ PollPromote \/ FinishSpawn \/ PollDrain \/ TogglePlay \/ Quit
           \/ FinishReady \/ Tick \/ Terminated
  BY <1>1, <1>5 DEF Launch, StartPlay, Broadcast, PollReap, PollWatch, PollUnwatched,
     PollPromote, FinishSpawn, PollDrain, TogglePlay, Quit, FinishReady, Tick, Terminated, vars
<1>6. ASSUME NEW s \in Sources, Reboot(s) \/ Kill(s) \/ RespawnFails(s)
      PROVE  PipesInOrder' /\ FromAlphabet'
  BY <1>1, <1>6 DEF Reboot, Kill, RespawnFails
<1>7. ASSUME NEW s \in Sources, NEW k \in Slots, Exit(s, k)
      PROVE  PipesInOrder' /\ FromAlphabet'
  BY <1>1, <1>7 DEF Exit
<1> QED
  BY <1>2, <1>3, <1>4, <1>5, <1>6, <1>7 DEF Next, Main, Poll, Operator

\* An adapter announces itself before it tells of its streams, in every pipe.
THEOREM PipesOrdered == Spec => [](PipesInOrder /\ FromAlphabet)
<1>1. TypeOK /\ PipesInOrder /\ FromAlphabet /\ [Next]_vars => (PipesInOrder /\ FromAlphabet)'
  <2>1. CASE UNCHANGED vars
    BY <2>1 DEF vars, adapterVars, PipesInOrder, FromAlphabet
  <2> QED
    BY <2>1, PipesStep
<1> QED
  BY <1>1, PipesInit, TypeCorrect, PTL DEF Spec

\* Once the events are drained, the chain of a running source carries what its
\* adapter reported last, if the start-up wait did not time out.
THEOREM ChainFollowsAdapterHolds ==
  ASSUME ~StartupMayTimeOut
  PROVE  Spec => []ChainFollowsAdapter
<1> DEFINE Stories == \A s \in Sources : Story(s)
<1>1. Init => Stories
  BY StoryInit
<1>2. IInv /\ PipesInOrder /\ FromAlphabet /\ Stories /\ [Next]_vars => Stories'
  <2>1. CASE UNCHANGED vars
    BY <2>1 DEF vars, mainVars, handleVars, requestVars, streamVars, adapterVars,
       Story, LockTrue, LockedOn, Heard, RunningHasCaps, StartupLive, FirstRun,
       Untouched, FollowsStreams
  <2>2. ASSUME IInv, PipesInOrder, FromAlphabet, Stories, Next, NEW s \in Sources
        PROVE  Story(s)'
    BY <2>2, StoryStep
  <2> QED
    BY <2>1, <2>2
<1>3. Stories => ChainFollowsAdapter
  BY DEF Story, FollowsStreams, LockedOn, ChainFollowsAdapter
<1> HIDE DEF Stories
<1> QED
  BY <1>1, <1>2, <1>3, Invariance, PipesOrdered, PTL DEF Spec
-----------------------------------------------------------------------------
(* Play.  Whoever comes second, the broadcast or the Ready, sees what the  *)
(* first has left behind.                                                  *)

\* The reader of the process is about to write Play to it.
AboutToPlay(s, k) == LockedOn(s) /\ statusLock.slot = k /\ statusLock.play

Held(s, k) == live[s] = k \/ spawning = <<s, k>>

PlayKept(s, k) ==
  /\ Held(s, k) /\ Heard(<<s, k>>)
  /\ playing /\ pc \notin {"play", "broadcast"}
  => gate[<<s, k>>] = "Play" \/ AboutToPlay(s, k)

LEMMA PlayUntroubled ==
  ASSUME NEW s \in Sources, NEW k \in Slots, PlayKept(s, k),
         Held(s, k)' => Held(s, k),
         Heard(<<s, k>>)' => Heard(<<s, k>>),
         playing' = playing,
         pc \in {"play", "broadcast"} => pc' \in {"play", "broadcast"},
         gate'[<<s, k>>] = gate[<<s, k>>],
         statusLock' = statusLock
  PROVE  PlayKept(s, k)'
  BY DEF PlayKept, AboutToPlay, LockedOn

LEMMA PlayStep ==
  ASSUME IInv, PipesInOrder, FromAlphabet,
         \A m \in Alphabet : m.kind # "Mismatch",
         Next, NEW s \in Sources, NEW k \in Slots, PlayKept(s, k)
  PROVE  PlayKept(s, k)'
<1> USE DEF mainVars, handleVars, requestVars, streamVars, adapterVars
<1>t. /\ TypeOK /\ Bookkeeping
      /\ <<s, k>> \in Adapter /\ k # None
  BY SupervisorAssumption DEF IInv, Adapter
<1>0. ASSUME UNCHANGED <<pipe, announced, gate>>
      PROVE  (Heard(<<s, k>>)' <=> Heard(<<s, k>>)) /\ gate'[<<s, k>>] = gate[<<s, k>>]
  BY <1>0 DEF Heard
<1>1. CASE Launch \/ StartPlay \/ TogglePlay
  BY <1>1 DEF Launch, StartPlay, TogglePlay, PlayKept
<1>2. CASE Broadcast
  <2>1. spawning' = None /\ live' = live /\ playing' = playing
    BY <1>2, <1>t DEF Broadcast, Bookkeeping
  <2>2. live[s] = k /\ playing => gate'[<<s, k>>] = "Play"
    BY <1>2, <1>t DEF Broadcast
  <2>3. spawning' # <<s, k>>
    BY <1>t, <2>1, SupervisorAssumption DEF Adapter
  <2> QED
    BY <2>1, <2>2, <2>3 DEF PlayKept, Held
<1>3. CASE PollReap \/ Quit
  <2>1. UNCHANGED <<pipe, announced, gate, statusLock, playing, spawning>>
        /\ pc \notin {"play", "broadcast"}
    BY <1>3 DEF PollReap, Quit
  <2>2. live'[s] \in {live[s], None}
    BY <1>3 DEF PollReap, Quit
  <2>3. Held(s, k)' => Held(s, k)
    BY <1>t, <2>1, <2>2 DEF Held
  <2> QED
    BY <1>0, <2>1, <2>3, PlayUntroubled
<1>4. CASE PollWatch \/ PollUnwatched \/ PollPromote \/ PollDrain \/ Tick \/ Terminated
  <2>1. /\ UNCHANGED <<live, spawning, playing, pipe, announced, gate, statusLock>>
        /\ pc \in {"play", "broadcast"} => pc' \in {"play", "broadcast"}
    BY <1>4 DEF PollWatch, PollUnwatched, PollPromote, PollDrain, Tick, Terminated, vars
  <2> QED
    BY <1>0, <2>1, PlayUntroubled DEF Held
<1>5. ASSUME NEW r \in Sources, Reboot(r) \/ Kill(r) \/ RespawnFails(r)
      PROVE  PlayKept(s, k)'
  <2>1. UNCHANGED <<pc, live, spawning, playing, pipe, announced, gate, statusLock>>
    BY <1>5 DEF Reboot, Kill, RespawnFails
  <2> QED
    BY <1>0, <2>1, PlayUntroubled DEF Held
<1>6. ASSUME NEW r \in Sources, NEW j \in Slots, Respawn(r, j)
      PROVE  PlayKept(s, k)'
  <2>1. /\ ~Heard(<<r, j>>)'
        /\ \A p \in Adapter : p # <<r, j>> => (Heard(p)' <=> Heard(p))
    BY <1>6, <1>t, RespawnPipe
  <2>2. /\ UNCHANGED <<live, playing, statusLock>> /\ spawning' = <<r, j>>
        /\ pc = "fire" /\ gate' = [gate EXCEPT ![<<r, j>>] = "none"]
    BY <1>6 DEF Respawn
  <2>3. CASE <<s, k>> = <<r, j>>
    BY <2>1, <2>3 DEF PlayKept
  <2>4. CASE <<s, k>> # <<r, j>>
    <3>1. gate'[<<s, k>>] = gate[<<s, k>>]
      BY <1>t, <2>2, <2>4 DEF TypeOK
    <3>2. Held(s, k)' => Held(s, k)
      BY <2>2, <2>4 DEF Held
    <3> QED
      BY <1>t, <2>1, <2>2, <2>4, <3>1, <3>2, PlayUntroubled
  <2> QED
    BY <2>3, <2>4
<1>7. CASE FinishSpawn
  <2>1. PICK r \in Sources, j \in Slots : spawning = <<r, j>>
    BY <1>7, <1>t DEF TypeOK, Bookkeeping, FinishSpawn, Adapter
  <2>2. /\ UNCHANGED <<playing, pipe, announced, gate, statusLock>>
        /\ pc = "spawn" /\ spawning' = None /\ live' = [live EXCEPT ![r] = j]
    BY <1>7, <2>1 DEF FinishSpawn
  <2>3. spawning' # <<s, k>>
    BY <1>t, <2>2, SupervisorAssumption DEF Adapter
  <2>4. Held(s, k)' => Held(s, k)
    BY <1>t, <2>1, <2>2, <2>3 DEF Held, TypeOK
  <2> QED
    BY <1>0, <2>2, <2>4, PlayUntroubled
<1>8. ASSUME NEW r \in Sources, NEW j \in Slots, HandleMsg(r, j)
      PROVE  PlayKept(s, k)'
  <2>1. /\ statusLock = None
        /\ UNCHANGED <<pc, live, spawning, playing>>
        /\ \A p \in Adapter : p # <<r, j>> => (Heard(p)' <=> Heard(p))
        /\ GetsReady(r, j) \/ GetsMismatch(r, j) \/ GetsStreams(r, j) \/ GetsOther(r, j)
    BY <1>8, <1>t, HandleEffect
  <2>2. ~GetsMismatch(r, j)
    BY DEF GetsMismatch
  <2>3. gate' = gate /\ ~AboutToPlay(s, k)
    BY <2>1, <2>2 DEF GetsReady, GetsStreams, GetsOther, AboutToPlay, LockedOn
  <2>4. Held(s, k)' <=> Held(s, k)
    BY <2>1 DEF Held
  <2>5. CASE <<s, k>> = <<r, j>> /\ GetsReady(r, j)
    <3>1. playing => AboutToPlay(s, k)'
      BY <2>1, <2>5, SupervisorAssumption DEF GetsReady, AboutToPlay, LockedOn
    <3> QED
      BY <2>1, <3>1 DEF PlayKept
  <2>6. CASE ~(<<s, k>> = <<r, j>> /\ GetsReady(r, j))
    <3>1. Heard(<<s, k>>)' => Heard(<<s, k>>)
      BY <1>t, <2>1, <2>2, <2>6 DEF GetsStreams, GetsOther
    <3> QED
      BY <2>1, <2>3, <2>4, <3>1 DEF PlayKept
  <2> QED
    BY <2>5, <2>6
<1>9. CASE FinishReady
  <2>1. /\ UNCHANGED <<pc, live, spawning, playing, pipe, announced>>
        /\ statusLock # None
        /\ gate' = IF statusLock.play
                   THEN [gate EXCEPT ![<<statusLock.source, statusLock.slot>>] = "Play"]
                   ELSE gate
    BY <1>9 DEF FinishReady
  <2>2. gate[<<s, k>>] = "Play" \/ AboutToPlay(s, k) => gate'[<<s, k>>] = "Play"
    BY <1>t, <2>1 DEF AboutToPlay, LockedOn, TypeOK
  <2> QED
    BY <2>1, <2>2 DEF PlayKept, Held, Heard
<1>10. ASSUME NEW r \in Sources, NEW j \in Slots, NEW m \in Alphabet, Write(r, j, m)
       PROVE  PlayKept(s, k)'
  <2>1. Heard(<<s, k>>)' <=> Heard(<<s, k>>)
    BY <1>10, <1>t, WritePipe
  <2>2. UNCHANGED <<pc, live, spawning, playing, gate, statusLock>>
    BY <1>10 DEF Write
  <2> QED
    BY <2>1, <2>2, PlayUntroubled DEF Held
<1>11. ASSUME NEW r \in Sources, NEW j \in Slots, Exit(r, j)
       PROVE  PlayKept(s, k)'
  <2>1. UNCHANGED <<pc, live, spawning, playing, pipe, announced, gate, statusLock>>
    BY <1>11 DEF Exit
  <2> QED
    BY <1>0, <2>1, PlayUntroubled DEF Held
<1> QED
  BY <1>1, <1>2, <1>3, <1>4, <1>5, <1>6, <1>7, <1>8, <1>9, <1>10, <1>11
  DEF Next, Main, Poll, Operator

\* Every adapter whose Ready has been handled has Play as its last command once
\* the broadcast is over, whichever came first, if none speaks another protocol
\* version.
THEOREM PlayReachesReadyHolds ==
  ASSUME \A m \in Alphabet : m.kind # "Mismatch"
  PROVE  Spec => []PlayReachesReady
<1> DEFINE Kept == \A s \in Sources, k \in Slots : PlayKept(s, k)
<1>1. Init => Kept
  BY DEF Init, PlayKept
<1>2. IInv /\ PipesInOrder /\ FromAlphabet /\ Kept /\ [Next]_vars => Kept'
  <2>1. CASE UNCHANGED vars
    BY <2>1 DEF vars, mainVars, handleVars, adapterVars, PlayKept, Held, Heard,
       AboutToPlay, LockedOn
  <2>2. ASSUME IInv, PipesInOrder, FromAlphabet, Kept, Next,
               NEW s \in Sources, NEW k \in Slots
        PROVE  PlayKept(s, k)'
    BY <2>2, PlayStep
  <2> QED
    BY <2>1, <2>2
<1>3. IInv /\ Kept => PlayReachesReady
  <2> SUFFICES ASSUME IInv, Kept, NEW s \in Sources,
                      playing, pc \notin {"play", "broadcast"}, statusLock = None,
                      live[s] # None, <<s, live[s]>> \in announced,
                      pipe[s, live[s]] = <<>>
               PROVE  gate[s, live[s]] = "Play"
    BY DEF PlayReachesReady
  <2>1. live[s] \in Slots
    BY DEF IInv, TypeOK
  <2>2. Heard(<<s, live[s]>>)
    BY EmptyQueue DEF Heard
  <2> QED
    BY <2>1, <2>2 DEF PlayKept, Held, AboutToPlay, LockedOn
<1> HIDE DEF Kept
<1> QED
  BY <1>1, <1>2, <1>3, Invariance, PipesOrdered, PTL DEF Spec
=============================================================================
